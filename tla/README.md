# Verification of ntun

ntun carries TCP connections between two processes, *nodes*, over one
transport: local programs connect to the SOCKS proxy of the node with an
input, and the node with an output connects to their destinations.  The
repository has two implementations of it, one in JavaScript (`node/`, with an
unfinished transport in `src/`) and one in Go (`go/`), which share ideas and no
protocol.  This directory holds TLA+ models of them, the TLC runs that check
the models, and theorems proved with TLAPS.

## Components

### JavaScript (`node/src/ntun.js` unless named)

| component | state | operations | interacts by |
|---|---|---|---|
| `Node` | `workingState` | `start`, `stop` | starts its `Connection` and listens to it |
| `Connection` (`Socks5InputConnection`, `DirectOutputConnection`, `Socks5OutputConnection`) | `workingState`, the Map `connections` from id to connection object (`socket`, `connected`, `wasClosed`, `messages`) | `start`, `stop`, handlers of the transport's, the multiplexer's and each socket's events | events of the transport and of sockets, messages to the other node |
| `ConnectionMultiplexer` | the current transport socket | `sendMessage`, `handleSocketOnBuffer` | CONNECT, CLOSE and DATA in framed buffers |
| `ClientTransport`, `ServerTransport` (TCP, WebSocket) | `socket`, `transportSocket`, `connecting`, the retry timer | `start`, `stop`, attempt, connect, accept, close | `connected` / `disconnected` events, read as `isConnected` |
| `TransportSocket`, `DataRateLimiter` | the reassembly state, the queue of the limiter and its timer | `writeBuffer`, `processData`, `clear` | chunks of bytes to and from the socket |
| `WebRTCTransport`, `WebRTCPeer` (`transport/webrtc`) | the peer, its data channel, the saved offer | offer / answer, `stop` | promises and peer events |
| `VkWebSocketSignalServer`, `VkCallSignalServerTransport` (`transport/vk-calls`) | the websocket; `state`, the opponent, the participants, `transportSocket` | `start`, `stop`, CONNECT / ACCEPT / BUFFER, `registered-peer`, `hungup` | a signal server that relays messages |
| `VkWebRTCTransport` (`transport/vk-calls`) | the same, the role (offer or answer), the peer | CONNECT / ACCEPT, SDP offer and answer, the data channel's events | the signal server and WebRTC |

### Go (`go/internal`)

| component | state | operations | interacts by |
|---|---|---|---|
| `ConnectionManager`, `Node` | `transportConn`, `mux`, handshakes, `wasConnected` | the transport loop, `Dial`, stream handlers | goroutines sharing `m.mux`, no lock |
| `TcpServerTransport`, `TcpClientTransport` | the listener | `Listen`, `Transport` | called by the transport loop |
| `BufferedConn` | buffer, timer, `writeCh`, `closeCh` | `Write`, `Flush`, `Close`, timer, writer goroutine | a mutex and two channels |
| `WebRTCTransport`, `webRTCConn` | the data channel, five Go channels | callbacks, `Read`, `Write`, `Close` | channels closed and set to nil by one goroutine |
| `YandexWebRTCTransport`, `YandexMail` | the calling state, its timer and context, the mail channel | calling, answering, aborting | mails that may be old, repeated or lost |
| `Proxy`, SOCKS server | - | two copying goroutines | half-closed TCP connections |
| `Mux` | - | a wrapper of yamux | - |

What is hard in this code is in `PROJECT.json`, "hazards", with the line where
each one bites: the 'close' event of a socket comes long after the call that
destroyed it, and by then the transport may have reconnected or the node may
have been stopped; the two ends of a transport learn of its loss at different
times; messages of the two ends cross; data arrive before their destination has
been reached; and in Go, fields and channels are shared by goroutines with a
lock that is released before they are used.

## Modules

| module | models |
|---|---|
| `Link` | the transport as the two nodes see it: numbered sessions between a client and a server |
| `Transport` | `ClientTransport` and `ServerTransport` with their flags, timers and 'close' events |
| `TransportLink` | `Transport` with its connections numbered, and the mapping under which it implements `Link` |
| `Tunnel` | both nodes: `Node`, `Connection`, `ConnectionMultiplexer`, the SOCKS input and the direct output, over `Link` |
| `Relay` | what a tunnel promises the programs on its two sides, with no messages or tables |
| `MCTunnel` | `Tunnel` with the ids and the symmetry for TLC |
| `TunnelInvariant` | the inductive invariant of `Tunnel` |
| `FrameChannel` | what one direction of a transport socket promises: a channel of whole buffers |
| `Framing` | `TransportSocket` and `DataRateLimiter` in one direction; implements `FrameChannel` |
| `VkSignal` | `VkWebSocketSignalServer` and the signal server of a VK call |
| `VkCall` | `VkCallSignalServerTransport`, over `VkSignal` |
| `WebRTC` | the data channel peers and what `WebRTCTransport` does with the one it holds |
| `VkWebRTC` | `VkWebRTCTransport`, over `VkSignal` and `WebRTC` |
| `ConnManager` | the Go `ConnectionManager` of a server and several clients, with its TCP transports |
| `MCVkWebRTC` | `VkWebRTC` where one given transport is the first to join, and `PairsUp` |
| `MCConnManager` | `ConnManager` with the nodes and the lists of allowed nodes for TLC |
| `BufferedConn` | the Go connection that gathers writes into packets |
| `TunnelProofs` | theorems about `Tunnel`: its safety, how connections end, and that it implements `Relay` |
| `TransportProofs` | theorems about `Transport`, also that it implements `Link` |
| `FramingProofs` | theorems about `Framing`, also that it implements `FrameChannel` |
| `ConnManagerProofs`, `BufferedConnProofs` | theorems about the two Go models |
| `VkSignalProofs` | lemmas about the signal server's steps |
| `VkCallProofs`, `VkWebRTCProofs` | theorems about the two transports over it |

`Tunnel` EXTENDS `Link` and composes two nodes with it; it implements `Relay`
under the mapping `Joined`.  `Link` in its turn is the abstract specification
that `Transport` implements, so the tower is `Transport`, `Link`, `Tunnel`,
`Relay`.  `Link` has whole messages in its channels; that a transport socket
provides them is what `Framing` shows for one direction.  `VkCall` and
`VkWebRTC` are other transports, both composed with `VkSignal`.  `ConnManager`
and `BufferedConn` belong to the Go program, where nothing but the Yandex
transport, which is not modelled, uses the latter.

### How Tunnel follows the code

A step is one event handler of one of the two JavaScript processes, run to its
end with everything it calls, synchronous listeners included:
`TransportDisconnected` is the transport's 'close' handler, the `disconnected`
event it emits and all that `handleOnTransportDisconnected` does.  `in` and
`out` name the two nodes.

- `working[s]` is the `workingState` of the node and its connection (they are
  set together), `mux[s]` is the session to which the socket of the multiplexer
  belongs, 0 for null, and `session[s]` is the session of the
  `transportSocket`, so that `isConnected` is `session[s] # 0`.  The code may
  have `mux[s] = 0` and `session[s] # 0`: a node that was stopped.
- `connections[s]` is the Map, `conn[s][c]` the connection object of `c`
  together with the state of its socket.  The object outlives its entry in the
  Map because its 'close' listener does.
- A socket is `connecting`, `open`, `ended` (the program at its other end, or
  an error) or `destroyed` (by the node); `closed` says that its 'close' event
  has been handled, some time later.
- `produced` and `delivered` are history: what the socket has read, and what
  was written to it.  Chunks are numbered, their bytes left out.
- `crashed[s]`: `sendMessage` on a null socket throws, in a handler nobody
  catches, and ends the process.
- 'connect' and 'ready' of a socket are emitted one after the other and are one
  action.  The errors of a socket only set the text of a message.
- Each connection is made once.  Its id is `IdOf[c]`; the properties that need
  it assume that ids differ (`DistinctIds`), which a 31 bit hash does not
  guarantee.

In `Link` the server's operating system may complete a connection the server
process has not accepted, so `opened` and `accepted` differ, and the server
accepts one connection at a time and destroys the others.  A transport is
started again in `Link` only after the 'close' of its old socket, which the
code does not demand; `Transport` has both (its constant `Overlap`), and
implements `Link` with the restriction.  What an end writes after its own
socket was destroyed may still arrive in the model until the 'close' event; the
code's subset of these behaviours, where it does not, is a loss of the session,
which the model has too.

### How Transport follows the code

The variables of the client are the fields of `ClientTransport`: `socket`,
`transportSocket`, `connecting`, `socketDestroyedByStopCalled`; `working` is its
`workingState`, of which `start` and `stop` leave only two values visible, and
`timers` counts the calls of `attemptToConnect` that a timer has still to make.
`handleSocketOnClose` is the override and the inherited handler together.  The
server has its four working states and one variable for `socket` and
`transportSocket`, which are set and cleared together.  A socket has two ends,
`clientEnd[i]` and `serverEnd[i]`; `dead` is an end whose 'close' is still to
come.  Names of sockets are used again when both ends are gone.

The delay before an attempt (0 or 3 seconds) is left out: a timer may fire at
any time.  But the event loop makes the 'close' callbacks of destroyed handles
before it comes to its timers again, and the code needs that: an attempt made
while the old socket is still to be closed would replace `this.socket` under its
handler.  `ClosesFirst` states it.  A server emits 'close' as soon as it has
destroyed its sockets, before their own 'close' events.  A failing
`listen()` is not modelled: the code logs it and stays in `starting`.

The order of the events is that of TCP: the client is connected
(`handleSocketOnConnect`) when the server's system has completed the connection,
before the server's process accepts it.  The WebSocket transports inherit all
handlers and are not modelled: their server emits 'connection' when it answers
the upgrade, and the client 'open' (`ntun.js` 1252) when that answer has come.
So a server may have a transport socket, and its node a session, before the
client does, or when the client never gets it, and a server that refuses does so
before the client is connected.  `Transport`, `Link` and `Tunnel` say nothing of
these orders.

### How Framing follows the code

The variables are the fields of `TransportSocket` and `DataRateLimiter`, and a
buffer is a sequence of bytes that know where they belong.  The loops of
`writeBuffer`, `processRateLimitQueue` and `processData` are steps, one for each
turn; while one is under way (`pieces`, `processing`, `Complete`) nothing else
happens in its process.  `limited` is chosen at the start: with a rate limit or
without.  Every `send()` that leaves something in the queue sets a timer and
forgets the one before, so the timers are counted.  The network (`handleOnData`)
hands over any part of what is under way.  A buffer above `MaximumBufferSize`
is not sent: `writeBuffer` throws, and when the cipher fails it emits 'error',
which throws as well, since nobody listens to it on a TCP transport.  Neither is
caught, and the process ends before a byte of the buffer is sent
(`writeBufferThrows`).  Otherwise the cipher is left out: it maps a buffer to a
longer one.  Buffers are not empty (no message of the multiplexer is), and
nobody writes after the writer's 'close'.

### How VkSignal, VkCall, WebRTC and VkWebRTC follow the code

Each websocket that opens is a new participant.  `VkSignal` has the part of the
signal server that the code relies on: who joins is told who is there, the
others are told of him, messages are relayed in order, and who has left is
reported some time later (30 to 80 seconds, says the comment in
`handleOnParticipantMessage`).  What was sent over a websocket that is lost
afterwards has reached the server.  The requests for the address of the server
are one step, which may fail.  All participants are web clients (`WEB` and `VK`
in the code).

A notification is one step with all that its handler does.  An exception in it
is caught in the code and changes nothing more; one in any other handler, a
rejection nobody handles, and 'error' of a transport without a listener end the
process (`crashed`).  `lost` are the transports around which something has
failed.

In `WebRTC` a peer is created, makes an offer or an answer, gathers candidates
while the code awaits them, and is matched with the peer that has its SDP as it
has that one's.  Peers that were replaced or forgotten stay in `peers`, since
their events are still heard.  An SDP stands for the peer it describes.  The
local description is set at once.  A peer that has answered may be given
another offer and answers again, once the candidates of its last answer are
gathered (`CanAnswer`); one that has made an offer (`offers`) cannot, and an
answer to the offer of another peer connects it to nobody.  The library tries longer to reach the other
end than it gathers candidates, so an answer arrives before its connection is
given up (`AnswerIsDue`).  A connection that fails is `broken` at both ends;
each end may report 'disconnected', upon which the transport forgets its peer
without destroying it, and may recover by itself (`recovered`), for
'disconnected' is no final state of a connection.  A forgotten peer keeps its
listeners: it may still open its channel, receive, and see the channel close.
Whoever awaits the candidates of a peer that was destroyed either gets a
rejection, which ends the process (`AwaitRejects`), or waits for ever: the
timeout rejects only if the gathering is not complete (`WebRTCPeer.js` 83).  A `VkWebRTCTransport` is started once, as in the scripts.
`WebRTCPeerServerTransport` and `WebRTCPeerClientTransport` (used by one script)
and an error of the transport socket are not modelled.

### How ConnManager follows the code

`pc[n]` is where the goroutine `process` of node `n` is: in `Transport()`, in
`time.Sleep`, in one of the two halves of `doTransportHandshake`, or in
`m.mux.Accept()`.  `wasConnected`, which decides whether it sleeps, is in `pc`:
`GiveUp` leads to `sleep`, `AcceptFails` to the next `Transport()`.  `conn[n]`
is `m.transportConn` and `mux[n]` the connection whose session is `m.mux`, 0
for nil.  `Dial` runs in goroutines of the SOCKS server: `dial[d]` is how far a
call has come, with a step for every use of `m.mux` (lines 304 and 310), and
`exit[d]` what `handleMuxConn` does with its stream.  Calling `CreateStream` on
nil panics in a goroutine without `recover`, and the process ends
(`CreateStreamPanics`).

A connection has two ends.  `dead` is an end whose reads and writes fail, which
the system or the keep-alive of yamux tells some time after the other end was
closed or the network has failed (`Learn`).  `listener.Accept` may fail, say for
want of file descriptors (`AcceptErrors`): the loop sleeps, and the backlog
stays.  The server's system completes
connections before its process accepts them (`backlog`), also of a client that
has given up and connects again.  Names of connections are used again.  A node
that allows the other has its session as soon as it has read its handshake,
though the other may refuse it.  The handshake's version and the comparison of
ids, which decides who is yamux client, are left out: nodes have the same
version and different ids.  So are `ReadMsg` of a message that comes in pieces
(it fails), rate limit and cipher, and what `Proxy` does with a served stream.
A node has an input or an output, never both (`cmd/ntun/main.go`).  `Stop` does
nothing.

### How BufferedConn follows the code

Whoever holds the mutex, a `Write`, a `Flush`, a callback of the timer or the
writer goroutine at its end, either leaves it in the same step or is in the
`select` of `flushLocked`, where it may block with the mutex held: `mu` names it
and `inHand` is the packet it sends.  The callbacks that wait for the mutex are
counted.  The writer takes a packet and writes it in two steps.
Bytes are numbered.  `Close` closes
`closeCh`, waits, and closes the connection, as two steps between which all else
may happen: a sleep orders nothing.

## Runs

| run | instance | shows |
|---|---|---|
| `tunnel_reconnect` | 2 connections, 1 chunk per socket, 2 sessions, no stops | `CloseComesLast`, `LiveIsTracked`, `SameSession`, `QuiescentAgreement`, `IsRelay` |
| `tunnel_shutdown` | 1 connection, 2 chunks, 2 sessions, 3 stops in any order | `InOrder`, `CrashOnlyWhenStopped` |
| `tunnel_liveness` | 1 connection, 1 chunk, 2 sessions, 2 stops, orderly | `NoCrash`, `DeathSpreads`, `ClientIsServed`, `DataArrives` |
| `transport_reconnect` | 3 socket names, 2 failures, 3 stops, started again at once | `AlwaysTrying`, `OpenIsShared`, `Reconnects`, `ServerStops` |
| `transport_link` | the same, 4 sessions, started again after 'close' | `IsLink` |
| `framing` | 2 buffers of 1 or 3 bytes, one of 4 is too large, chunks of 2, lengths of 2, 3 bytes per interval | `IsChannel`, `BuffersArrive` |
| `vk_call` | 2 transports, 4 websockets, 1 failure, 1 stop, 2 writes | `StreamIntact`, `StrangersHaveLost`, `CrashOnlyAfterLoss`, `PairsUp` |
| `vk_webrtc` | 2 transports, one given is the first to join, 3 websockets, 1 failure or stop | `OffersNeverMeet`, `SocketHasPeer`, `AloneWaits`, `PairsUp` |
| `vk_webrtc_stop` | 2 transports, 3 websockets, 1 failure or stop | `IdleLasts` is violated |
| `conn_manager` | a server with the input and 2 clients, 4 configurations, 1 call of `Dial`, 3 connection names, 1 failure | `OneAtATime`, `CrashOnlyAfterLoss`, `Reconnects`, `DialIsServed` |
| `buffered_conn` | 5 bytes, `maxSize` 2, a channel for 1 packet | `StreamIntact`, `BytesAreSent`, `NobodyBlocks` |
| `buffered_loss` | the same | `SentInTime` is violated |

Every passing run also checks its module's `TypeOK`, except `transport_link` and,
where a module has several runs, those after the first.

Findings.  The comment of `BufferedConn` says that data go out no later than
`maxDelay` after the first byte, and `Close` waits so that the rest can be sent.
But the writer may see `closeCh` before the packets that are queued; it then
flushes the rest into the channel it no longer reads and ends, so these bytes
are never sent (`SentInTime`).  The script `VkWebRTC.development.js` stops its
two transports and waits until both are idle at once; but the peer that `stop()`
has destroyed reports its disconnection, `handlePeerOnDisconnected` starts
the connection to the signal server again, and the transport that has become
idle is working again (`IdleLasts`).

What the models show besides:

- A callback of a timer of `BufferedConn` that was stopped too late flushes the
  next bytes early, in a packet smaller than the `maxSize` of its comment; no
  run checks this.
- Two VK WebRTC transports that join at about the same time may answer each
  other's CONNECT, both make the offer, and wait for ever; `PairsUp` of
  `MCVkWebRTC` admits exactly that outcome (`Crossed`), and none when one has been
  waiting alone.  After a failure of the network, with a fourth websocket, both
  may also become answer peers, or the second offer of a transport reach a peer
  that has answered its first one; hence `OffersNeverMeet` says what the comment
  in `startAnswerConnection` does, that no offer meets a peer which has made one
  itself, and not that each offer finds a new peer.
- A VK WebRTC transport may have a transport socket and no peer to write to.
  'disconnected' is a state a connection can come back from, but the transport
  forgets its peer at once, without destroying it or its 'dataChannelOpened'
  listener (`WebRTCTransport.js` 54 and 184-193).  If the network comes back
  before that channel has opened, it opens and makes a socket while `this.peer`
  is null or the peer of the next negotiation, and the first write throws in a
  handler nobody catches (`WriteWithoutChannel`).  So it may go at an end that
  has not lost the connection itself: its opponent's peer was forgotten, its
  channel opens after "hungup" was handled, and the ACCEPT of the opponent's
  return replaces the peer and leaves the socket.  `SocketHasPeer` names these
  sockets (`Escaped`); without a failed connection there are none.
- With three participants in a call a third transport may become CONNECTED to
  one that is not connected to it, and its buffers are pushed to that one's
  socket.  `StreamIntact` therefore speaks of the buffers of the opponent, and
  holds for any number; `StrangersHaveLost`, about all others, holds for two.
- A Go process panics in `Dial` when the session is lost between the test of
  `m.mux` and its use; `CrashOnlyAfterLoss` says when that can happen.
- A rate limit below 40 bytes in a second allows no byte per interval, and
  nothing is ever sent.

Bounds.  Two connections are enough for one to be hit by a message meant for
another, or to be left behind when the others are destroyed; the model has no
operation that relates three.  Two sessions are what is needed for a late event
or message of the old session to meet the new one, and for the server to drop a
second connection while it holds the first.  One chunk from each side suffices
for data against CLOSE and for buffering; order and repetition among chunks
need two, which the run over stops has and which checks `InOrder` therefore; for
any number both are proved.  Ids are not used again, so a late CLOSE is tested
against connections of other ids only (`DistinctIds`).  Three
stops allow node, transport and the other node to be stopped and started again
in every order.  `IsRelay` is checked with two connections and no stops; with
nodes that are stopped and started again it is proved.  In `Transport` the client has one socket at a time and the server may still hold
two that are dead, so three names are never short; two failures break a
connection at one end while the other lives on.  In `BufferedConn` five bytes
fill two packets and leave a byte, and a channel for one packet is full while a
second is being written and a third waits with the mutex.  In `Framing` a buffer
of three bytes is more than a chunk, an interval allows more than one chunk and
less than two, so that the limiter cuts one, and two buffers may meet in one
chunk of the network.  In `VkCall` four websockets let each transport be replaced
once, by a stop or a loss, while the other is still connected to the
participant that has gone; in `VkWebRTC` three let one join anew, while the
other still has the old peer.  `PairsUp` of `MCVkWebRTC` is about behaviours in
which nothing fails and nobody stops; a history variable, `hasWaited`, remembers
that one of the two was alone in the call before the other joined.  The two transports of `VkWebRTC`
are alike, and any behaviour with one of them as the first to join is, with the
names exchanged, one with the other: `MCVkWebRTC` leaves out half of them, which
a liveness property, where TLC may not use symmetry, needs to be checked in
time.  In `ConnManager` three names let a client come
back while its old connection waits in the backlog and the server is dealing
with the other client; the two clients are either both agreed with or one is
refused, by the server, by itself, or by both.  All bounds are constants:
`MaxData`, `MaxSessions`, `MaxStops`, `MaxFailures`, `MaxSize`, `Capacity`,
`MaxBytes`, `MaxBuffers`, `MaxJoins`, `MaxLosses`, `MaxWrites`, `MaxFaults`,
`MaxConns`.  Deadlock is not checked: with all bounds used up, or everything
stopped, the system may rest.

`Orderly` is the order in which the scripts of the repository work
(`ntun.development.js` 63-93, `ntun.cli.js` 252-253): a node is started before
its transport and stopped after it.  Nothing in `Node` enforces it.  With it no
process crashes (`NoCrash`).  Without it a stopped node can crash, by the
'close' events of its sockets, while its transport is connected, and
`CrashOnlyWhenStopped` says that this is the only way.  No document of the
repository promises otherwise, so this is no finding, but it is something a
user of the library should know.

Fairness (`Fairness` in `Tunnel`).  Node's event loop handles every event that
is ready: a message that has arrived, the 'close' of a dead socket, a
connection in the backlog, the 'listening' of the server.  An attempt to
connect to a destination succeeds or fails in the end (the operating system
gives up).  TCP tells an end that the other end has closed.  Nothing makes a
client come, a socket produce data, a transport connect or the network break,
so the liveness properties hold whether or not they do.

In `Transport` timers fire, the events of sockets are emitted, a server that was
told to listen does, and TCP tells each end that the other is gone.  The last is
the operating system's promise only while something is sent: there is no
keep-alive in the code, and a server that is never told refuses every new
connection of its client (listed under "hazards").  The network fails finitely
often by the bound on failures, which `Reconnects` needs.

In `BufferedConn` goroutines that can take a step do, and a goroutine that
waits for the mutex gets it (strong fairness): Go's mutex hands itself over to a
waiter after a millisecond.  A timer that runs fires.  Nobody is forced to
write, flush or close.

In `Framing` loops go on, time passes, timers fire and bytes arrive.  In
`VkCall` and `VkWebRTC` the address is fetched, websockets open and close,
notifications are handled, candidates are gathered, channels open and close,
and the signal server notices who has left.  In `VkWebRTC` this is one condition
for all these steps together: as long as one of them can be taken, one is.  No
property needs more, because each of them uses up something.  An await that can
only be rejected, a connection that could recover, and a write are not among
them: they may never come.  In `ConnManager` goroutines run,
`time.Sleep` ends, the system answers an attempt to connect and gives the server
what is in its backlog, and each node is told in the end that a connection is
over: by TCP's keep-alive (Go's default) during the handshake, which has no
deadline, and by that of yamux in a session.  In none of them has anybody to
start, stop, write or call `Dial`, and nothing has to fail.

`QuiescentAgreement` is the safety half of "the ends agree": in a state where
every message is read and every 'close' has been handled.  `DeathSpreads` is
its liveness half.  Its right side says *for good*: an end may learn of a death
before it has opened its own socket, and opens it all the same.

## Proofs

All theorems hold for every value of the constants that satisfies the named
assumptions: `MaxSessionsAssumption`, `TunnelAssumption`, `LinkAssumption`,
`BufferedConnAssumption`, `SignalAssumption` and so on only say what kind of value a
constant is.  Where a theorem needs more (`DistinctIds`, `Orderly`,
`~Overlap`) it says so.  Every inductive invariant
was checked by TLC on the instance of a run before it was proved.

### Tunnel

`TunnelProofs` proves `TypeCorrect` and the four safety properties `InOrder`,
`LiveIsTracked`, `SameSession` and `CrashOnlyWhenStopped`, for any sets of
connections and ids, any bounds and both values of `Orderly`.  All but the first
assume `DistinctIds`.

`InOrder` speaks of what was delivered, so it is not inductive: the next DATA
message to be handled must carry the next chunk.  `IInv` in `TunnelInvariant`
adds what that rests on:

- `FlowInv`, the heart of it: for a live socket, the chunks in the channel of
  its session are exactly those between what it has received (or has waiting in
  `messages`) and what the other socket has read, once each and in order;
- `PendingInv`, the same before the socket exists: a CONNECT still to be read
  precedes all data of its connection, and `OneConnect`: there is only one;
- `MessageInv` and `TableInv`: ids in messages and tables are those of the
  connections they are about, so that data reach the right socket;
- `ObjectInv`: an open socket has nothing waiting, a connecting one was given
  nothing yet;
- `MuxInv`: a node that listens to its transport writes to the current session,
  and `LiveIsTracked`: its live sockets belong to that session, so that when
  the session ends, with the messages that were in it, they end too.

It also proves what this invariant says nothing of: how connections end.
`CloseIsLast` (`CloseComesLast`, also for both values of `Orderly`) needs
`EndInv`, which follows a CLOSE from the dead socket that caused it, through the
channel, where nothing of the connection comes after it (`CloseInv`), to the
table entry it removes (`EntryInv`, `WordInv`).  With `Orderly` there is
`OrderlyInv` besides: a node that does not listen to its transport has none
(`OrderInv`), sessions that have not begun are empty (`BegunInv`), the CONNECT
of a live client is on its way or was handled (`SoughtInv`), and the death of a
socket whose 'close' was seen is told to the other end by a CLOSE still in the
channel, or by the end of the session (`ToldInv`).  From it follow
`NobodyCrashes` (`NoCrash`) and `NodesAgreeWhenQuiet` (`QuiescentAgreement`).

`TunnelImplementsRelay` is the refinement `IsRelay`, data and order included.
Under `Orderly` a node is online exactly while it is in a session, and each
action is mapped by a lemma of its own: a session that is won or lost is
`GoesOnline` or `GoesOffline` with all connections of that end, a CONNECT that
is read `DestinationSought`, a DATA message or the flush of waiting messages
`Hand`, an ending socket `Dies`, a CLOSE `Follows`, and all else is a stutter.
That a CLOSE is allowed to end the socket, and that a session's loss ends
exactly those of it, are `CloseComesLast` and `LiveIsTracked`.

There is one lemma for each action in which each part of the invariant is a
step; lemmas about queues (appending to one, taking its head) and about the
helpers are cited by name.

### Transport

`TransportProofs` proves the three invariants of `Transport`.  Their inductive
form, `ClientInv`, says what `socketDestroyedByStopCalled` is for: it is set
exactly between `stop()` and the 'close' of the socket destroyed, in which time
a client that was started again already has its timer.  `ClosesFirst`, a guard
of `attemptToConnect`, is what it rests on.

It also proves that `Transport` implements `Link` (`TransportImplementsLink`),
for any number of sockets, failures, stops and sessions, under the hypothesis
`~Overlap`: a transport is started again only after the 'close' of the socket
it had, as `Link` has it.  `NumberInv` says how the connections are numbered:
the backlog holds the last ones, in order, so that accepting its head is what
`Link` calls the next session, and a transport socket is gone before its
transport is started again.  The initial state and each action are mapped by a lemma; the
values for the two ends are pairs (`Ends`), so that a step of one end is seen to
leave the other's alone.

### Framing

`FramingProofs` proves `FramingTypes` and that `Framing` implements the channel
of whole buffers (`FramingImplementsChannel`), for any sizes of buffers, chunks
and lengths, any rate or none, and any number of buffers, from
`FramingAssumption`.  With it, what `Link` takes for granted, whole messages in
order, is proved of what carries them.

The property is about the buffers emitted, the code handles bytes.  `StreamInv`
is the bridge: what the reader has read of a length or a buffer, its chunks, what
is on the wire, the limiter's queue and the pieces `writeBuffer` still has to
hand over are, one after the other, the buffers not yet emitted with their
lengths; once the writer has closed, a first part of that.  `ReaderInv` says
that `sizeToRead` is a length's, or that of the buffer the reader is at, so that
when so many bytes have come they are this buffer and no other.  `TypeOK` is
part of the induction: `chunksTotalSize` is the size of the chunks the reader
has, and a counter that was off by a byte would cut the stream at the wrong
place; `spent` never exceeds the share of an interval.

Each step moves bytes from one part to the next, and the proofs are about
concatenation.  `FlattenSeq` of the community modules is a recursive function,
and what it computes needs an induction.  The library's induction theorems take
an operator, but the least element of a nonempty set of numbers is a fact that
takes none (`WFMin`): `Induction` is stated for a set and proved by a least
counterexample, and gives `FlattenSeq` its laws: of the empty sequence, of one
that grows at its end, of two one after the other.

### ConnManager

`ConnManagerProofs` proves `TypeCorrect`, `OneClientAtATime` and
`CrashNeedsLoss` for any number of clients, calls of `Dial`, connections and
failures, any placement of outputs and any lists of allowed nodes, from
`ConnManagerAssumption`.  `OneAtATime` is not inductive: a client's session says
nothing of the server.  `IInv` goes the way the code does: a client has a
session because it has read the server's handshake (`HandshakeInv`; of two ends
of a connection only the server is another one, `EndsInv`); the server writes
its handshake on the connection it is dealing with and on no other; and it
leaves that one only by `clear()`, which closes it.  `BacklogInv` keeps what
waits to be accepted apart from what has been: a connection waits once, and is
not closed.  `CloseKeeps` and `ClearKeeps` say what closing leaves alone.
`CrashOnlyAfterLoss` has an invariant of its own, `Calm`: while nothing has
failed and all agree, no connection is dead or closed at an end, so nobody ever
calls `clear()` with a session, and a `Dial` that has seen `m.mux` finds it.

### BufferedConn

`BufferedConnProofs` proves `BufferedConnTypes` and `BufferedStreamIntact` for
any number of writes, sizes and capacities.  The whole stream, `sent`, what the
writer is writing, the channel, the packet in hand and the buffer, in this
order, is one sequence of packets (`Stream`).  It is `Ordered`, and
`Contiguous` as long as nothing was dropped; every action moves a packet from
one part to the next, cuts the buffer, lets it grow, or drops one.  A timer
callback that comes late, or two flushes that wait for each other, are among
these.

### VkCall

`VkSignalProofs` says once what the steps of the signal server do to types and
queues.  `VkCallProofs` proves four theorems about any number of joins, losses,
stops and writes, the first three also of transports.

`CallTypes` and `CallCrashNeedsLoss` (`CrashOnlyAfterLoss`): a transport socket
is made only when a notification is handled, which comes over an open websocket,
and `stop()` destroys it before it closes the websocket, so a write without a
websocket needs a loss.

`CallStreamIntact` (`StreamIntact`): CONNECT, ACCEPT and BUFFER share one queue,
both ends may call and answer at once, and a socket may be made for a message
that was sent before another was replaced.  What is still in the queue decides
what the next socket will be given, so the invariant is about the queues.
`FlowInv` says:

- `HelloInv`: behind every CONNECT or ACCEPT are all buffers that its sender has
  written to the reader under this name, from the first to the last.  A reader
  that becomes connected by any of them, the first or a late one, misses none.
- `PairInv`: a transport that is connected was given the first ones, and the
  others are in its queue, in order.  `Numbers` and `Given` state "in order and
  none left out" by bounds, order and a witness for each number: a subsequence
  would be recursive, and they change by one clause when a queue grows or
  is read.
- `QueueInv`, `NewInv`, `NamesInv`: a queue starts with who is in the call; a
  participant that has not read that was called by nobody; no message is about a
  name that has not joined, and a name reported gone is nobody's.  Without the
  last, a name could come back and its buffers with it.

`CallStrangersHaveLost` (`StrangersHaveLost`) assumes `AtMostTwo`; with a third
transport it is false.  `TrustInv` says why it holds for two: whoever is
connected to the other's name was called or answered by it, and the other is
connected to it or still has the CONNECT or ACCEPT to read that will connect it,
ahead of any buffer (`MutualInv`, `CallInv`, `BufferInv`).  `LatestInv` and
`KnownInv` put the names of one transport in order, the old before the new in
every queue, and `StaleInv` is the hypothesis of the property, that without a
failure a socket belongs to the name its transport has now.

TLC checked both invariants with the bounds of the run `vk_call`.

### VkWebRTC

`VkWebRTCProofs` proves `TypesHold`, `SocketsHavePeers` (`SocketHasPeer`) and
`OffersDoNotMeet` (`OffersNeverMeet`) for any number of transports, joins and
failures.  None of the three is inductive: what is still in a queue may be of
a participant or a peer that is long gone.  The conjuncts of `IInv` say what it
can still do.

- `PeerInv`: the peer that offers was checked first; the peer that answers
  takes offers of ever higher-numbered peers only.
- `ForgottenInv`: a peer that `this.peer` no longer is, was destroyed, reaches
  nobody, or has lost its connection (`Gone`), and no notification under way can
  change that.  Only the last kind may be heard of again, and `PeerFact` says
  that the peers at both ends of a connection that has failed stay marked.
- `MessageInv`: an offer or an answer in a queue is of a peer of its sender,
  and if the sender has left, that peer is `Gone`.
- `OrderFact`, `PairedFact`: the offers still to come from the opponent are of
  later peers than the one answered; once both have each other's SDP none comes.
- `UnheardFact`: while the TURN check of a new participant is pending, nobody
  knows of it but by the server's word, so no offer can meet the peer checked.
- `LinkFact`: the peer whose SDP `this.peer` has is the opponent's, or `Gone`.
  With it, `SocketFact` (the channel of `this.peer` is open while there is a
  transport socket, unless a peer whose connection has failed has `Escaped`) is
  preserved when a channel opens at either end, of whatever peer.

There is one lemma per handler, and each of them shows what it leaves alone
(`Frame`, `PeersPass`, `OwnersPass`) before the conjuncts it disturbs.

### Only model-checked

Every invariant and every refinement that a passing run checks is a theorem.
What remains are the liveness properties and the fairness they need, which are
out of the prover's reach: `DeathSpreads`, `ClientIsServed`, `DataArrives`,
`Reconnects`, `ServerStops`, `BuffersArrive`, `PairsUp`, `AloneWaits`,
`DialIsServed`, `BytesAreSent`, `NobodyBlocks`.

## Not modelled

The state of each part is in `PROJECT.json`, "components".  Left aside for
good: ciphers, logging, configuration and installation scripts (sequential,
without state the tunnel depends on), the Telemost transport in `src/`
(unfinished: its handlers print messages), the examples, and the inside of
`Mux.go`, whose own code is commented out in favour of yamux.  Not yet
modelled: `Socks5OutputConnection`, the WebSocket transports (the part of them
that differs from TCP is described with `Transport`), and in Go the WebRTC transport, the
calling by mail of the Yandex transport, and the SOCKS server and `Proxy`.

## Plan

In this order:

1. `WebRTCConn` (Go): channels and locks of the data channel, which a callback
   closes and sets to nil while `Read` and `Write` use them.
2. `YandexCalling` (Go): offers and answers by mail, timers, restarts, with a
   mail that is old or repeated.
3. `Proxy` (Go): two copies of a connection and half-closed ends.  After one
   direction has ended, a `Read` of one byte competes with the copy of the other
   direction, and closing may cut an answer short.
4. `Socks5Output`: the placeholder socket and the promise, in the place of the
   direct output of `Tunnel`.
5. More proofs, with the new modules; the code modelled so far has no safety
   property left without one.
