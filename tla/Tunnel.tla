------------------------------- MODULE Tunnel -------------------------------
(***************************************************************************)
(* The two nodes of the Node.js tunnel (node/src/ntun.js): the "in" node,  *)
(* whose Socks5InputConnection accepts local SOCKS clients, and the "out"  *)
(* node, whose DirectOutputConnection opens the sockets to the             *)
(* destinations.  Each keeps a table of connections by connectionId and    *)
(* exchanges CONNECT, CLOSE and DATA messages with the other through its   *)
(* ConnectionMultiplexer, over the sessions of module Link.                *)
(*                                                                         *)
(* Each node is one JavaScript process: a step is one event handler, run   *)
(* to its end, and the interleaving is that of the events of the two       *)
(* processes, of their sockets and of the transport.                       *)
(***************************************************************************)
EXTENDS Link, FiniteSets

CONSTANTS
  Conns,      \* tunnel connections; each has a socket at each end
  Ids,        \* connection identifiers
  IdOf,       \* IdOf[c]: getConnectionIdBySocket of c's client socket
  None,       \* no connection
  MaxData,    \* how many chunks a socket may read
  MaxStops,   \* how many times nodes and transports are stopped
  Orderly     \* a node is stopped only after its transport, as the scripts
              \* of the repository do

ASSUME TunnelAssumption ==
  /\ IdOf \in [Conns -> Ids]
  /\ None \notin Conns
  /\ MaxData \in Nat
  /\ MaxStops \in Nat
  /\ Orderly \in BOOLEAN

VARIABLES
  working,      \* working[s]: the workingState of s's Node and Connection
  mux,          \* mux[s]: the session its ConnectionMultiplexer.socket is of
  connections,  \* connections[s][id]: the Map of s's Connection
  conn,         \* conn[s][c]: the connection object of c at s, with its socket
  produced,     \* produced[s][c]: how many chunks c's socket at s has read
  delivered,    \* delivered[s][c]: the chunks written to c's socket at s
  stops,        \* how many times a node or a transport was stopped
  crashed       \* crashed[s]: an exception nobody catches ended s's process

nodeVars == <<working, mux, stops, crashed>>
connVars == <<connections, conn, produced, delivered>>
vars == <<linkVars, nodeVars, connVars>>

-----------------------------------------------------------------------------
(* A chunk is named by the connection it was read from and its number.     *)
Chunk == Conns \X (1..MaxData)

Message ==
       [type: {"CONNECT"}, id: Ids, conn: Conns]
  \cup [type: {"CLOSE"}, id: Ids]
  \cup [type: {"DATA"}, id: Ids, data: Chunk]

WorkingState == {"idle", "starting", "working", "stopping"}

(* A socket ends by itself (the program at its other end closes, or an     *)
(* error) or is destroyed by the node; its 'close' event comes later, and  *)
(* is recorded in "closed".                                                *)
LiveSocket == {"connecting", "open"}
DeadSocket == {"ended", "destroyed"}

ConnectionObject ==
  [sock: {"none"} \cup LiveSocket \cup DeadSocket,
   connected: BOOLEAN, wasClosed: BOOLEAN, closed: BOOLEAN,
   messages: Seq(Chunk)]

NoConnection ==
  [sock |-> "none", connected |-> FALSE, wasClosed |-> FALSE,
   closed |-> FALSE, messages |-> << >>]

TypeOK ==
  /\ running \in [Side -> BOOLEAN]
  /\ opened \in 0..MaxSessions
  /\ accepted \in 0..opened
  /\ session \in [Side -> 0..MaxSessions]
  /\ chan \in [Side -> [Session -> Seq(Message)]]
  /\ working \in [Side -> WorkingState]
  /\ mux \in [Side -> 0..MaxSessions]
  /\ connections \in [Side -> [Ids -> Conns \cup {None}]]
  /\ conn \in [Side -> [Conns -> ConnectionObject]]
  /\ produced \in [Side -> [Conns -> 0..MaxData]]
  /\ delivered \in [Side -> [Conns -> Seq(Chunk)]]
  /\ stops \in 0..MaxStops
  /\ crashed \in [Side -> BOOLEAN]

Init ==
  /\ LinkInit
  /\ working = [s \in Side |-> "idle"]
  /\ mux = [s \in Side |-> 0]
  /\ connections = [s \in Side |-> [id \in Ids |-> None]]
  /\ conn = [s \in Side |-> [c \in Conns |-> NoConnection]]
  /\ produced = [s \in Side |-> [c \in Conns |-> 0]]
  /\ delivered = [s \in Side |-> [c \in Conns |-> << >>]]
  /\ stops = 0
  /\ crashed = [s \in Side |-> FALSE]

Live(s, c) == conn[s][c].sock \in LiveSocket
Dead(s, c) == conn[s][c].sock \in DeadSocket

-----------------------------------------------------------------------------
(* Helpers of the handlers.                                                *)

(* ConnectionMultiplexer.sendMessage: with no socket the call throws, and  *)
(* since no handler catches it, the process exits.                         *)
sendMessage(s, m) ==
  \/ /\ mux[s] # 0
     /\ chan' = Posted(Peer(s), mux[s], m)
     /\ UNCHANGED crashed
  \/ /\ mux[s] = 0
     /\ crashed' = [crashed EXCEPT ![s] = TRUE]
     /\ UNCHANGED chan

destroy(o) ==
  IF o.sock \in LiveSocket THEN [o EXCEPT !.sock = "destroyed"] ELSE o

(* The connections handleConnectionSocketOnClose will still hear of, and   *)
(* the Map is empty.                                                       *)
destroyAllConnections(s) ==
  /\ conn' = [conn EXCEPT ![s] = [c \in Conns |->
                IF c \in {connections[s][id] : id \in Ids}
                THEN destroy(conn[s][c]) ELSE conn[s][c]]]
  /\ connections' = [connections EXCEPT ![s] = [id \in Ids |-> None]]

(* The Connection listens to its transport from start() to stop().         *)
Listens(s) == working[s] \in {"starting", "working"}

handleOnTransportConnected(s, k) ==
  mux' = IF Listens(s) THEN [mux EXCEPT ![s] = k] ELSE mux

(* Mutant: the connections survive the loss of the transport.              *)
handleOnTransportDisconnected_KeepsConnections(s) ==
  /\ mux' = IF Listens(s) THEN [mux EXCEPT ![s] = 0] ELSE mux
  /\ UNCHANGED <<conn, connections>>

handleOnTransportDisconnected(s) ==
  IF Listens(s)
  THEN /\ destroyAllConnections(s)
       /\ mux' = [mux EXCEPT ![s] = 0]
  ELSE UNCHANGED <<conn, connections, mux>>

-----------------------------------------------------------------------------
(* The nodes.                                                              *)

(* Node.start(), Connection.start(): the handlers are registered, and a    *)
(* transport already connected is taken as it is.  DirectOutputConnection  *)
(* has started at once, the SOCKS server has yet to listen.                *)
Start(s) ==
  /\ ~crashed[s] /\ working[s] = "idle"
  /\ working' = [working EXCEPT ![s] =
                   IF s = "in" THEN "starting" ELSE "working"]
  /\ mux' = [mux EXCEPT ![s] = session[s]]
  /\ UNCHANGED <<linkVars, stops, crashed, connVars>>

handleOnSocksServerListening ==
  /\ ~crashed["in"] /\ working["in"] = "starting"
  /\ working' = [working EXCEPT !["in"] = "working"]
  /\ UNCHANGED <<linkVars, mux, stops, crashed, connVars>>

(* Node.stop(), Connection.stop(): DirectOutputConnection has stopped at   *)
(* once, the SOCKS server has yet to close.                                *)
Stop(s) ==
  /\ ~crashed[s] /\ working[s] = "working"
  /\ stops < MaxStops
  /\ Orderly => ~running[s] /\ session[s] = 0
  /\ working' = [working EXCEPT ![s] =
                   IF s = "in" THEN "stopping" ELSE "idle"]
  /\ destroyAllConnections(s)
  /\ mux' = [mux EXCEPT ![s] = 0]
  /\ stops' = stops + 1
  /\ UNCHANGED <<linkVars, crashed, produced, delivered>>

(* The SOCKS server has closed once every socket it accepted has.          *)
handleOnSocksServerClose ==
  /\ ~crashed["in"] /\ working["in"] = "stopping"
  /\ \A c \in Conns : conn["in"][c].sock = "none" \/ conn["in"][c].closed
  /\ working' = [working EXCEPT !["in"] = "idle"]
  /\ UNCHANGED <<linkVars, mux, stops, crashed, connVars>>

-----------------------------------------------------------------------------
(* The transport.  A transport is started after its node.                  *)

TransportStart(s) ==
  /\ ~crashed[s]
  /\ Orderly => Listens(s)
  /\ LinkStart(s)
  /\ UNCHANGED <<nodeVars, connVars>>

TransportStop(s) ==
  /\ ~crashed[s]
  /\ stops < MaxStops
  /\ LinkStop(s)
  /\ stops' = stops + 1
  /\ UNCHANGED <<working, mux, crashed, connVars>>

ClientTransportConnected ==
  /\ ~crashed["in"] /\ ~crashed["out"]
  /\ ClientConnects
  /\ handleOnTransportConnected("in", opened + 1)
  /\ UNCHANGED <<working, stops, crashed, connVars>>

ServerTransportConnected ==
  /\ ~crashed["out"]
  /\ ServerAccepts
  /\ handleOnTransportConnected("out", accepted + 1)
  /\ UNCHANGED <<working, stops, crashed, connVars>>

ServerTransportDrops ==
  /\ ~crashed["out"]
  /\ ServerDrops
  /\ UNCHANGED <<nodeVars, connVars>>

TransportDisconnected(s) ==
  /\ ~crashed[s]
  /\ LinkLost(s)
  /\ handleOnTransportDisconnected(s)
  /\ UNCHANGED <<working, stops, crashed, produced, delivered>>

-----------------------------------------------------------------------------
(* The sockets.                                                            *)

(* A SOCKS client's request is accepted; without a transport it is denied, *)
(* which changes nothing.  A client still in its handshake when the server *)
(* was closed is accepted all the same.                                    *)
handleOnSocksServerConnection(c) ==
  /\ ~crashed["in"] /\ working["in"] \in {"working", "stopping"}
  /\ session["in"] # 0
  /\ conn["in"][c].sock = "none"
  /\ conn' = [conn EXCEPT !["in"][c] =
                [@ EXCEPT !.sock = "open", !.connected = TRUE]]
  /\ connections' = [connections EXCEPT !["in"][IdOf[c]] = c]
  /\ sendMessage("in", [type |-> "CONNECT", id |-> IdOf[c], conn |-> c])
  /\ UNCHANGED <<running, opened, accepted, session, working, mux, stops,
                 produced, delivered>>

(* Mutant: pop in the place of shift: what waited is written last first.   *)
handleConnectionSocketOnReady_LastFirst(c) ==
  /\ ~crashed["out"]
  /\ conn["out"][c].sock = "connecting"
  /\ conn' = [conn EXCEPT !["out"][c] =
                [@ EXCEPT !.sock = "open", !.connected = TRUE,
                          !.messages = << >>]]
  /\ LET waiting == conn["out"][c].messages
         last    == Len(waiting) + 1
     IN  delivered' = [delivered EXCEPT !["out"][c] =
                         @ \o [k \in DOMAIN waiting |-> waiting[last - k]]]
  /\ UNCHANGED <<linkVars, nodeVars, connections, produced>>

(* Mutant: what waited is forgotten.                                       *)
handleConnectionSocketOnReady_NoFlush(c) ==
  /\ ~crashed["out"]
  /\ conn["out"][c].sock = "connecting"
  /\ conn' = [conn EXCEPT !["out"][c] =
                [@ EXCEPT !.sock = "open", !.connected = TRUE]]
  /\ UNCHANGED <<linkVars, nodeVars, connections, produced, delivered>>

(* 'connect' and 'ready': what came before the destination answered is     *)
(* written to it.                                                          *)
handleConnectionSocketOnReady(c) ==
  /\ ~crashed["out"]
  /\ conn["out"][c].sock = "connecting"
  /\ conn' = [conn EXCEPT !["out"][c] =
                [@ EXCEPT !.sock = "open", !.connected = TRUE,
                          !.messages = << >>]]
  /\ delivered' = [delivered EXCEPT !["out"][c] =
                     @ \o conn["out"][c].messages]
  /\ UNCHANGED <<linkVars, nodeVars, connections, produced>>

(* Mutant: the chunk is sent under the number of the one before.           *)
handleConnectionSocketOnData_Renumbered(s, c) ==
  /\ ~crashed[s]
  /\ conn[s][c].sock = "open"
  /\ produced[s][c] < MaxData
  /\ produced' = [produced EXCEPT ![s][c] = @ + 1]
  /\ sendMessage(s, [type |-> "DATA", id |-> IdOf[c],
                     data |-> <<c, produced[s][c]>>])
  /\ UNCHANGED <<running, opened, accepted, session, working, mux, stops,
                 connections, conn, delivered>>

handleConnectionSocketOnData(s, c) ==
  /\ ~crashed[s]
  /\ conn[s][c].sock = "open"
  /\ produced[s][c] < MaxData
  /\ produced' = [produced EXCEPT ![s][c] = @ + 1]
  /\ sendMessage(s, [type |-> "DATA", id |-> IdOf[c],
                     data |-> <<c, produced[s][c] + 1>>])
  /\ UNCHANGED <<running, opened, accepted, session, working, mux, stops,
                 connections, conn, delivered>>

(* The program at the other end of the socket closes it, it fails, or the  *)
(* destination cannot be reached.                                          *)
SocketEnds(s, c) ==
  /\ ~crashed[s] /\ Live(s, c)
  /\ conn' = [conn EXCEPT ![s][c] = [@ EXCEPT !.sock = "ended"]]
  /\ UNCHANGED <<linkVars, nodeVars, connections, produced, delivered>>

(* Mutant: the other node is not told.                                     *)
handleConnectionSocketOnClose_Silent(s, c) ==
  /\ ~crashed[s] /\ Dead(s, c) /\ ~conn[s][c].closed
  /\ conn' = [conn EXCEPT ![s][c] =
                [@ EXCEPT !.closed = TRUE, !.connected = FALSE]]
  /\ connections' =
       IF conn[s][c].wasClosed \/ session[s] = 0 THEN connections
       ELSE [connections EXCEPT ![s][IdOf[c]] = None]
  /\ UNCHANGED <<linkVars, nodeVars, produced, delivered>>

(* Mutant: the other node is told of a lost connection only, not of one    *)
(* that could not be made.                                                 *)
handleConnectionSocketOnClose_IfConnected(s, c) ==
  /\ ~crashed[s] /\ Dead(s, c) /\ ~conn[s][c].closed
  /\ conn' = [conn EXCEPT ![s][c] =
                [@ EXCEPT !.closed = TRUE, !.connected = FALSE]]
  /\ \/ /\ conn[s][c].wasClosed \/ session[s] = 0 \/ ~conn[s][c].connected
        /\ UNCHANGED <<chan, connections, crashed>>
     \/ /\ ~conn[s][c].wasClosed /\ session[s] # 0 /\ conn[s][c].connected
        /\ connections' = [connections EXCEPT ![s][IdOf[c]] = None]
        /\ sendMessage(s, [type |-> "CLOSE", id |-> IdOf[c]])
  /\ UNCHANGED <<running, opened, accepted, session, working, mux, stops,
                 produced, delivered>>

(* Mutant: isConnected is not looked at.                                   *)
handleConnectionSocketOnClose_Unguarded(s, c) ==
  /\ ~crashed[s] /\ Dead(s, c) /\ ~conn[s][c].closed
  /\ conn' = [conn EXCEPT ![s][c] =
                [@ EXCEPT !.closed = TRUE, !.connected = FALSE]]
  /\ \/ /\ conn[s][c].wasClosed
        /\ UNCHANGED <<chan, connections, crashed>>
     \/ /\ ~conn[s][c].wasClosed
        /\ connections' = [connections EXCEPT ![s][IdOf[c]] = None]
        /\ sendMessage(s, [type |-> "CLOSE", id |-> IdOf[c]])
  /\ UNCHANGED <<running, opened, accepted, session, working, mux, stops,
                 produced, delivered>>

handleConnectionSocketOnClose(s, c) ==
  /\ ~crashed[s] /\ Dead(s, c) /\ ~conn[s][c].closed
  /\ conn' = [conn EXCEPT ![s][c] =
                [@ EXCEPT !.closed = TRUE, !.connected = FALSE]]
  /\ \/ /\ conn[s][c].wasClosed \/ session[s] = 0
        /\ UNCHANGED <<chan, connections, crashed>>
     \/ /\ ~conn[s][c].wasClosed /\ session[s] # 0
        /\ connections' = [connections EXCEPT ![s][IdOf[c]] = None]
        /\ sendMessage(s, [type |-> "CLOSE", id |-> IdOf[c]])
  /\ UNCHANGED <<running, opened, accepted, session, working, mux, stops,
                 produced, delivered>>

-----------------------------------------------------------------------------
(* The messages: ConnectionMultiplexer.handleSocketOnBuffer.               *)

Receives(s, type) ==
  /\ ~crashed[s] /\ session[s] # 0 /\ mux[s] = session[s]
  /\ Incoming(s) # << >> /\ Head(Incoming(s)).type = type
  /\ chan' = Consumed(s)
  /\ UNCHANGED <<running, opened, accepted, session, nodeVars>>

(* A node that does not listen to its transport does not see the message.  *)
BufferIgnored(s) ==
  /\ ~crashed[s] /\ session[s] # 0 /\ mux[s] # session[s]
  /\ Incoming(s) # << >>
  /\ chan' = Consumed(s)
  /\ UNCHANGED <<running, opened, accepted, session, nodeVars, connVars>>

(* DirectOutputConnection starts to connect to the destination.            *)
handleSocketMultiplexerOnConnect ==
  /\ Receives("out", "CONNECT")
  /\ LET m == Head(Incoming("out")) IN
     /\ conn' = [conn EXCEPT !["out"][m.conn] =
                   [@ EXCEPT !.sock = "connecting"]]
     /\ connections' = [connections EXCEPT !["out"][m.id] = m.conn]
  /\ UNCHANGED <<produced, delivered>>

(* Mutant: one CLOSE ends every connection.                                *)
handleSocketMultiplexerOnClose_All(s) ==
  /\ Receives(s, "CLOSE")
  /\ destroyAllConnections(s)
  /\ UNCHANGED <<produced, delivered>>

(* An unknown id is ignored: both ends may have closed.                    *)
handleSocketMultiplexerOnClose(s) ==
  /\ Receives(s, "CLOSE")
  /\ LET id == Head(Incoming(s)).id
         c  == connections[s][id]
     IN  \/ c = None /\ UNCHANGED <<conn, connections>>
         \/ /\ c # None
            /\ conn' = [conn EXCEPT ![s][c] =
                          [destroy(@) EXCEPT !.wasClosed = TRUE]]
            /\ connections' = [connections EXCEPT ![s][id] = None]
  /\ UNCHANGED <<produced, delivered>>

(* Data for a connected socket is written to it, and lost if the socket    *)
(* has ended already; data for a connecting socket waits.                  *)
handleSocketMultiplexerOnData(s) ==
  /\ Receives(s, "DATA")
  /\ LET m == Head(Incoming(s))
         c == connections[s][m.id]
     IN  \/ /\ c = None
            /\ UNCHANGED <<conn, delivered>>
         \/ /\ c # None /\ conn[s][c].connected
            /\ delivered' = IF conn[s][c].sock = "open"
                            THEN [delivered EXCEPT ![s][c] = Append(@, m.data)]
                            ELSE delivered
            /\ UNCHANGED conn
         \/ /\ c # None /\ ~conn[s][c].connected
            /\ conn' = [conn EXCEPT ![s][c].messages = Append(@, m.data)]
            /\ UNCHANGED delivered
  /\ UNCHANGED <<connections, produced>>

-----------------------------------------------------------------------------
Next ==
  \/ handleOnSocksServerListening
  \/ handleOnSocksServerClose
  \/ ClientTransportConnected
  \/ ServerTransportConnected
  \/ ServerTransportDrops
  \/ handleSocketMultiplexerOnConnect
  \/ \E s \in Side :
       \/ Start(s)
       \/ Stop(s)
       \/ TransportStart(s)
       \/ TransportStop(s)
       \/ TransportDisconnected(s)
       \/ BufferIgnored(s)
       \/ handleSocketMultiplexerOnClose(s)
       \/ handleSocketMultiplexerOnData(s)
       \/ \E c \in Conns :
            \/ handleConnectionSocketOnData(s, c)
            \/ SocketEnds(s, c)
            \/ handleConnectionSocketOnClose(s, c)
  \/ \E c \in Conns :
       \/ handleOnSocksServerConnection(c)
       \/ handleConnectionSocketOnReady(c)

Spec == Init /\ [][Next]_vars

(* What must happen in the end.  A message that has arrived is read; a     *)
(* socket that is dead emits 'close'; a socket that connects succeeds or   *)
(* fails; a connection in the backlog is taken or dropped; and TCP tells   *)
(* an end that the other end of the session has closed.  Nothing makes a   *)
(* client come, a socket produce, or the network fail.                     *)
Fairness ==
  /\ WF_vars(handleOnSocksServerListening)
  /\ WF_vars(ServerTransportConnected)
  /\ WF_vars(ServerTransportDrops)
  /\ WF_vars(handleSocketMultiplexerOnConnect)
  /\ \A s \in Side :
       /\ WF_vars(BufferIgnored(s))
       /\ WF_vars(handleSocketMultiplexerOnClose(s))
       /\ WF_vars(handleSocketMultiplexerOnData(s))
       /\ WF_vars(IsEnding(s) /\ TransportDisconnected(s))
       /\ \A c \in Conns : WF_vars(handleConnectionSocketOnClose(s, c))
  /\ \A c \in Conns :
       WF_vars(\/ handleConnectionSocketOnReady(c)
               \/ conn["out"][c].sock = "connecting" /\ SocketEnds("out", c))

FairSpec == Spec /\ Fairness

-----------------------------------------------------------------------------
(* Properties.  They assume that the ids of the connections differ; the    *)
(* code takes them from a 31 bit hash of the socket's four-tuple.          *)
DistinctIds == \A c, d \in Conns : IdOf[c] = IdOf[d] => c = d

(* What is written to a socket is what the socket at the other end read,   *)
(* in order, with nothing missing or twice, whatever was buffered while    *)
(* the destination was connecting and however often the transport broke.   *)
InOrder ==
  \A s \in Side, c \in Conns :
    /\ Len(delivered[s][c]) <= produced[Peer(s)][c]
    /\ \A n \in 1..Len(delivered[s][c]) : delivered[s][c][n] = <<c, n>>

(* A node destroys a socket on the other's word only if the socket there   *)
(* is dead, and only after all that socket had read was handed over: a     *)
(* CLOSE neither overtakes data nor reaches a connection it does not mean. *)
CloseComesLast ==
  \A s \in Side, c \in Conns :
    conn[s][c].wasClosed /\ conn[s][c].sock = "destroyed" =>
      /\ Dead(Peer(s), c)
      /\ Len(delivered[s][c]) + Len(conn[s][c].messages)
           = produced[Peer(s)][c]

(* Every live socket can be reached through the table by messages for it,  *)
(* and hangs on the current session: none outlives the session it was      *)
(* opened in, or is forgotten.                                             *)
LiveIsTracked ==
  \A s \in Side, c \in Conns :
    ~crashed[s] /\ Live(s, c) =>
      /\ connections[s][IdOf[c]] = c
      /\ mux[s] = session[s] /\ session[s] # 0

(* Sockets joined by the tunnel are joined in one session: after a         *)
(* reconnection no socket of the old session is paired with the new one.   *)
SameSession ==
  \A c \in Conns :
    ~crashed["in"] /\ ~crashed["out"] /\ Live("in", c) /\ Live("out", c) =>
      session["in"] = session["out"]

(* No handler writes to a multiplexer without a socket, if nodes are       *)
(* stopped only when their transport is.                                   *)
NoCrash == \A s \in Side : ~crashed[s]

(* Without that order, only the late events of a node that was stopped can *)
(* bring its process down; a running node never does.                      *)
CrashOnlyWhenStopped ==
  \A s \in Side : crashed[s] => working[s] \in {"stopping", "idle"}

(* With every message read and every 'close' event seen, the two ends of a *)
(* session agree on which connections are alive.                           *)
Quiescent ==
  /\ session["in"] = session["out"] /\ session["in"] # 0
  /\ \A s \in Side :
       /\ Incoming(s) = << >>
       /\ \A c \in Conns : Dead(s, c) => conn[s][c].closed

QuiescentAgreement ==
  Quiescent => \A c \in Conns : Live("in", c) <=> Live("out", c)

(* The two nodes implement the abstract relay: the phase of a connection   *)
(* is that of its socket, and a node is online while its multiplexer has a *)
(* transport socket.                                                       *)
Joined == INSTANCE Relay WITH
            online <- [s \in Side |-> mux[s] # 0],
            phase  <- [s \in Side |-> [c \in Conns |-> conn[s][c].sock]]

IsRelay == Joined!RelaySpec

(* A connection that died at one end is in the end dead at the other, for  *)
(* good, and never hangs there; an end that had not yet opened it closes   *)
(* it again, or never opens it.                                            *)
DeathSpreads ==
  \A s \in Side, c \in Conns : Dead(s, c) ~> [](~Live(Peer(s), c))

(* An accepted client gets its destination or is closed: it never hangs in *)
(* between.                                                                *)
ClientIsServed ==
  \A c \in Conns :
    Live("in", c) ~> (conn["out"][c].sock = "open" \/ Dead("in", c))

(* What a socket read is written to the socket at the other end, unless    *)
(* one of the two dies.                                                    *)
DataArrives ==
  \A s \in Side, c \in Conns : \A n \in 1..MaxData :
    produced[s][c] >= n ~>
      (Len(delivered[Peer(s)][c]) >= n \/ Dead(s, c) \/ Dead(Peer(s), c))

=============================================================================
