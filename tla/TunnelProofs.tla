---------------------------- MODULE TunnelProofs ----------------------------
(***************************************************************************)
(* Theorems about module Tunnel, for any number of connections, sessions,  *)
(* chunks and stops: its types, and the safety properties that follow from *)
(* the inductive invariant of module TunnelInvariant; then how connections *)
(* end: a CLOSE comes last, nobody crashes while the order of stopping is  *)
(* kept, the two nodes agree when all is quiet, and the whole is the relay *)
(* of module Relay.                                                        *)
(***************************************************************************)
EXTENDS TunnelInvariant, SequenceTheorems, TLAPS

-----------------------------------------------------------------------------
(* Types.                                                                  *)

(* The types of the objects the actions build, in the form the step proofs *)
(* use them.                                                               *)
LEMMA MessageTypes ==
  ASSUME NEW c \in Conns
  PROVE  /\ [type |-> "CONNECT", id |-> IdOf[c], conn |-> c] \in Message
         /\ [type |-> "CLOSE", id |-> IdOf[c]] \in Message
         /\ \A n \in 1..MaxData :
              [type |-> "DATA", id |-> IdOf[c], data |-> <<c, n>>] \in Message
BY TunnelAssumption DEF Message, Chunk

LEMMA PeerType == \A s \in Side : Peer(s) \in Side /\ Peer(Peer(s)) = s /\ Peer(s) # s
BY DEF Side, Peer

LEMMA PostedType ==
  ASSUME chan \in [Side -> [Session -> Seq(Message)]],
         NEW s \in Side, NEW k \in Session, NEW m \in Message
  PROVE  Posted(s, k, m) \in [Side -> [Session -> Seq(Message)]]
BY DEF Posted

LEMMA ConsumedType ==
  ASSUME chan \in [Side -> [Session -> Seq(Message)]],
         NEW s \in Side, session[s] \in Session, Incoming(s) # << >>
  PROVE  /\ Consumed(s) \in [Side -> [Session -> Seq(Message)]]
         /\ Head(Incoming(s)) \in Message
BY HeadTailProperties DEF Consumed, Incoming

LEMMA DestroyType ==
  ASSUME NEW o \in ConnectionObject
  PROVE  destroy(o) \in ConnectionObject
BY DEF destroy, ConnectionObject, LiveSocket, DeadSocket

LEMMA SendType ==
  ASSUME TypeOK, NEW s \in Side, NEW m \in Message, sendMessage(s, m)
  PROVE  chan' \in [Side -> [Session -> Seq(Message)]] /\ crashed' \in [Side -> BOOLEAN]
<1>1. CASE mux[s] # 0
  <2>1. mux[s] \in Session /\ Peer(s) \in Side
    BY <1>1, PeerType DEF TypeOK, Session
  <2> QED
    BY <1>1, <2>1, PostedType DEF sendMessage, TypeOK
<1>2. CASE mux[s] = 0
  BY <1>2 DEF sendMessage, TypeOK
<1> QED
  BY <1>1, <1>2

(* The changes the handlers make to a connection object keep its type.     *)
LEMMA ObjectTypes ==
  ASSUME NEW o \in ConnectionObject
  PROVE  /\ [o EXCEPT !.sock = "connecting"] \in ConnectionObject
         /\ [o EXCEPT !.sock = "ended"] \in ConnectionObject
         /\ [o EXCEPT !.wasClosed = TRUE] \in ConnectionObject
         /\ [o EXCEPT !.sock = "open", !.connected = TRUE] \in ConnectionObject
         /\ [o EXCEPT !.closed = TRUE, !.connected = FALSE] \in ConnectionObject
         /\ [o EXCEPT !.sock = "open", !.connected = TRUE, !.messages = << >>]
              \in ConnectionObject
         /\ \A d \in Chunk :
              [o EXCEPT !.messages = Append(@, d)] \in ConnectionObject
<1>1. /\ [o EXCEPT !.sock = "connecting"] \in ConnectionObject
      /\ [o EXCEPT !.sock = "ended"] \in ConnectionObject
      /\ [o EXCEPT !.wasClosed = TRUE] \in ConnectionObject
  BY DEF ConnectionObject, LiveSocket, DeadSocket
<1>2. /\ [o EXCEPT !.sock = "open", !.connected = TRUE] \in ConnectionObject
      /\ [o EXCEPT !.closed = TRUE, !.connected = FALSE] \in ConnectionObject
  BY DEF ConnectionObject, LiveSocket
<1>3. [o EXCEPT !.sock = "open", !.connected = TRUE, !.messages = << >>]
        \in ConnectionObject
  <2>1. << >> \in Seq(Chunk)
    OBVIOUS
  <2>2. [o EXCEPT !.sock = "open", !.connected = TRUE] \in ConnectionObject
    BY <1>2
  <2> QED
    BY <2>1, <2>2 DEF ConnectionObject
<1>4. ASSUME NEW d \in Chunk
      PROVE  [o EXCEPT !.messages = Append(@, d)] \in ConnectionObject
  <2>1. o.messages \in Seq(Chunk)
    BY DEF ConnectionObject
  <2>2. Append(o.messages, d) \in Seq(Chunk)
    BY <2>1
  <2> QED
    BY <2>2 DEF ConnectionObject
<1> QED
  BY <1>1, <1>2, <1>3, <1>4

LEMMA ConnType ==
  ASSUME conn \in [Side -> [Conns -> ConnectionObject]],
         NEW s \in Side, NEW c \in Conns, NEW o \in ConnectionObject
  PROVE  [conn EXCEPT ![s][c] = o] \in [Side -> [Conns -> ConnectionObject]]
OBVIOUS

LEMMA DestroyAllType ==
  ASSUME TypeOK, NEW s \in Side, destroyAllConnections(s)
  PROVE  /\ conn' \in [Side -> [Conns -> ConnectionObject]]
         /\ connections' \in [Side -> [Ids -> Conns \cup {None}]]
<1> DEFINE f == [c \in Conns |-> IF c \in {connections[s][id] : id \in Ids}
                                 THEN destroy(conn[s][c]) ELSE conn[s][c]]
<1>1. \A c \in Conns : conn[s][c] \in ConnectionObject /\ destroy(conn[s][c]) \in ConnectionObject
  BY DestroyType DEF TypeOK
<1>2. f \in [Conns -> ConnectionObject]
  BY <1>1
<1>3. conn' = [conn EXCEPT ![s] = f]
  BY DEF destroyAllConnections
<1>4. conn' \in [Side -> [Conns -> ConnectionObject]]
  BY <1>2, <1>3 DEF TypeOK
<1> QED
  BY <1>4 DEF destroyAllConnections, TypeOK

LEMMA InitTypeOK == Init => TypeOK
BY MaxSessionsAssumption, TunnelAssumption
DEF Init, LinkInit, TypeOK, WorkingState, ConnectionObject, NoConnection, Session

LEMMA TypeOKNext == TypeOK /\ [Next]_vars => TypeOK'
<1> SUFFICES ASSUME TypeOK, [Next]_vars PROVE TypeOK'
  OBVIOUS
<1> USE MaxSessionsAssumption, TunnelAssumption
<1>1. CASE handleOnSocksServerListening
  BY <1>1 DEF handleOnSocksServerListening, TypeOK, linkVars, connVars, WorkingState, Side
<1>2. CASE handleOnSocksServerClose
  BY <1>2 DEF handleOnSocksServerClose, TypeOK, linkVars, connVars, WorkingState, Side
<1>3. CASE ClientTransportConnected
  BY <1>3 DEF ClientTransportConnected, ClientConnects, handleOnTransportConnected,
     TypeOK, connVars, Side
<1>4. CASE ServerTransportConnected
  BY <1>4 DEF ServerTransportConnected, ServerAccepts, handleOnTransportConnected,
     TypeOK, connVars, Side
<1>5. CASE ServerTransportDrops
  BY <1>5 DEF ServerTransportDrops, ServerDrops, TypeOK, nodeVars, connVars, Side
<1>6. CASE handleSocketMultiplexerOnConnect
  <2> DEFINE m == Head(Incoming("out"))
  <2>1. /\ mux["out"] = session["out"] /\ session["out"] \in Session
        /\ Incoming("out") # << >> /\ m.type = "CONNECT"
    BY <1>6 DEF handleSocketMultiplexerOnConnect, Receives, TypeOK, Session, Side
  <2>2. Consumed("out") \in [Side -> [Session -> Seq(Message)]] /\ m \in Message
    BY <2>1, ConsumedType DEF TypeOK, Side
  <2>3. m.conn \in Conns /\ m.id \in Ids
    BY <2>1, <2>2 DEF Message
  <2>4. conn' \in [Side -> [Conns -> ConnectionObject]]
    <3>1. "out" \in Side /\ conn["out"][m.conn] \in ConnectionObject
      BY <2>3 DEF TypeOK, Side
    <3> QED
      BY <1>6, <2>3, <3>1, ObjectTypes, ConnType
      DEF handleSocketMultiplexerOnConnect, TypeOK
  <2>5. connections' \in [Side -> [Ids -> Conns \cup {None}]]
    BY <1>6, <2>3 DEF handleSocketMultiplexerOnConnect, TypeOK, Side
  <2> QED
    BY <1>6, <2>2, <2>4, <2>5 DEF handleSocketMultiplexerOnConnect, Receives, TypeOK, nodeVars
<1>7. ASSUME NEW s \in Side, Start(s) PROVE TypeOK'
  BY <1>7 DEF Start, TypeOK, linkVars, connVars, WorkingState, Side
<1>8. ASSUME NEW s \in Side, Stop(s) PROVE TypeOK'
  <2>1. /\ conn' \in [Side -> [Conns -> ConnectionObject]]
        /\ connections' \in [Side -> [Ids -> Conns \cup {None}]]
    BY <1>8, DestroyAllType DEF Stop
  <2>2. /\ working' \in [Side -> WorkingState]
        /\ mux' \in [Side -> 0..MaxSessions]
        /\ stops' \in 0..MaxStops
    BY <1>8 DEF Stop, TypeOK, WorkingState
  <2> QED
    BY <1>8, <2>1, <2>2 DEF Stop, TypeOK, linkVars
<1>9. ASSUME NEW s \in Side, TransportStart(s) PROVE TypeOK'
  BY <1>9 DEF TransportStart, LinkStart, TypeOK, nodeVars, connVars
<1>10. ASSUME NEW s \in Side, TransportStop(s) PROVE TypeOK'
  BY <1>10 DEF TransportStop, LinkStop, TypeOK, nodeVars, connVars
<1>11. ASSUME NEW s \in Side, TransportDisconnected(s) PROVE TypeOK'
  <2>1. /\ conn' \in [Side -> [Conns -> ConnectionObject]]
        /\ connections' \in [Side -> [Ids -> Conns \cup {None}]]
        /\ mux' \in [Side -> 0..MaxSessions]
    <3>1. CASE Listens(s)
      <4>1. destroyAllConnections(s) /\ mux' = [mux EXCEPT ![s] = 0]
        BY <1>11, <3>1 DEF TransportDisconnected, handleOnTransportDisconnected
      <4>2. mux' \in [Side -> 0..MaxSessions]
        BY <4>1 DEF TypeOK
      <4> QED
        BY <4>1, <4>2, DestroyAllType
    <3>2. CASE ~Listens(s)
      BY <1>11, <3>2 DEF TransportDisconnected, handleOnTransportDisconnected, TypeOK
    <3> QED
      BY <3>1, <3>2
  <2>2. chan' \in [Side -> [Session -> Seq(Message)]]
    BY <1>11 DEF TransportDisconnected, LinkLost, TypeOK, Session
  <2> QED
    BY <1>11, <2>1, <2>2 DEF TransportDisconnected, LinkLost, TypeOK
<1>12. ASSUME NEW s \in Side, BufferIgnored(s) PROVE TypeOK'
  <2>1. session[s] \in Session /\ Incoming(s) # << >>
    BY <1>12 DEF BufferIgnored, TypeOK, Session
  <2> QED
    BY <1>12, <2>1, ConsumedType DEF BufferIgnored, TypeOK, nodeVars, connVars
<1>13. ASSUME NEW s \in Side, handleSocketMultiplexerOnClose(s) PROVE TypeOK'
  <2> DEFINE m == Head(Incoming(s))
             c == connections[s][m.id]
  <2>1. session[s] \in Session /\ Incoming(s) # << >> /\ m.type = "CLOSE"
    BY <1>13 DEF handleSocketMultiplexerOnClose, Receives, TypeOK, Session
  <2>2. Consumed(s) \in [Side -> [Session -> Seq(Message)]] /\ m \in Message
    BY <2>1, ConsumedType DEF TypeOK
  <2>3. m.id \in Ids /\ c \in Conns \cup {None}
    BY <2>1, <2>2 DEF Message, TypeOK
  <2>4. /\ conn' \in [Side -> [Conns -> ConnectionObject]]
        /\ connections' \in [Side -> [Ids -> Conns \cup {None}]]
    <3>1. CASE c = None
      BY <1>13, <3>1 DEF handleSocketMultiplexerOnClose, TypeOK
    <3>2. CASE c # None
      <4>1. destroy(conn[s][c]) \in ConnectionObject
        BY <2>3, <3>2, DestroyType DEF TypeOK
      <4>2. [destroy(conn[s][c]) EXCEPT !.wasClosed = TRUE] \in ConnectionObject
        BY <4>1, ObjectTypes
      <4> QED
        <5>1. /\ conn' = [conn EXCEPT ![s][c] = [destroy(@) EXCEPT !.wasClosed = TRUE]]
              /\ connections' = [connections EXCEPT ![s][m.id] = None]
          BY <1>13, <3>2 DEF handleSocketMultiplexerOnClose
        <5>2. conn' = [conn EXCEPT ![s][c] =
                         [destroy(conn[s][c]) EXCEPT !.wasClosed = TRUE]]
          BY <5>1, <2>3, <3>2 DEF TypeOK
        <5>3. conn' \in [Side -> [Conns -> ConnectionObject]]
          BY <5>2, <2>3, <3>2, <4>2, ConnType DEF TypeOK
        <5> QED
          BY <5>1, <5>3, <2>3 DEF TypeOK
    <3> QED
      BY <3>1, <3>2
  <2> QED
    BY <1>13, <2>2, <2>4 DEF handleSocketMultiplexerOnClose, Receives, TypeOK, nodeVars
<1>14. ASSUME NEW s \in Side, handleSocketMultiplexerOnData(s) PROVE TypeOK'
  <2> DEFINE m == Head(Incoming(s))
             c == connections[s][m.id]
  <2>1. session[s] \in Session /\ Incoming(s) # << >> /\ m.type = "DATA"
    <3>1. Receives(s, "DATA")
      BY <1>14 DEF handleSocketMultiplexerOnData
    <3> QED
      BY <3>1 DEF Receives, TypeOK, Session
  <2>2. Consumed(s) \in [Side -> [Session -> Seq(Message)]] /\ m \in Message
    BY <2>1, ConsumedType DEF TypeOK
  <2>3. m.id \in Ids /\ m.data \in Chunk /\ c \in Conns \cup {None}
    BY <2>1, <2>2 DEF Message, TypeOK
  <2>4. /\ conn' \in [Side -> [Conns -> ConnectionObject]]
        /\ delivered' \in [Side -> [Conns -> Seq(Chunk)]]
    <3>1. CASE c = None
      BY <1>14, <3>1 DEF handleSocketMultiplexerOnData, TypeOK
    <3>2. CASE c # None /\ conn[s][c].connected
      <4>1. /\ UNCHANGED conn
            /\ delivered' = IF conn[s][c].sock = "open"
                            THEN [delivered EXCEPT ![s][c] = Append(@, m.data)]
                            ELSE delivered
        BY <1>14, <3>2 DEF handleSocketMultiplexerOnData
      <4>2. Append(delivered[s][c], m.data) \in Seq(Chunk)
        BY <2>3, <3>2 DEF TypeOK
      <4> QED
        BY <2>3, <3>2, <4>1, <4>2 DEF TypeOK
    <3>3. CASE c # None /\ ~conn[s][c].connected
      <4>1. [conn[s][c] EXCEPT !.messages = Append(@, m.data)] \in ConnectionObject
        <5>1. conn[s][c] \in ConnectionObject
          BY <2>3, <3>3 DEF TypeOK
        <5> QED
          BY <5>1, <2>3, ObjectTypes
      <4>2. /\ conn' = [conn EXCEPT ![s][c].messages = Append(@, m.data)]
            /\ UNCHANGED delivered
        BY <1>14, <3>3 DEF handleSocketMultiplexerOnData
      <4> QED
        BY <2>3, <3>3, <4>1, <4>2, ConnType DEF TypeOK
    <3> QED
      BY <3>1, <3>2, <3>3
  <2> QED
    BY <1>14, <2>2, <2>4 DEF handleSocketMultiplexerOnData, Receives, TypeOK, nodeVars
<1>15. ASSUME NEW s \in Side, NEW c \in Conns, handleConnectionSocketOnData(s, c)
       PROVE  TypeOK'
  <2> DEFINE m == [type |-> "DATA", id |-> IdOf[c], data |-> <<c, produced[s][c] + 1>>]
  <2>1. m \in Message /\ Peer(s) \in Side /\ produced' \in [Side -> [Conns -> 0..MaxData]]
    <3>1. produced[s][c] + 1 \in 1..MaxData
      BY <1>15 DEF handleConnectionSocketOnData, TypeOK
    <3>2. produced' = [produced EXCEPT ![s][c] = produced[s][c] + 1]
      BY <1>15 DEF handleConnectionSocketOnData
    <3>3. produced' \in [Side -> [Conns -> 0..MaxData]]
      BY <3>1, <3>2 DEF TypeOK
    <3> QED
      BY <3>1, <3>3, MessageTypes, PeerType
  <2>2. sendMessage(s, m)
    BY <1>15 DEF handleConnectionSocketOnData
  <2>3. chan' \in [Side -> [Session -> Seq(Message)]] /\ crashed' \in [Side -> BOOLEAN]
    BY <2>1, <2>2, SendType
  <2> QED
    BY <1>15, <2>1, <2>3 DEF handleConnectionSocketOnData, TypeOK
<1>16. ASSUME NEW s \in Side, NEW c \in Conns, SocketEnds(s, c) PROVE TypeOK'
  <2>1. conn' \in [Side -> [Conns -> ConnectionObject]]
    <3>1. conn' = [conn EXCEPT ![s][c] = [conn[s][c] EXCEPT !.sock = "ended"]]
      BY <1>16 DEF SocketEnds
    <3>2. conn[s][c] \in ConnectionObject
      BY DEF TypeOK
    <3>3. [conn[s][c] EXCEPT !.sock = "ended"] \in ConnectionObject
      BY <3>2, ObjectTypes
    <3> QED
      BY <3>1, <3>3, ConnType DEF TypeOK
  <2> QED
    BY <1>16, <2>1 DEF SocketEnds, TypeOK, linkVars, nodeVars
<1>17. ASSUME NEW s \in Side, NEW c \in Conns, handleConnectionSocketOnClose(s, c)
       PROVE  TypeOK'
  <2> DEFINE m == [type |-> "CLOSE", id |-> IdOf[c]]
  <2>1. m \in Message /\ IdOf[c] \in Ids
    BY MessageTypes
  <2>2. conn' \in [Side -> [Conns -> ConnectionObject]]
    <3>1. conn' = [conn EXCEPT ![s][c] = [conn[s][c] EXCEPT !.closed = TRUE, !.connected = FALSE]]
      BY <1>17 DEF handleConnectionSocketOnClose
    <3>2. conn[s][c] \in ConnectionObject
      BY DEF TypeOK
    <3>3. [conn[s][c] EXCEPT !.closed = TRUE, !.connected = FALSE] \in ConnectionObject
      BY <3>2, ObjectTypes
    <3> QED
      BY <3>1, <3>3, ConnType DEF TypeOK
  <2>3. /\ chan' \in [Side -> [Session -> Seq(Message)]] /\ crashed' \in [Side -> BOOLEAN]
        /\ connections' \in [Side -> [Ids -> Conns \cup {None}]]
    <3>1. CASE UNCHANGED <<chan, connections, crashed>>
      BY <3>1 DEF TypeOK
    <3>2. CASE /\ connections' = [connections EXCEPT ![s][IdOf[c]] = None]
               /\ sendMessage(s, m)
      BY <2>1, <3>2, SendType DEF TypeOK
    <3> QED
      BY <1>17, <3>1, <3>2 DEF handleConnectionSocketOnClose
  <2> QED
    BY <1>17, <2>2, <2>3 DEF handleConnectionSocketOnClose, TypeOK
<1>18. ASSUME NEW c \in Conns, handleOnSocksServerConnection(c) PROVE TypeOK'
  <2> DEFINE m == [type |-> "CONNECT", id |-> IdOf[c], conn |-> c]
  <2>1. m \in Message /\ IdOf[c] \in Ids /\ "in" \in Side
    BY MessageTypes DEF Side
  <2>2. sendMessage("in", m)
    BY <1>18 DEF handleOnSocksServerConnection
  <2>3. chan' \in [Side -> [Session -> Seq(Message)]] /\ crashed' \in [Side -> BOOLEAN]
    BY <2>1, <2>2, SendType
  <2>4. conn' \in [Side -> [Conns -> ConnectionObject]]
    <3>1. conn' = [conn EXCEPT !["in"][c] = [conn["in"][c] EXCEPT !.sock = "open", !.connected = TRUE]]
      BY <1>18 DEF handleOnSocksServerConnection
    <3>2. conn["in"][c] \in ConnectionObject
      BY <2>1 DEF TypeOK
    <3>3. [conn["in"][c] EXCEPT !.sock = "open", !.connected = TRUE] \in ConnectionObject
      BY <3>2, ObjectTypes
    <3> QED
      BY <3>1, <3>3, <2>1, ConnType DEF TypeOK
  <2>5. connections' \in [Side -> [Ids -> Conns \cup {None}]]
    BY <1>18, <2>1 DEF handleOnSocksServerConnection, TypeOK
  <2> QED
    BY <1>18, <2>3, <2>4, <2>5 DEF handleOnSocksServerConnection, TypeOK
<1>19. ASSUME NEW c \in Conns, handleConnectionSocketOnReady(c) PROVE TypeOK'
  <2>1. "out" \in Side /\ conn["out"][c].messages \in Seq(Chunk)
    BY DEF TypeOK, ConnectionObject, Side
  <2>2. conn' \in [Side -> [Conns -> ConnectionObject]]
    <3>1. conn' = [conn EXCEPT !["out"][c] = [conn["out"][c] EXCEPT !.sock = "open", !.connected = TRUE, !.messages = << >>]]
      BY <1>19 DEF handleConnectionSocketOnReady
    <3>2. conn["out"][c] \in ConnectionObject
      BY <2>1 DEF TypeOK
    <3>3. [conn["out"][c] EXCEPT !.sock = "open", !.connected = TRUE, !.messages = << >>] \in ConnectionObject
      BY <3>2, ObjectTypes
    <3> QED
      BY <3>1, <3>3, <2>1, ConnType DEF TypeOK
  <2>3. delivered' \in [Side -> [Conns -> Seq(Chunk)]]
    BY <1>19, <2>1 DEF handleConnectionSocketOnReady, TypeOK
  <2> QED
    BY <1>19, <2>2, <2>3 DEF handleConnectionSocketOnReady, TypeOK, linkVars, nodeVars
<1>20. CASE UNCHANGED vars
  BY <1>20 DEF TypeOK, vars, linkVars, nodeVars, connVars
<1> QED
  BY <1>1, <1>2, <1>3, <1>4, <1>5, <1>6, <1>7, <1>8, <1>9, <1>10, <1>11, <1>12, <1>13,
     <1>14, <1>15, <1>16, <1>17, <1>18, <1>19, <1>20 DEF Next

(* Types: every variable of the two nodes stays in its domain, whatever    *)
(* the order of events, crashes and reconnections.                         *)
THEOREM TypeCorrect == Spec => []TypeOK
BY InitTypeOK, TypeOKNext, PTL DEF Spec

-----------------------------------------------------------------------------
(* Queues: what reading and writing one message does to Exact.             *)

LEMMA ChunkParts ==
  ASSUME NEW m \in Message, m.type = "DATA"
  PROVE  m.data[1] \in Conns /\ m.data[2] \in 1..MaxData /\ m.id \in Ids
BY DEF Message, Chunk

LEMMA ExactEmpty ==
  ASSUME NEW q \in Seq(Message), NEW c, NEW n \in Nat,
         \A i \in DOMAIN q : ~IsData(q[i], c)
  PROVE  Exact(q, c, n, n)
BY DEF Exact

LEMMA ExactOther ==
  ASSUME NEW q \in Seq(Message), NEW m \in Message, NEW c,
         NEW lo \in Nat, NEW hi \in Nat,
         Exact(q, c, lo, hi), ~IsData(m, c)
  PROVE  Exact(Append(q, m), c, lo, hi)
<1> DEFINE r == Append(q, m)
<1>1. /\ DOMAIN q = 1..Len(q) /\ DOMAIN r = 1..(Len(q) + 1) /\ Len(q) \in Nat
      /\ \A i \in 1..Len(q) : r[i] = q[i]
      /\ r[Len(q) + 1] = m
  BY AppendProperties
<1>2. \A i \in DOMAIN r : IsData(r[i], c) => i \in DOMAIN q /\ r[i] = q[i]
  BY <1>1
<1> QED
  BY <1>1, <1>2, SMTT(30) DEF Exact

LEMMA ExactNext ==
  ASSUME NEW q \in Seq(Message), NEW m \in Message, NEW c,
         NEW lo \in Nat, NEW hi \in Nat, lo <= hi,
         Exact(q, c, lo, hi), IsData(m, c), m.data[2] = hi + 1
  PROVE  Exact(Append(q, m), c, lo, hi + 1)
<1> DEFINE r == Append(q, m)
<1>1. /\ DOMAIN q = 1..Len(q) /\ DOMAIN r = 1..(Len(q) + 1) /\ Len(q) \in Nat
      /\ \A i \in 1..Len(q) : r[i] = q[i]
      /\ r[Len(q) + 1] = m
  BY AppendProperties
<1>2. \A i \in DOMAIN r : IsData(r[i], c) => r[i].data[2] \in (lo + 1)..(hi + 1)
  BY <1>1 DEF Exact
<1>3. \A i, j \in DOMAIN r :
        IsData(r[i], c) /\ IsData(r[j], c) /\ i < j => r[i].data[2] < r[j].data[2]
  BY <1>1 DEF Exact
<1>4. ASSUME NEW n \in (lo + 1)..(hi + 1)
      PROVE  \E i \in DOMAIN r : IsData(r[i], c) /\ r[i].data[2] = n
  <2>1. CASE n = hi + 1
    BY <1>1, <2>1
  <2>2. CASE n # hi + 1
    <3>1. n \in (lo + 1)..hi
      BY <2>2
    <3>2. PICK i \in DOMAIN q : IsData(q[i], c) /\ q[i].data[2] = n
      BY <3>1 DEF Exact
    <3> QED
      BY <1>1, <3>2
  <2> QED
    BY <2>1, <2>2
<1> QED
  BY <1>2, <1>3, <1>4 DEF Exact

LEMMA TailIndices ==
  ASSUME NEW q \in Seq(Message), q # << >>
  PROVE  /\ Len(q) \in Nat \ {0} /\ DOMAIN q = 1..Len(q)
         /\ Tail(q) \in Seq(Message) /\ DOMAIN Tail(q) = 1..(Len(q) - 1)
         /\ \A i \in DOMAIN Tail(q) : i + 1 \in DOMAIN q /\ Tail(q)[i] = q[i + 1]
         /\ 1 \in DOMAIN q /\ Head(q) = q[1] /\ Head(q) \in Message
BY HeadTailProperties

LEMMA ExactSkip ==
  ASSUME NEW q \in Seq(Message), q # << >>, NEW c,
         NEW lo \in Nat, NEW hi \in Nat,
         Exact(q, c, lo, hi), ~IsData(Head(q), c)
  PROVE  Exact(Tail(q), c, lo, hi)
<1> DEFINE r == Tail(q)
<1>1. \A i \in DOMAIN r : IsData(r[i], c) => r[i].data[2] \in (lo + 1)..hi
  BY TailIndices DEF Exact
<1>2. \A i, j \in DOMAIN r :
        IsData(r[i], c) /\ IsData(r[j], c) /\ i < j => r[i].data[2] < r[j].data[2]
  BY TailIndices DEF Exact
<1>3. ASSUME NEW n \in (lo + 1)..hi
      PROVE  \E i \in DOMAIN r : IsData(r[i], c) /\ r[i].data[2] = n
  <2>1. PICK i \in DOMAIN q : IsData(q[i], c) /\ q[i].data[2] = n
    BY DEF Exact
  <2>2. i # 1 /\ i - 1 \in DOMAIN r /\ r[i - 1] = q[i]
    BY <2>1, TailIndices
  <2> QED
    BY <2>1, <2>2
<1> QED
  BY <1>1, <1>2, <1>3 DEF Exact

LEMMA ExactTake ==
  ASSUME NEW q \in Seq(Message), q # << >>, NEW c,
         NEW lo \in Nat, NEW hi \in Nat,
         Exact(q, c, lo, hi), IsData(Head(q), c)
  PROVE  /\ Head(q).data[2] = lo + 1 /\ lo < hi
         /\ Exact(Tail(q), c, lo + 1, hi)
<1> DEFINE r == Tail(q)
<1>1. q[1].data[2] \in (lo + 1)..hi
  BY TailIndices DEF Exact
<1>2. q[1].data[2] = lo + 1
  <2>1. lo + 1 \in (lo + 1)..hi
    BY <1>1
  <2>2. PICK i \in DOMAIN q : IsData(q[i], c) /\ q[i].data[2] = lo + 1
    BY <2>1 DEF Exact
  <2>3. i = 1 \/ 1 < i
    BY TailIndices
  <2>4. 1 < i => q[1].data[2] < lo + 1
    BY <2>2, TailIndices DEF Exact
  <2> QED
    BY <1>1, <2>2, <2>3, <2>4
<1>3. \A i \in DOMAIN r : IsData(r[i], c) => r[i].data[2] \in (lo + 1 + 1)..hi
  <2> SUFFICES ASSUME NEW i \in DOMAIN r, IsData(r[i], c)
               PROVE  r[i].data[2] \in (lo + 1 + 1)..hi
    OBVIOUS
  <2>1. i + 1 \in DOMAIN q /\ 1 < i + 1 /\ r[i] = q[i + 1] /\ 1 \in DOMAIN q
    BY TailIndices
  <2>2. q[1].data[2] < q[i + 1].data[2] /\ q[i + 1].data[2] \in (lo + 1)..hi
    BY <2>1, TailIndices DEF Exact
  <2> QED
    BY <1>2, <2>1, <2>2
<1>4. \A i, j \in DOMAIN r :
        IsData(r[i], c) /\ IsData(r[j], c) /\ i < j => r[i].data[2] < r[j].data[2]
  BY TailIndices DEF Exact
<1>5. ASSUME NEW n \in (lo + 1 + 1)..hi
      PROVE  \E i \in DOMAIN r : IsData(r[i], c) /\ r[i].data[2] = n
  <2>0. n \in (lo + 1)..hi
    OBVIOUS
  <2>1. PICK i \in DOMAIN q : IsData(q[i], c) /\ q[i].data[2] = n
    BY <2>0 DEF Exact
  <2>2. i # 1 /\ i - 1 \in DOMAIN r /\ r[i - 1] = q[i]
    BY <1>2, <2>1, TailIndices
  <2> QED
    BY <2>1, <2>2
<1> QED
  BY <1>1, <1>2, <1>3, <1>4, <1>5, TailIndices DEF Exact

LEMMA UpdateFacts ==
  ASSUME NEW S, NEW T, NEW V, NEW f \in [S -> [T -> V]], NEW s \in S, NEW t \in T, NEW v
  PROVE  LET g == [f EXCEPT ![s][t] = v] IN
         /\ g[s][t] = v
         /\ \A x \in S : x # s => g[x] = f[x]
         /\ \A y \in T : y # t => g[s][y] = f[s][y]
OBVIOUS

LEMMA ConnUpdate ==
  ASSUME TypeOK, NEW s \in Side, NEW d \in Conns, NEW o, conn' = [conn EXCEPT ![s][d] = o]
  PROVE  /\ conn'[s][d] = o
         /\ \A t \in Side : t # s => conn'[t] = conn[t]
         /\ \A c \in Conns : c # d => conn'[s][c] = conn[s][c]
BY UpdateFacts DEF TypeOK

LEMMA TableUpdate ==
  ASSUME TypeOK, NEW s \in Side, NEW id \in Ids, NEW v,
         connections' = [connections EXCEPT ![s][id] = v]
  PROVE  /\ connections'[s][id] = v
         /\ \A t \in Side : t # s => connections'[t] = connections[t]
         /\ \A i \in Ids : i # id => connections'[s][i] = connections[s][i]
BY UpdateFacts DEF TypeOK

LEMMA DeliveredUpdate ==
  ASSUME TypeOK, NEW s \in Side, NEW d \in Conns, NEW q,
         delivered' = [delivered EXCEPT ![s][d] = q]
  PROVE  /\ delivered'[s][d] = q
         /\ \A t \in Side : t # s => delivered'[t] = delivered[t]
         /\ \A c \in Conns : c # d => delivered'[s][c] = delivered[s][c]
BY UpdateFacts DEF TypeOK

LEMMA ProducedUpdate ==
  ASSUME TypeOK, NEW s \in Side, NEW d \in Conns, NEW n,
         produced' = [produced EXCEPT ![s][d] = n]
  PROVE  /\ produced'[s][d] = n
         /\ \A t \in Side : t # s => produced'[t] = produced[t]
         /\ \A c \in Conns : c # d => produced'[s][c] = produced[s][c]
BY UpdateFacts DEF TypeOK

-----------------------------------------------------------------------------
(* The initial states.                                                     *)

LEMMA InitIInv == Init => IInv
<1> SUFFICES ASSUME Init PROVE IInv
  OBVIOUS
<1>1. TypeOK
  BY InitTypeOK
<1>2. \A s \in Side, c \in Conns :
        /\ conn[s][c] = NoConnection /\ ~Live(s, c) /\ connections[s][IdOf[c]] = None
        /\ produced[s][c] = 0 /\ delivered[s][c] = << >>
  BY TunnelAssumption DEF Init, Live, LiveSocket, NoConnection
<1>3. \A s \in Side, k \in Session : chan[s][k] = << >> /\ DOMAIN chan[s][k] = {}
  BY DEF Init, LinkInit
<1>4. "in" \in Side /\ "out" \in Side
  BY DEF Side
<1>5. MuxInv /\ TableInv /\ CrashOnlyWhenStopped
  BY DEF MuxInv, TableInv, CrashOnlyWhenStopped, Init, LinkInit, Listens
<1>6. LiveIsTracked /\ SameSession /\ FlowInv
  BY <1>2, <1>4 DEF LiveIsTracked, SameSession, FlowInv
<1>7. ObjectInv
  BY <1>2, <1>4 DEF ObjectInv, NoConnection
<1>8. MessageInv /\ OneConnect /\ PendingInv
  BY <1>3, <1>4 DEF MessageInv, OneConnect, PendingInv
<1>9. InOrder
  BY <1>2, PeerType DEF InOrder
<1> QED
  BY <1>1, <1>5, <1>6, <1>7, <1>8, <1>9 DEF IInv

-----------------------------------------------------------------------------
(* Steps of the nodes and the transport that touch no connection: they     *)
(* move a session, or the multiplexer, of an end with no live socket.      *)

LEMMA FrameStep ==
  ASSUME IInv, TypeOK',
         UNCHANGED <<chan, connections, conn, produced, delivered, crashed>>,
         \A s \in Side, k \in Session : HasLeft(s, k) => HasLeft(s, k)',
         \A s \in Side, c \in Conns : ~crashed[s] /\ Live(s, c) =>
           session'[s] = session[s] /\ mux'[s] = mux[s]
  PROVE  /\ TableInv' /\ LiveIsTracked' /\ ObjectInv' /\ MessageInv' /\ OneConnect'
         /\ PendingInv' /\ FlowInv' /\ SameSession' /\ InOrder'
<1>1. "in" \in Side /\ "out" \in Side
  BY DEF Side
<1>2. \A s \in Side, c \in Conns : Live(s, c)' <=> Live(s, c)
  BY DEF Live
<1>3. /\ TableInv' /\ ObjectInv' /\ MessageInv' /\ OneConnect' /\ InOrder'
  <2>1. TableInv' /\ OneConnect' /\ InOrder'
    BY DEF IInv, TableInv, OneConnect, InOrder
  <2>2. ObjectInv'
    BY DEF IInv, ObjectInv
  <2>3. MessageInv'
    <3>1. ASSUME NEW s \in Side, NEW k \in Session, NEW i \in DOMAIN chan[s][k]
          PROVE  GoodMessage(s, chan[s][k][i])'
      <4>1. GoodMessage(s, chan[s][k][i])
        BY DEF IInv, MessageInv
      <4> QED
        BY <4>1 DEF GoodMessage
    <3> QED
      BY <3>1 DEF MessageInv
  <2> QED
    BY <2>1, <2>2, <2>3
<1>4. LiveIsTracked'
  BY <1>2 DEF IInv, LiveIsTracked
<1>5. PendingInv'
  BY <1>1, <1>2 DEF IInv, PendingInv
<1>6. FlowInv'
  BY <1>2 DEF IInv, FlowInv, Received
<1>7. SameSession'
  BY <1>1, <1>2 DEF IInv, SameSession
<1> QED
  BY <1>3, <1>4, <1>5, <1>6, <1>7

LEMMA LiveIsOnline ==
  ASSUME IInv, NEW s \in Side, NEW c \in Conns, ~crashed[s], Live(s, c)
  PROVE  /\ mux[s] = session[s] /\ session[s] \in Session /\ session[s] # 0
         /\ Listens(s) /\ ~HasLeft(s, session[s])
         /\ connections[s][IdOf[c]] = c
BY DEF IInv, LiveIsTracked, MuxInv, TypeOK, Session, HasLeft

LEMMA NodeSteps ==
  ASSUME IInv, TypeOK',
         \/ handleOnSocksServerListening
         \/ handleOnSocksServerClose
         \/ \E s \in Side : Start(s) \/ TransportStart(s) \/ TransportStop(s)
  PROVE  IInv'
<1>1. UNCHANGED <<chan, connections, conn, produced, delivered, crashed, session, opened>>
  BY DEF handleOnSocksServerListening, handleOnSocksServerClose, Start, TransportStart,
     TransportStop, LinkStart, LinkStop, linkVars, connVars, nodeVars
<1>2. accepted' = accepted \/ accepted' = opened
  BY DEF handleOnSocksServerListening, handleOnSocksServerClose, Start, TransportStart,
     TransportStop, LinkStart, LinkStop, linkVars, connVars
<1>3. accepted' >= accepted
  BY <1>2 DEF IInv, TypeOK
<1>4. \A s \in Side, k \in Session : HasLeft(s, k) => HasLeft(s, k)'
  BY <1>1, <1>3 DEF HasLeft, IInv, TypeOK, Session
<1>5. \A s \in Side : mux'[s] = mux[s] \/ (~Listens(s) /\ mux'[s] = session[s])
  BY DEF handleOnSocksServerListening, handleOnSocksServerClose, Start, TransportStart,
     TransportStop, LinkStart, LinkStop, linkVars, connVars, Listens, nodeVars, IInv, TypeOK
<1>6. \A s \in Side, c \in Conns : ~crashed[s] /\ Live(s, c) =>
        session'[s] = session[s] /\ mux'[s] = mux[s]
  BY <1>1, <1>5, LiveIsOnline
<1>7. MuxInv'
  BY DEF handleOnSocksServerListening, handleOnSocksServerClose, Start, TransportStart,
     TransportStop, LinkStart, LinkStop, linkVars, connVars, Listens, nodeVars, IInv, TypeOK,
     MuxInv
<1>8. CrashOnlyWhenStopped'
  BY DEF handleOnSocksServerListening, handleOnSocksServerClose, Start, TransportStart,
     TransportStop, linkVars, connVars, nodeVars, IInv, TypeOK,
     CrashOnlyWhenStopped
<1> QED
  BY <1>1, <1>4, <1>6, <1>7, <1>8, FrameStep DEF IInv

LEMMA TransportConnects ==
  ASSUME IInv, TypeOK',
         ClientTransportConnected \/ ServerTransportConnected \/ ServerTransportDrops
  PROVE  IInv'
<1>1. UNCHANGED <<chan, connections, conn, produced, delivered, crashed, working>>
  BY DEF ClientTransportConnected, ServerTransportConnected, ServerTransportDrops,
     ClientConnects, ServerAccepts, ServerDrops, connVars, nodeVars
<1>2. \A s \in Side, k \in Session : HasLeft(s, k) => HasLeft(s, k)'
  BY SMTT(30) DEF ClientTransportConnected, ServerTransportConnected, ServerTransportDrops,
     ClientConnects, ServerAccepts, ServerDrops, HasLeft, IInv, TypeOK, Session, Side
<1>3. \A s \in Side : \/ session'[s] = session[s] /\ mux'[s] = mux[s]
                      \/ session[s] = 0
  BY DEF ClientTransportConnected, ServerTransportConnected, ServerTransportDrops,
     ClientConnects, ServerAccepts, ServerDrops, handleOnTransportConnected, nodeVars,
     IInv, TypeOK, Side
<1>4. \A s \in Side, c \in Conns : ~crashed[s] /\ Live(s, c) =>
        session'[s] = session[s] /\ mux'[s] = mux[s]
  BY <1>3, LiveIsOnline
<1>5. MuxInv'
  BY SMTT(30) DEF ClientTransportConnected, ServerTransportConnected, ServerTransportDrops,
     ClientConnects, ServerAccepts, ServerDrops, handleOnTransportConnected, nodeVars,
     IInv, TypeOK, Side, MuxInv, Listens
<1>6. CrashOnlyWhenStopped'
  BY <1>1 DEF IInv, CrashOnlyWhenStopped
<1> QED
  BY <1>1, <1>2, <1>4, <1>5, <1>6, FrameStep DEF IInv

LEMMA Stutters ==
  ASSUME IInv, TypeOK', UNCHANGED vars
  PROVE  IInv'
<1>1. \A s \in Side, k \in Session : HasLeft(s, k) => HasLeft(s, k)'
  BY DEF vars, linkVars, HasLeft
<1>2. MuxInv' /\ CrashOnlyWhenStopped'
  BY DEF IInv, vars, linkVars, nodeVars, MuxInv, Listens, CrashOnlyWhenStopped
<1> QED
  BY <1>1, <1>2, FrameStep DEF IInv, vars, linkVars, nodeVars, connVars

-----------------------------------------------------------------------------
(* Steps that take an end offline: every live socket there is destroyed.   *)

LEMMA DestroyAllEffect ==
  ASSUME IInv, NEW s \in Side, ~crashed[s], destroyAllConnections(s)
  PROVE  /\ \A c \in Conns : conn'[s][c] = destroy(conn[s][c])
         /\ \A id \in Ids : connections'[s][id] = None
         /\ \A t \in Side : t # s => conn'[t] = conn[t] /\ connections'[t] = connections[t]
<1>1. ASSUME NEW c \in Conns
      PROVE  conn'[s][c] = destroy(conn[s][c])
  <2>1. CASE c \in {connections[s][id] : id \in Ids}
    BY <2>1 DEF destroyAllConnections, IInv, TypeOK
  <2>2. CASE c \notin {connections[s][id] : id \in Ids}
    <3>1. ~Live(s, c)
      BY <2>2, TunnelAssumption, LiveIsOnline
    <3>2. conn'[s][c] = conn[s][c]
      BY <2>2 DEF destroyAllConnections, IInv, TypeOK
    <3> QED
      BY <3>1, <3>2 DEF Live, destroy
  <2> QED
    BY <2>1, <2>2
<1> QED
  BY <1>1 DEF destroyAllConnections, IInv, TypeOK

LEMMA DestroyFields ==
  ASSUME NEW o \in ConnectionObject
  PROVE  /\ destroy(o).sock \notin LiveSocket
         /\ destroy(o).sock \in {o.sock, "destroyed"}
         /\ destroy(o).sock = "none" <=> o.sock = "none"
         /\ destroy(o).messages = o.messages
         /\ destroy(o).connected = o.connected
         /\ destroy(o).wasClosed = o.wasClosed
<1>1. CASE o.sock \in LiveSocket
  BY <1>1 DEF destroy, ConnectionObject, LiveSocket
<1>2. CASE o.sock \notin LiveSocket
  BY <1>2 DEF destroy
<1> QED
  BY <1>1, <1>2

LEMMA PartsOfMessage ==
  ASSUME NEW m \in Message
  PROVE  /\ m.type = "DATA" => m.data[1] \in Conns /\ m.data[2] \in 1..MaxData
         /\ m.type = "CONNECT" => m.conn \in Conns
BY ChunkParts DEF Message

LEMMA MessageParts ==
  ASSUME TypeOK, NEW s \in Side, NEW k \in Session, NEW i \in DOMAIN chan[s][k]
  PROVE  /\ chan[s][k][i] \in Message
         /\ chan[s][k][i].type = "DATA" =>
              chan[s][k][i].data[1] \in Conns /\ chan[s][k][i].data[2] \in 1..MaxData
         /\ chan[s][k][i].type = "CONNECT" => chan[s][k][i].conn \in Conns
<1>1. chan[s][k] \in Seq(Message)
  BY DEF TypeOK
<1>2. chan[s][k][i] \in Message
  BY <1>1
<1> QED
  BY <1>2, PartsOfMessage

(* Entries are removed from the table, and no socket forgotten.            *)
LEMMA TableKept ==
  ASSUME IInv, TypeOK',
         \A t \in Side, id \in Ids : connections'[t][id] \in {None, connections[t][id]},
         \A t \in Side, c \in Conns :
           conn[t][c].sock # "none" => conn'[t][c].sock # "none"
  PROVE  TableInv'
<1> SUFFICES ASSUME NEW t \in Side, NEW id \in Ids, connections'[t][id] # None
             PROVE  /\ IdOf[connections'[t][id]] = id
                    /\ conn'[t][connections'[t][id]].sock # "none"
  BY DEF TableInv
<1>1. connections'[t][id] = connections[t][id]
  OBVIOUS
<1>2. connections[t][id] \in Conns
  BY <1>1 DEF IInv, TypeOK
<1>3. IdOf[connections[t][id]] = id /\ conn[t][connections[t][id]].sock # "none"
  BY <1>1 DEF IInv, TableInv
<1> QED
  BY <1>1, <1>2, <1>3

LEMMA MessageFacts ==
  ASSUME IInv, NEW s \in Side, NEW k \in Session, NEW i \in DOMAIN chan[s][k],
         NEW m, m = chan[s][k][i]
  PROVE  GoodMessage(s, m)
<1>1. GoodMessage(s, chan[s][k][i])
  BY DEF IInv, MessageInv
<1> QED
  BY <1>1

(* A message stays right while no socket is forgotten, and its own         *)
(* connection is not opened at the "out" end.                              *)
LEMMA GoodKept ==
  ASSUME NEW t \in Side, NEW m \in Message, GoodMessage(t, m),
         \A u \in Side, c \in Conns :
           conn[u][c].sock # "none" => conn'[u][c].sock # "none",
         m.type = "CONNECT" /\ conn["out"][m.conn].sock = "none"
           => conn'["out"][m.conn].sock = "none"
  PROVE  GoodMessage(t, m)'
<1>1. CASE m.type = "DATA"
  <2>1. m.data[1] \in Conns /\ Peer(t) \in Side
    BY <1>1, PartsOfMessage, PeerType
  <2>2. m.id = IdOf[m.data[1]] /\ conn[Peer(t)][m.data[1]].sock # "none"
    BY <1>1 DEF GoodMessage
  <2> QED
    BY <1>1, <2>1, <2>2 DEF GoodMessage
<1>2. CASE m.type = "CONNECT"
  <2>1. m.conn \in Conns /\ "in" \in Side
    BY <1>2, PartsOfMessage DEF Side
  <2>2. /\ t = "out" /\ m.id = IdOf[m.conn]
        /\ conn["in"][m.conn].sock # "none" /\ conn["out"][m.conn].sock = "none"
    BY <1>2 DEF GoodMessage
  <2> QED
    BY <1>2, <2>1, <2>2 DEF GoodMessage
<1> QED
  BY <1>1, <1>2 DEF GoodMessage

LEMMA MessageKept ==
  ASSUME IInv, NEW s \in Side, NEW k \in Session, NEW i \in DOMAIN chan[s][k],
         NEW m, m = chan[s][k][i],
         \A u \in Side, c \in Conns :
           conn[u][c].sock # "none" => conn'[u][c].sock # "none",
         m.type = "CONNECT" /\ conn["out"][m.conn].sock = "none"
           => conn'["out"][m.conn].sock = "none"
  PROVE  GoodMessage(s, m)'
<1>1. m \in Message
  BY MessageParts DEF IInv
<1>2. GoodMessage(s, m)
  BY MessageFacts
<1> QED
  BY <1>1, <1>2, GoodKept

(* It is enough to look at one message at a time.                          *)
LEMMA MessagesGood ==
  ASSUME \A s \in Side, k \in Session : \A i \in DOMAIN chan'[s][k] :
           \A n : n = chan'[s][k][i] => GoodMessage(s, n)'
  PROVE  MessageInv'
BY DEF MessageInv

LEMMA PendingGood ==
  ASSUME \A c \in Conns, k \in Session : \A i \in DOMAIN chan'["out"][k] :
           IsConnect(chan'["out"][k][i], c) /\ ~HasLeft("out", k)' =>
             /\ Exact(chan'["out"][k], c, 0, produced'["in"][c])
             /\ \A j \in DOMAIN chan'["out"][k] : IsData(chan'["out"][k][j], c) => i < j
             /\ ~crashed'["in"] /\ Live("in", c)' => k = session'["in"]
  PROVE  PendingInv'
BY DEF PendingInv, IsConnect, IsData, Exact

LEMMA OfflineStep ==
  ASSUME IInv, TypeOK', NEW s \in Side, ~crashed[s],
         UNCHANGED <<produced, delivered, crashed>>,
         \A c \in Conns : conn'[s][c] = destroy(conn[s][c]),
         \A id \in Ids : connections'[s][id] \in {None, connections[s][id]},
         \A t \in Side : t # s =>
           /\ conn'[t] = conn[t] /\ connections'[t] = connections[t]
           /\ session'[t] = session[t] /\ mux'[t] = mux[t],
         \A t \in Side, k \in Session :
           \/ chan'[t][k] = chan[t][k]
           \/ chan'[t][k] = << >> /\ t = s,
         \A t \in Side, k \in Session : HasLeft(t, k) => HasLeft(t, k)'
  PROVE  /\ TableInv' /\ LiveIsTracked' /\ ObjectInv' /\ MessageInv' /\ OneConnect'
         /\ PendingInv' /\ FlowInv' /\ SameSession' /\ InOrder'
<1>1. "in" \in Side /\ "out" \in Side
  BY DEF Side
<1>2. \A c \in Conns : conn[s][c] \in ConnectionObject
  BY DEF IInv, TypeOK
<1>3. \A t \in Side, c \in Conns :
        /\ Live(t, c)' => Live(t, c) /\ t # s
        /\ conn'[t][c].sock = "none" <=> conn[t][c].sock = "none"
        /\ conn'[t][c].messages = conn[t][c].messages
        /\ conn'[t][c].connected = conn[t][c].connected
        /\ conn'[t][c].sock \in {conn[t][c].sock, "destroyed"}
  <2> SUFFICES ASSUME NEW t \in Side, NEW c \in Conns
               PROVE  /\ Live(t, c)' => Live(t, c) /\ t # s
                      /\ conn'[t][c].sock = "none" <=> conn[t][c].sock = "none"
                      /\ conn'[t][c].messages = conn[t][c].messages
                      /\ conn'[t][c].connected = conn[t][c].connected
                      /\ conn'[t][c].sock \in {conn[t][c].sock, "destroyed"}
    OBVIOUS
  <2>1. CASE t # s
    <3>1. conn'[t] = conn[t]
      BY <2>1
    <3> QED
      BY <2>1, <3>1 DEF Live
  <2>2. CASE t = s
    <3>1. conn'[s][c] = destroy(conn[s][c]) /\ conn[s][c] \in ConnectionObject
      BY <1>2
    <3> QED
      BY <2>2, <3>1, DestroyFields DEF Live
  <2> QED
    BY <2>1, <2>2
<1>4. TableInv'
  <2>1. \A t \in Side, id \in Ids : connections'[t][id] \in {None, connections[t][id]}
    OBVIOUS
  <2> QED
    BY <1>3, <2>1, TableKept
<1>5. LiveIsTracked'
  BY <1>3 DEF IInv, LiveIsTracked
<1>6. ObjectInv'
  BY <1>1, <1>3 DEF IInv, ObjectInv
<1>7. \A t \in Side, k \in Session : \A i \in DOMAIN chan'[t][k] :
        chan'[t][k] = chan[t][k]
  OBVIOUS
<1>8. MessageInv'
  <2>1. ASSUME NEW t \in Side, NEW k \in Session, NEW i \in DOMAIN chan'[t][k],
               NEW n, n = chan'[t][k][i]
        PROVE  GoodMessage(t, n)'
    <3>1. i \in DOMAIN chan[t][k] /\ n = chan[t][k][i]
      BY <1>7, <2>1
    <3>2. n.type = "CONNECT" => n.conn \in Conns
      BY <3>1, MessageParts DEF IInv
    <3> QED
      BY <1>1, <1>3, <3>1, <3>2, MessageKept
  <2> QED
    BY <2>1, MessagesGood
<1>9. OneConnect'
  BY <1>1, <1>7 DEF IInv, OneConnect
<1>10. PendingInv'
  BY <1>1, <1>3, <1>7 DEF IInv, PendingInv
<1>11. FlowInv'
  <2> SUFFICES ASSUME NEW t \in Side, NEW c \in Conns, ~crashed'[t], Live(t, c)'
               PROVE  /\ Received(t, c)' <= produced'[Peer(t)][c]
                      /\ Exact(chan'[t][session'[t]], c, Received(t, c)', produced'[Peer(t)][c])
    BY DEF FlowInv
  <2>1. t # s /\ Live(t, c) /\ ~crashed[t] /\ session'[t] = session[t]
    BY <1>3
  <2>2. session[t] \in Session
    BY <2>1, LiveIsOnline
  <2>3. chan'[t][session[t]] = chan[t][session[t]]
    BY <2>1, <2>2
  <2>4. Received(t, c)' = Received(t, c)
    BY <1>3 DEF Received
  <2> QED
    BY <2>1, <2>3, <2>4 DEF IInv, FlowInv
<1>12. SameSession'
  BY <1>1, <1>3 DEF IInv, SameSession
<1>13. InOrder'
  BY DEF IInv, InOrder
<1> QED
  BY <1>4, <1>5, <1>6, <1>8, <1>9, <1>10, <1>11, <1>12, <1>13

LEMMA StopStep ==
  ASSUME IInv, TypeOK', NEW s \in Side, Stop(s)
  PROVE  IInv'
<1>1. ~crashed[s] /\ destroyAllConnections(s)
  BY DEF Stop
<1>2. UNCHANGED <<running, opened, accepted, session, chan, produced, delivered, crashed>>
  BY DEF Stop, linkVars
<1>3. mux' = [mux EXCEPT ![s] = 0]
  BY DEF Stop
<1>4. \A t \in Side, k \in Session : HasLeft(t, k) => HasLeft(t, k)'
  BY <1>2 DEF HasLeft
<1>5. MuxInv' /\ CrashOnlyWhenStopped'
  BY DEF Stop, IInv, TypeOK, MuxInv, Listens, CrashOnlyWhenStopped, linkVars
<1> QED
  BY <1>1, <1>2, <1>3, <1>4, <1>5, DestroyAllEffect, OfflineStep, ZenonT(30) DEF IInv, TypeOK

LEMMA DisconnectStep ==
  ASSUME IInv, TypeOK', NEW s \in Side, TransportDisconnected(s)
  PROVE  IInv'
<1>1. ~crashed[s] /\ UNCHANGED <<running, opened, accepted, working, produced, delivered, crashed>>
  BY DEF TransportDisconnected, LinkLost
<1>2. /\ session[s] \in Session
      /\ session' = [session EXCEPT ![s] = 0]
      /\ chan' = [chan EXCEPT ![s][session[s]] = << >>]
  BY DEF TransportDisconnected, LinkLost, IInv, TypeOK, Session
<1>3. \A t \in Side, k \in Session :
        chan'[t][k] = chan[t][k] \/ (chan'[t][k] = << >> /\ t = s)
  <2> SUFFICES ASSUME NEW t \in Side, NEW k \in Session
               PROVE  chan'[t][k] = chan[t][k] \/ (chan'[t][k] = << >> /\ t = s)
    OBVIOUS
  <2>1. chan \in [Side -> [Session -> Seq(Message)]]
    BY DEF IInv, TypeOK
  <2>2. /\ chan'[s][session[s]] = << >>
        /\ \A u \in Side : u # s => chan'[u] = chan[u]
        /\ \A l \in Session : l # session[s] => chan'[s][l] = chan[s][l]
    BY <1>2, <2>1, UpdateFacts
  <2> QED
    BY <2>2
<1>4. \A t \in Side, k \in Session : HasLeft(t, k) => HasLeft(t, k)'
  BY <1>1, <1>2 DEF HasLeft, IInv, TypeOK, Session
<1>5. /\ \A c \in Conns : conn'[s][c] = destroy(conn[s][c])
      /\ \A id \in Ids : connections'[s][id] \in {None, connections[s][id]}
      /\ \A t \in Side : t # s =>
           conn'[t] = conn[t] /\ connections'[t] = connections[t] /\ mux'[t] = mux[t]
      /\ mux'[s] = IF Listens(s) THEN 0 ELSE mux[s]
  <2>1. CASE Listens(s)
    <3>1. destroyAllConnections(s) /\ mux' = [mux EXCEPT ![s] = 0]
      BY <2>1 DEF TransportDisconnected, handleOnTransportDisconnected
    <3> QED
      BY <1>1, <2>1, <3>1, DestroyAllEffect DEF IInv, TypeOK
  <2>2. CASE ~Listens(s)
    <3>1. UNCHANGED <<conn, connections, mux>>
      BY <2>2 DEF TransportDisconnected, handleOnTransportDisconnected
    <3>2. \A c \in Conns : ~Live(s, c)
      BY <1>1, <2>2, LiveIsOnline
    <3> QED
      BY <2>2, <3>1, <3>2 DEF Live, destroy
  <2> QED
    BY <2>1, <2>2
<1>6. \A t \in Side : t # s => session'[t] = session[t]
  BY <1>2 DEF IInv, TypeOK
<1>7. MuxInv' /\ CrashOnlyWhenStopped'
  BY <1>1, <1>2, <1>5 DEF IInv, TypeOK, MuxInv, Listens, CrashOnlyWhenStopped
<1> QED
  BY <1>1, <1>3, <1>4, <1>5, <1>6, <1>7, OfflineStep DEF IInv

-----------------------------------------------------------------------------
(* Steps that read a message.                                              *)

LEMMA ConsumeEffect ==
  ASSUME TypeOK, NEW s \in Side, session[s] \in Session, Incoming(s) # << >>,
         chan' = Consumed(s)
  PROVE  /\ chan[s][session[s]] \in Seq(Message) /\ chan[s][session[s]] # << >>
         /\ Incoming(s) = chan[s][session[s]]
         /\ chan'[s][session[s]] = Tail(chan[s][session[s]])
         /\ \A t \in Side : t # s => chan'[t] = chan[t]
         /\ \A l \in Session : l # session[s] => chan'[s][l] = chan[s][l]
<1>1. chan \in [Side -> [Session -> Seq(Message)]]
  BY DEF TypeOK
<1>2. chan' = [chan EXCEPT ![s][session[s]] = Tail(chan[s][session[s]])]
  BY DEF Consumed
<1>3. /\ chan'[s][session[s]] = Tail(chan[s][session[s]])
      /\ \A t \in Side : t # s => chan'[t] = chan[t]
      /\ \A l \in Session : l # session[s] => chan'[s][l] = chan[s][l]
  BY <1>1, <1>2, UpdateFacts
<1> QED
  BY <1>1, <1>3 DEF Incoming

(* Message i of a channel after the step was message i + 1 of the channel  *)
(* that was read, or message i of another one, before it.                  *)
LEMMA ConsumeShift ==
  ASSUME TypeOK, NEW s \in Side, session[s] \in Session, Incoming(s) # << >>,
         chan' = Consumed(s),
         NEW t \in Side, NEW l \in Session, NEW i \in DOMAIN chan'[t][l]
  PROVE  \/ /\ t = s /\ l = session[s]
            /\ i + 1 \in DOMAIN chan[t][l] /\ chan'[t][l][i] = chan[t][l][i + 1]
            /\ i \in Nat \ {0}
         \/ /\ ~(t = s /\ l = session[s])
            /\ i \in DOMAIN chan[t][l] /\ chan'[t][l] = chan[t][l]
<1>1. CASE t = s /\ l = session[s]
  <2> DEFINE q == chan[s][session[s]]
  <2>1. q \in Seq(Message) /\ q # << >> /\ chan'[t][l] = Tail(q) /\ chan[t][l] = q
    BY <1>1, ConsumeEffect
  <2>2. i \in DOMAIN Tail(q) /\ DOMAIN Tail(q) = 1..(Len(q) - 1) /\ Len(q) \in Nat
    BY <2>1, TailIndices
  <2>3. i + 1 \in DOMAIN q /\ Tail(q)[i] = q[i + 1]
    BY <2>1, <2>2, TailIndices
  <2> QED
    BY <1>1, <2>1, <2>2, <2>3
<1>2. CASE ~(t = s /\ l = session[s])
  BY <1>2, ConsumeEffect
<1> QED
  BY <1>1, <1>2

LEMMA ConsumeKeepsChannels ==
  ASSUME IInv, TypeOK',
         NEW s \in Side, session[s] \in Session, Incoming(s) # << >>,
         chan' = Consumed(s),
         UNCHANGED <<opened, accepted, session, produced, crashed>>,
         \A t \in Side, c \in Conns :
           conn[t][c].sock # "none" => conn'[t][c].sock # "none",
         \A c \in Conns :
           conn["out"][c].sock = "none" /\ conn'["out"][c].sock # "none" =>
             s = "out" /\ IsConnect(Head(Incoming(s)), c),
         \A c \in Conns : Live("in", c)' => Live("in", c)
  PROVE  MessageInv' /\ OneConnect' /\ PendingInv'
<1> DEFINE q == chan[s][session[s]]
<1>0. TypeOK
  BY DEF IInv
<1>1. "in" \in Side /\ "out" \in Side
  BY DEF Side
<1>2. q \in Seq(Message) /\ q # << >> /\ Incoming(s) = q /\ 1 \in DOMAIN q /\ Head(q) = q[1]
  BY <1>0, ConsumeEffect, TailIndices
<1>3. OneConnect'
  <2> SUFFICES ASSUME NEW c \in Conns, NEW k \in Session, NEW l \in Session,
                      NEW i \in DOMAIN chan'["out"][k], NEW j \in DOMAIN chan'["out"][l],
                      IsConnect(chan'["out"][k][i], c), IsConnect(chan'["out"][l][j], c)
               PROVE  k = l /\ i = j
    BY DEF OneConnect, IsConnect
  <2> DEFINE ii == IF s = "out" /\ k = session[s] THEN i + 1 ELSE i
             jj == IF s = "out" /\ l = session[s] THEN j + 1 ELSE j
  <2>1. ii \in DOMAIN chan["out"][k] /\ chan["out"][k][ii] = chan'["out"][k][i]
    BY <1>0, <1>1, ConsumeShift
  <2>2. jj \in DOMAIN chan["out"][l] /\ chan["out"][l][jj] = chan'["out"][l][j]
    BY <1>0, <1>1, ConsumeShift
  <2>3. k = l /\ ii = jj
    BY <2>1, <2>2 DEF IInv, OneConnect
  <2>4. (s = "out" /\ k = session[s]) => i \in Nat /\ j \in Nat
    BY <1>0, <1>1, <2>3, ConsumeShift
  <2> QED
    BY <2>3, <2>4
<1>4. MessageInv'
  <2>1. ASSUME NEW t \in Side, NEW k \in Session, NEW i \in DOMAIN chan'[t][k],
               NEW m, m = chan'[t][k][i]
        PROVE  GoodMessage(t, m)'
    <3> DEFINE j == IF t = s /\ k = session[s] THEN i + 1 ELSE i
    <3>1. j \in DOMAIN chan[t][k] /\ m = chan[t][k][j]
      BY <1>0, <2>1, ConsumeShift
    <3>2. m.type = "CONNECT" => m.conn \in Conns
      BY <1>0, <3>1, MessageParts
    <3>3. ASSUME m.type = "CONNECT", conn["out"][m.conn].sock = "none",
                 conn'["out"][m.conn].sock # "none"
          PROVE  FALSE
      <4>1. s = "out" /\ IsConnect(q[1], m.conn)
        BY <1>2, <3>2, <3>3
      <4>2. t = "out"
        <5>1. GoodMessage(t, m)
          BY <3>1, MessageFacts
        <5> QED
          BY <3>3, <5>1 DEF GoodMessage
      <4>3. IsConnect(chan["out"][k][j], m.conn)
        BY <3>1, <3>3, <4>2 DEF IsConnect
      <4>4. k = session[s] /\ j = 1
        <5>1. /\ session[s] \in Session /\ 1 \in DOMAIN chan["out"][session[s]]
              /\ IsConnect(chan["out"][session[s]][1], m.conn)
          BY <1>0, <1>2, <4>1 DEF TypeOK
        <5>2. j \in DOMAIN chan["out"][k] /\ m.conn \in Conns
          BY <3>1, <3>2, <3>3, <4>2
        <5> HIDE DEF j
        <5> QED
          BY <4>3, <5>1, <5>2 DEF IInv, OneConnect
      <4>5. i \in Nat \ {0} /\ j = i + 1
        BY <1>0, <4>1, <4>2, <4>4, ConsumeShift
      <4> QED
        BY <4>4, <4>5
    <3> HIDE DEF j
    <3> QED
      BY <3>1, <3>3, MessageKept
  <2> QED
    BY <2>1, MessagesGood
<1>5. PendingInv'
  <2> SUFFICES ASSUME NEW c \in Conns, NEW k \in Session, NEW i \in DOMAIN chan'["out"][k],
                      IsConnect(chan'["out"][k][i], c), ~HasLeft("out", k)'
               PROVE  /\ Exact(chan'["out"][k], c, 0, produced'["in"][c])
                      /\ \A j \in DOMAIN chan'["out"][k] :
                           IsData(chan'["out"][k][j], c) => i < j
                      /\ ~crashed'["in"] /\ Live("in", c)' => k = session'["in"]
    BY DEF PendingInv, IsConnect, IsData, Exact
  <2> DEFINE ii == IF s = "out" /\ k = session[s] THEN i + 1 ELSE i
  <2>1. ii \in DOMAIN chan["out"][k] /\ chan["out"][k][ii] = chan'["out"][k][i]
    BY <1>0, <1>1, ConsumeShift
  <2>2. ~HasLeft("out", k)
    BY DEF HasLeft
  <2>3. /\ Exact(chan["out"][k], c, 0, produced["in"][c])
        /\ \A j \in DOMAIN chan["out"][k] : IsData(chan["out"][k][j], c) => ii < j
        /\ ~crashed["in"] /\ Live("in", c) => k = session["in"]
    BY <2>1, <2>2 DEF IInv, PendingInv
  <2>4. produced["in"][c] \in Nat
    BY <1>0, <1>1, TunnelAssumption DEF TypeOK
  <2>5. CASE s = "out" /\ k = session[s]
    <3>1. chan'["out"][k] = Tail(q) /\ i \in Nat \ {0}
      BY <1>0, <1>1, <2>5, ConsumeEffect, ConsumeShift
    <3>2. ~IsData(Head(q), c)
      BY <1>2, <2>3, <2>5, <3>1
    <3>3. Exact(Tail(q), c, 0, produced["in"][c])
      BY <1>2, <2>3, <2>4, <2>5, <3>2, ExactSkip
    <3>4. \A j \in DOMAIN Tail(q) : IsData(Tail(q)[j], c) => i < j
      <4> SUFFICES ASSUME NEW j \in DOMAIN Tail(q), IsData(Tail(q)[j], c)
                   PROVE  i < j
        OBVIOUS
      <4>1. j + 1 \in DOMAIN q /\ Tail(q)[j] = q[j + 1] /\ j \in Nat
        BY <1>2, TailIndices
      <4>2. i + 1 < j + 1
        BY <2>3, <2>5, <4>1
      <4> QED
        BY <3>1, <4>1, <4>2
    <3> QED
      BY <2>3, <3>1, <3>3, <3>4
  <2>6. CASE ~(s = "out" /\ k = session[s])
    <3>1. chan'["out"][k] = chan["out"][k]
      BY <1>0, <1>1, <2>6, ConsumeShift
    <3> QED
      BY <2>3, <2>6, <3>1
  <2> QED
    BY <2>5, <2>6
<1> QED
  BY <1>3, <1>4, <1>5

LEMMA Sums ==
  /\ \A a, b \in Nat : a + b \in Nat
  /\ \A a, b \in Nat : a = 0 /\ b = 0 => a + b = 0
  /\ \A a, b \in Nat : (a + 1) + b = (a + b) + 1 /\ a + (b + 1) = (a + b) + 1
OBVIOUS

LEMMA CountTypes ==
  ASSUME TypeOK, NEW s \in Side, NEW c \in Conns
  PROVE  /\ Received(s, c) \in Nat
         /\ produced[s][c] \in 0..MaxData /\ produced[s][c] \in Nat
         /\ produced[Peer(s)][c] \in Nat
         /\ delivered[s][c] \in Seq(Chunk) /\ Len(delivered[s][c]) \in Nat
         /\ conn[s][c] \in ConnectionObject
         /\ conn[s][c].messages \in Seq(Chunk) /\ Len(conn[s][c].messages) \in Nat
<1>1. delivered[s][c] \in Seq(Chunk) /\ conn[s][c] \in ConnectionObject
  BY DEF TypeOK
<1>2. conn[s][c].messages \in Seq(Chunk)
  BY <1>1 DEF ConnectionObject
<1>3. produced[s][c] \in 0..MaxData /\ produced[Peer(s)][c] \in 0..MaxData
  BY PeerType DEF TypeOK
<1>4. Len(delivered[s][c]) \in Nat /\ Len(conn[s][c].messages) \in Nat
  BY <1>1, <1>2, LenProperties
<1>5. produced[s][c] \in Nat /\ produced[Peer(s)][c] \in Nat
  BY <1>3, TunnelAssumption
<1>6. Received(s, c) \in Nat
  BY <1>4, Sums, Zenon DEF Received
<1> QED
  BY <1>1, <1>2, <1>3, <1>4, <1>5, <1>6

(* How a step may change the number of chunks a socket was given.          *)
LEMMA Counts ==
  ASSUME TypeOK, TypeOK', NEW s \in Side, NEW c \in Conns
  PROVE  /\ delivered'[s][c] = delivered[s][c]
            /\ conn'[s][c].messages = conn[s][c].messages
              => Received(s, c)' = Received(s, c)
         /\ delivered'[s][c] = << >> /\ conn'[s][c].messages = << >>
              => Received(s, c)' = 0
         /\ \A x \in Chunk :
              /\ delivered'[s][c] = Append(delivered[s][c], x)
              /\ conn'[s][c].messages = conn[s][c].messages
              => Received(s, c)' = Received(s, c) + 1
         /\ \A x \in Chunk :
              /\ delivered'[s][c] = delivered[s][c]
              /\ conn'[s][c].messages = Append(conn[s][c].messages, x)
              => Received(s, c)' = Received(s, c) + 1
<1>1. /\ delivered[s][c] \in Seq(Chunk) /\ conn[s][c].messages \in Seq(Chunk)
      /\ Len(delivered[s][c]) \in Nat /\ Len(conn[s][c].messages) \in Nat
      /\ Received(s, c) = Len(delivered[s][c]) + Len(conn[s][c].messages)
      /\ Received(s, c)' = Len(delivered'[s][c]) + Len(conn'[s][c].messages)
  BY CountTypes DEF Received
<1>2. \A q \in Seq(Chunk), x \in Chunk : Len(Append(q, x)) = Len(q) + 1
  OBVIOUS
<1>3. Len(<< >>) = 0 /\ 0 \in Nat
  OBVIOUS
<1> HIDE DEF Received
<1>4. /\ delivered'[s][c] = delivered[s][c]
      /\ conn'[s][c].messages = conn[s][c].messages
      => Received(s, c)' = Received(s, c)
  BY <1>1, Zenon
<1>5. delivered'[s][c] = << >> /\ conn'[s][c].messages = << >> => Received(s, c)' = 0
  BY <1>1, <1>3, Sums, Zenon
<1>6. ASSUME NEW x \in Chunk, delivered'[s][c] = Append(delivered[s][c], x),
             conn'[s][c].messages = conn[s][c].messages
      PROVE  Received(s, c)' = Received(s, c) + 1
  <2>1. /\ Len(delivered'[s][c]) = Len(delivered[s][c]) + 1
        /\ Len(conn'[s][c].messages) = Len(conn[s][c].messages)
    BY <1>1, <1>2, <1>6, Zenon
  <2> QED
    BY <1>1, <2>1, Sums, ZenonT(30)
<1>7. ASSUME NEW x \in Chunk, delivered'[s][c] = delivered[s][c],
             conn'[s][c].messages = Append(conn[s][c].messages, x)
      PROVE  Received(s, c)' = Received(s, c) + 1
  <2>1. /\ Len(delivered'[s][c]) = Len(delivered[s][c])
        /\ Len(conn'[s][c].messages) = Len(conn[s][c].messages) + 1
    BY <1>1, <1>2, <1>7, Zenon
  <2> QED
    BY <1>1, <2>1, Sums, ZenonT(30)
<1> QED
  BY <1>4, <1>5, <1>6, <1>7

(* A live socket that was given nothing skips the message; one that was    *)
(* given the chunk had it next in line; one that is new was asked for by   *)
(* the message.                                                            *)
LEMMA ConsumeKeepsFlow ==
  ASSUME IInv, TypeOK',
         NEW s \in Side, session[s] \in Session, Incoming(s) # << >>,
         chan' = Consumed(s),
         UNCHANGED <<session, produced, crashed>>,
         \A t \in Side : t # s => conn'[t] = conn[t] /\ delivered'[t] = delivered[t],
         \A c \in Conns : ~crashed[s] /\ Live(s, c)' =>
           \/ /\ Live(s, c) /\ ~IsData(Head(Incoming(s)), c)
              /\ Received(s, c)' = Received(s, c)
           \/ /\ Live(s, c) /\ IsData(Head(Incoming(s)), c)
              /\ Received(s, c)' = Received(s, c) + 1
           \/ /\ s = "out" /\ IsConnect(Head(Incoming(s)), c)
              /\ Received(s, c)' = 0
  PROVE  FlowInv'
<1> DEFINE q == chan[s][session[s]]
<1>0. TypeOK
  BY DEF IInv
<1>1. "in" \in Side /\ "out" \in Side
  BY DEF Side
<1>2. q \in Seq(Message) /\ q # << >> /\ Incoming(s) = q /\ 1 \in DOMAIN q /\ Head(q) = q[1]
      /\ chan'[s][session[s]] = Tail(q)
  BY <1>0, ConsumeEffect, TailIndices
<1> SUFFICES ASSUME NEW t \in Side, NEW c \in Conns, ~crashed'[t], Live(t, c)'
             PROVE  /\ Received(t, c)' <= produced'[Peer(t)][c]
                    /\ Exact(chan'[t][session'[t]], c, Received(t, c)', produced'[Peer(t)][c])
  BY DEF FlowInv
<1> DEFINE hi == produced[Peer(t)][c]
<1>3. hi \in Nat /\ Received(t, c) \in Nat
  BY <1>0, CountTypes
<1>4. CASE t # s
  <2>1. Live(t, c) /\ Received(t, c)' = Received(t, c)
    BY <1>4 DEF Live, Received
  <2>2. chan'[t] = chan[t]
    BY <1>0, <1>4, ConsumeEffect
  <2> QED
    BY <2>1, <2>2 DEF IInv, FlowInv
<1>5. CASE t = s /\ Live(s, c) /\ ~IsData(Head(q), c) /\ Received(s, c)' = Received(s, c)
  <2>1. Received(s, c) <= hi /\ Exact(q, c, Received(s, c), hi)
    BY <1>5 DEF IInv, FlowInv
  <2>2. Exact(Tail(q), c, Received(s, c), hi)
    BY <1>2, <1>3, <1>5, <2>1, ExactSkip
  <2> QED
    BY <1>2, <1>5, <2>1, <2>2
<1>6. CASE t = s /\ Live(s, c) /\ IsData(Head(q), c) /\ Received(s, c)' = Received(s, c) + 1
  <2>1. Received(s, c) <= hi /\ Exact(q, c, Received(s, c), hi)
    BY <1>6 DEF IInv, FlowInv
  <2>2. Received(s, c) < hi /\ Exact(Tail(q), c, Received(s, c) + 1, hi)
    BY <1>2, <1>3, <1>6, <2>1, ExactTake
  <2> QED
    BY <1>2, <1>3, <1>6, <2>2
<1>7. CASE t = s /\ s = "out" /\ IsConnect(Head(q), c) /\ Received(s, c)' = 0
  <2>1. ~HasLeft("out", session[s])
    BY <1>7 DEF HasLeft
  <2>2. Exact(q, c, 0, hi)
    BY <1>2, <1>7, <2>1 DEF IInv, PendingInv, Peer
  <2>3. ~IsData(Head(q), c)
    BY <1>7 DEF IsConnect, IsData
  <2>4. Exact(Tail(q), c, 0, hi)
    BY <1>2, <1>3, <2>2, <2>3, ExactSkip
  <2> QED
    BY <1>2, <1>3, <1>7, <2>4
<1> QED
  BY <1>2, <1>4, <1>5, <1>6, <1>7

LEMMA ReceivesFacts ==
  ASSUME IInv, NEW s \in Side, NEW type, Receives(s, type)
  PROVE  /\ ~crashed[s] /\ session[s] \in Session /\ session[s] # 0 /\ mux[s] = session[s]
         /\ Incoming(s) # << >> /\ Head(Incoming(s)) \in Message
         /\ Head(Incoming(s)).type = type
         /\ chan' = Consumed(s)
         /\ Incoming(s) = chan[s][session[s]] /\ 1 \in DOMAIN chan[s][session[s]]
         /\ Head(Incoming(s)) = chan[s][session[s]][1]
         /\ UNCHANGED <<running, opened, accepted, session, working, mux, stops, crashed>>
         /\ MuxInv' /\ CrashOnlyWhenStopped'
<1>1. /\ ~crashed[s] /\ session[s] \in Session /\ session[s] # 0 /\ mux[s] = session[s]
      /\ Incoming(s) # << >> /\ Head(Incoming(s)).type = type /\ chan' = Consumed(s)
      /\ UNCHANGED <<running, opened, accepted, session, working, mux, stops, crashed>>
  BY DEF Receives, IInv, TypeOK, Session, nodeVars
<1>2. chan[s][session[s]] \in Seq(Message)
  BY <1>1 DEF IInv, TypeOK
<1>3. /\ Incoming(s) = chan[s][session[s]] /\ 1 \in DOMAIN chan[s][session[s]]
      /\ Head(Incoming(s)) = chan[s][session[s]][1] /\ Head(Incoming(s)) \in Message
  BY <1>1, <1>2, TailIndices DEF Incoming
<1>4. MuxInv' /\ CrashOnlyWhenStopped'
  BY <1>1 DEF IInv, MuxInv, CrashOnlyWhenStopped, Listens
<1> QED
  BY <1>1, <1>3, <1>4

LEMMA IgnoreStep ==
  ASSUME IInv, TypeOK', NEW s \in Side, BufferIgnored(s)
  PROVE  IInv'
<1>1. /\ ~crashed[s] /\ session[s] \in Session /\ mux[s] # session[s]
      /\ Incoming(s) # << >> /\ chan' = Consumed(s)
      /\ UNCHANGED <<running, opened, accepted, session, working, mux, stops, crashed,
                     connections, conn, produced, delivered>>
  BY DEF BufferIgnored, IInv, TypeOK, Session, nodeVars, connVars
<1>2. \A c \in Conns : ~Live(s, c)
  BY <1>1, LiveIsOnline
<1>3. \A t \in Side, c \in Conns : Live(t, c)' <=> Live(t, c)
  BY <1>1 DEF Live
<1>4. MessageInv' /\ OneConnect' /\ PendingInv'
  BY <1>1, <1>3, ConsumeKeepsChannels DEF Side
<1>5. FlowInv'
  BY <1>1, <1>2, <1>3, ConsumeKeepsFlow
<1>6. MuxInv' /\ CrashOnlyWhenStopped' /\ TableInv' /\ InOrder'
  BY <1>1 DEF IInv, MuxInv, CrashOnlyWhenStopped, Listens, TableInv, InOrder
<1>7. LiveIsTracked' /\ SameSession'
  BY <1>1, <1>3 DEF IInv, LiveIsTracked, SameSession, Side
<1>8. ObjectInv'
  BY <1>1 DEF IInv, ObjectInv
<1> QED
  BY <1>4, <1>5, <1>6, <1>7, <1>8 DEF IInv

LEMMA ReceiveConnectStep ==
  ASSUME IInv, TypeOK', DistinctIds, handleSocketMultiplexerOnConnect,
         NEW m, m = Head(Incoming("out")), NEW d, d = m.conn
  PROVE  IInv'
<1>0. TypeOK /\ "in" \in Side /\ "out" \in Side /\ "in" # "out"
  BY DEF IInv, Side
<1>1. Receives("out", "CONNECT")
  BY DEF handleSocketMultiplexerOnConnect
<1>2. /\ ~crashed["out"] /\ session["out"] \in Session /\ session["out"] # 0
      /\ mux["out"] = session["out"]
      /\ Incoming("out") # << >> /\ m \in Message /\ m.type = "CONNECT"
      /\ chan' = Consumed("out")
      /\ 1 \in DOMAIN chan["out"][session["out"]] /\ m = chan["out"][session["out"]][1]
      /\ UNCHANGED <<running, opened, accepted, session, working, mux, stops, crashed>>
      /\ MuxInv' /\ CrashOnlyWhenStopped'
  BY <1>0, <1>1, ReceivesFacts
<1>3. /\ d \in Conns /\ m.id = IdOf[d] /\ m.id \in Ids
      /\ conn["in"][d].sock # "none" /\ conn["out"][d].sock = "none"
      /\ IsConnect(m, d) /\ \A c \in Conns : IsConnect(m, c) <=> c = d
  <2>1. GoodMessage("out", m)
    BY <1>0, <1>2, MessageFacts
  <2>2. d \in Conns
    BY <1>2, PartsOfMessage
  <2> QED
    BY <1>2, <2>1, <2>2, TunnelAssumption DEF GoodMessage, IsConnect
<1>4. /\ conn' = [conn EXCEPT !["out"][d] = [conn["out"][d] EXCEPT !.sock = "connecting"]]
      /\ connections' = [connections EXCEPT !["out"][m.id] = d]
      /\ UNCHANGED <<produced, delivered>>
  BY DEF handleSocketMultiplexerOnConnect
<1>5. /\ conn'["out"][d] = [conn["out"][d] EXCEPT !.sock = "connecting"]
      /\ conn'["in"] = conn["in"]
      /\ \A c \in Conns : c # d => conn'["out"][c] = conn["out"][c]
  <2>1. PICK o : /\ conn' = [conn EXCEPT !["out"][d] = o]
                 /\ o = [conn["out"][d] EXCEPT !.sock = "connecting"]
    BY <1>4
  <2>2. /\ conn'["out"][d] = o
        /\ \A t \in Side : t # "out" => conn'[t] = conn[t]
        /\ \A c \in Conns : c # d => conn'["out"][c] = conn["out"][c]
    <3>1. conn \in [Side -> [Conns -> ConnectionObject]]
      BY <1>0 DEF TypeOK
    <3> QED
      BY <1>0, <1>3, <2>1, <3>1
  <2> QED
    BY <1>0, <2>1, <2>2
<1>6. /\ conn["out"][d] \in ConnectionObject
      /\ conn'["out"][d].sock = "connecting"
      /\ conn'["out"][d].messages = << >> /\ ~conn'["out"][d].connected
      /\ delivered'["out"][d] = << >>
  <2>1. conn["out"][d] \in ConnectionObject
    <3>1. conn \in [Side -> [Conns -> ConnectionObject]]
      BY <1>0 DEF TypeOK
    <3> QED
      BY <1>3, <3>1 DEF Side
  <2>2. /\ conn["out"][d].messages = << >> /\ ~conn["out"][d].connected
        /\ delivered["out"][d] = << >>
    BY <1>0, <1>3 DEF IInv, ObjectInv
  <2> QED
    BY <1>4, <1>5, <2>1, <2>2 DEF ConnectionObject
<1>7. /\ connections'["out"][IdOf[d]] = d /\ connections'["in"] = connections["in"]
      /\ \A id \in Ids : id # IdOf[d] => connections'["out"][id] = connections["out"][id]
  <2>1. connections' = [connections EXCEPT !["out"][IdOf[d]] = d] /\ IdOf[d] \in Ids
    BY <1>3, <1>4
  <2> QED
    BY <1>0, <2>1, TableUpdate DEF Side
<1>8. \A t \in Side, c \in Conns :
        /\ ~(t = "out" /\ c = d) => conn'[t][c] = conn[t][c] /\ (Live(t, c)' <=> Live(t, c))
        /\ Live("in", c)' <=> Live("in", c)
  BY <1>0, <1>5 DEF Live, Side
<1>9. MessageInv' /\ OneConnect' /\ PendingInv'
  <2>1. \A t \in Side, c \in Conns :
          conn[t][c].sock # "none" => conn'[t][c].sock # "none"
    BY <1>3, <1>6, <1>8
  <2>2. \A c \in Conns :
          conn["out"][c].sock = "none" /\ conn'["out"][c].sock # "none" => IsConnect(m, c)
    BY <1>0, <1>3, <1>8
  <2> QED
    BY <1>0, <1>2, <1>4, <1>8, <2>1, <2>2, ConsumeKeepsChannels
<1>10. FlowInv'
  <2>1. \A c \in Conns : ~IsData(m, c)
    BY <1>2 DEF IsData
  <2>2. \A c \in Conns : c # d => Received("out", c)' = Received("out", c)
    BY <1>0, <1>4, <1>8, Counts
  <2>3. Received("out", d)' = 0
    <3> QED
      BY <1>0, <1>3, <1>6, Counts
  <2>4. \A t \in Side : t # "out" => conn'[t] = conn[t] /\ delivered'[t] = delivered[t]
    BY <1>4, <1>5 DEF Side
  <2>5. \A c \in Conns : Live("out", c)' =>
          \/ Live("out", c) /\ ~IsData(m, c) /\ Received("out", c)' = Received("out", c)
          \/ IsConnect(m, c) /\ Received("out", c)' = 0
    <3> SUFFICES ASSUME NEW c \in Conns, Live("out", c)'
                 PROVE  \/ /\ Live("out", c) /\ ~IsData(m, c)
                           /\ Received("out", c)' = Received("out", c)
                        \/ IsConnect(m, c) /\ Received("out", c)' = 0
      OBVIOUS
    <3>1. CASE c = d
      BY <1>3, <2>3, <3>1
    <3>2. CASE c # d
      BY <1>0, <1>8, <2>1, <2>2, <3>2
    <3> QED
      BY <3>1, <3>2
  <2> QED
    BY <1>0, <1>2, <1>4, <2>4, <2>5, ConsumeKeepsFlow
<1>11. TableInv'
  <2> SUFFICES ASSUME NEW t \in Side, NEW id \in Ids, connections'[t][id] # None
               PROVE  /\ IdOf[connections'[t][id]] = id
                      /\ conn'[t][connections'[t][id]].sock # "none"
    BY DEF TableInv
  <2>1. CASE t = "out" /\ id = IdOf[d]
    BY <1>6, <1>7, <2>1
  <2>2. CASE ~(t = "out" /\ id = IdOf[d])
    <3>1. connections'[t][id] = connections[t][id]
      BY <1>7, <2>2 DEF Side
    <3>2. connections[t][id] \in Conns
      BY <1>0, <3>1 DEF TypeOK
    <3>3. IdOf[connections[t][id]] = id /\ conn[t][connections[t][id]].sock # "none"
      BY <3>1 DEF IInv, TableInv
    <3> QED
      BY <1>6, <1>8, <3>1, <3>2, <3>3
  <2> QED
    BY <2>1, <2>2
<1>12. LiveIsTracked'
  <2> SUFFICES ASSUME NEW t \in Side, NEW c \in Conns, ~crashed'[t], Live(t, c)'
               PROVE  /\ connections'[t][IdOf[c]] = c
                      /\ mux'[t] = session'[t] /\ session'[t] # 0
    BY DEF LiveIsTracked
  <2>1. CASE t = "out" /\ c = d
    BY <1>2, <1>7, <2>1
  <2>2. CASE ~(t = "out" /\ c = d)
    <3>1. Live(t, c) /\ connections[t][IdOf[c]] = c /\ mux[t] = session[t] /\ session[t] # 0
      BY <1>2, <1>8, <2>2, LiveIsOnline
    <3>2. t = "out" => IdOf[c] # IdOf[d]
      BY <1>3, <2>2 DEF DistinctIds
    <3>3. IdOf[c] \in Ids
      BY TunnelAssumption
    <3> QED
      BY <1>2, <1>7, <3>1, <3>2, <3>3 DEF Side
  <2> QED
    BY <2>1, <2>2
<1>13. ObjectInv'
  <2> SUFFICES ASSUME NEW t \in Side, NEW c \in Conns
               PROVE  LET o == conn'[t][c] IN
                      /\ o.sock = "none" =>
                           /\ produced'[t][c] = 0 /\ delivered'[t][c] = << >>
                           /\ o.messages = << >> /\ ~o.connected
                           /\ t = "in" => conn'["out"][c].sock = "none"
                      /\ o.sock = "connecting" =>
                           /\ t = "out" /\ ~o.connected /\ delivered'[t][c] = << >>
                           /\ \A n \in DOMAIN o.messages : o.messages[n] = <<c, n>>
                      /\ o.sock = "open" => o.connected /\ o.messages = << >>
    BY DEF ObjectInv
  <2>1. CASE t = "out" /\ c = d
    BY <1>6, <2>1
  <2>2. CASE ~(t = "out" /\ c = d)
    <3>1. conn'[t][c] = conn[t][c] /\ produced' = produced /\ delivered' = delivered
      BY <1>4, <1>8, <2>2
    <3>2. conn[t][c].sock = "none" /\ t = "in" => c # d
      BY <1>3
    <3>3. c # d => conn'["out"][c] = conn["out"][c]
      BY <1>5
    <3> QED
      BY <3>1, <3>2, <3>3 DEF IInv, ObjectInv
  <2> QED
    BY <2>1, <2>2
<1>14. SameSession'
  <2> SUFFICES ASSUME NEW c \in Conns, ~crashed["in"], ~crashed["out"],
                      Live("in", c)', Live("out", c)'
               PROVE  session["in"] = session["out"]
    BY <1>2 DEF SameSession
  <2>1. CASE c = d
    <3>1. ~HasLeft("out", session["out"])
      BY DEF HasLeft
    <3>2. Live("in", c)
      BY <1>0, <1>8
    <3> QED
      BY <1>2, <1>3, <2>1, <3>1, <3>2 DEF IInv, PendingInv
  <2>2. CASE c # d
    BY <1>0, <1>8, <2>2 DEF IInv, SameSession
  <2> QED
    BY <2>1, <2>2
<1>15. InOrder'
  BY <1>4 DEF IInv, InOrder
<1> QED
  BY <1>2, <1>9, <1>10, <1>11, <1>12, <1>13, <1>14, <1>15 DEF IInv

LEMMA ReceiveCloseStep ==
  ASSUME IInv, TypeOK', NEW s \in Side, handleSocketMultiplexerOnClose(s),
         NEW m, m = Head(Incoming(s)), NEW d, d = connections[s][m.id]
  PROVE  IInv'
<1>0. TypeOK /\ "in" \in Side /\ "out" \in Side /\ "in" # "out"
  BY DEF IInv, Side
<1>1. Receives(s, "CLOSE")
  BY DEF handleSocketMultiplexerOnClose
<1>2. /\ ~crashed[s] /\ session[s] \in Session /\ session[s] # 0
      /\ mux[s] = session[s]
      /\ Incoming(s) # << >> /\ m \in Message /\ m.type = "CLOSE" /\ m.id \in Ids
      /\ chan' = Consumed(s)
      /\ UNCHANGED <<running, opened, accepted, session, working, mux, stops, crashed>>
      /\ MuxInv' /\ CrashOnlyWhenStopped'
  BY <1>0, <1>1, ReceivesFacts DEF Message
<1>3. UNCHANGED <<produced, delivered>>
  BY DEF handleSocketMultiplexerOnClose
<1>4. \/ d = None /\ UNCHANGED <<conn, connections>>
      \/ /\ d # None
         /\ conn' = [conn EXCEPT ![s][d] = [destroy(conn[s][d]) EXCEPT !.wasClosed = TRUE]]
         /\ connections' = [connections EXCEPT ![s][m.id] = None]
  BY DEF handleSocketMultiplexerOnClose
<1>5. /\ \A t \in Side, c \in Conns :
           /\ Live(t, c)' => Live(t, c) /\ conn'[t][c] = conn[t][c]
           /\ conn'[t][c].sock = "none" <=> conn[t][c].sock = "none"
           /\ conn'[t][c].messages = conn[t][c].messages
           /\ conn'[t][c].connected = conn[t][c].connected
           /\ conn'[t][c].sock \in {conn[t][c].sock, "destroyed"}
      /\ \A t \in Side, id \in Ids :
           \/ connections'[t][id] = connections[t][id]
           \/ connections'[t][id] = None /\ \A c \in Conns : IdOf[c] = id => ~Live(t, c)'
      /\ \A t \in Side : t # s => conn'[t] = conn[t]
  <2>1. CASE d = None
    BY <1>4, <2>1 DEF Live
  <2>2. CASE d # None
    <3>1. d \in Conns /\ IdOf[d] = m.id
      <4>1. d \in Conns \cup {None}
        BY <1>0, <1>2 DEF TypeOK
      <4>2. IdOf[d] = m.id
        BY <1>2, <2>2 DEF IInv, TableInv
      <4> QED
        BY <2>2, <4>1, <4>2
    <3>2. conn[s][d] \in ConnectionObject
      BY <1>0, <3>1, SMTT(30) DEF TypeOK
    <3>3. PICK o : /\ o = [destroy(conn[s][d]) EXCEPT !.wasClosed = TRUE]
                   /\ conn' = [conn EXCEPT ![s][d] = o]
      BY <1>4, <2>2
    <3>4. destroy(conn[s][d]) \in ConnectionObject
      BY <3>2, DestroyType
    <3>5. /\ o.sock = destroy(conn[s][d]).sock
          /\ o.messages = destroy(conn[s][d]).messages
          /\ o.connected = destroy(conn[s][d]).connected
      BY <3>3, <3>4 DEF ConnectionObject
    <3>6. /\ o.sock \notin LiveSocket
          /\ o.sock \in {conn[s][d].sock, "destroyed"}
          /\ o.sock = "none" <=> conn[s][d].sock = "none"
          /\ o.messages = conn[s][d].messages
          /\ o.connected = conn[s][d].connected
      BY <3>2, <3>5, DestroyFields
    <3>7. /\ conn'[s][d] = o
          /\ \A t \in Side : t # s => conn'[t] = conn[t]
          /\ \A c \in Conns : c # d => conn'[s][c] = conn[s][c]
      <4>1. conn \in [Side -> [Conns -> ConnectionObject]]
        BY <1>0 DEF TypeOK
      <4> QED
        BY <3>1, <3>3, <4>1
    <3>8. /\ connections'[s][m.id] = None
          /\ \A t \in Side : t # s => connections'[t] = connections[t]
          /\ \A id \in Ids : id # m.id => connections'[s][id] = connections[s][id]
      <4>1. connections \in [Side -> [Ids -> Conns \cup {None}]]
        BY <1>0 DEF TypeOK
      <4> QED
        BY <1>2, <1>4, <2>2, <4>1
    <3>9. ASSUME NEW t \in Side, NEW c \in Conns
          PROVE  /\ Live(t, c)' => Live(t, c) /\ conn'[t][c] = conn[t][c]
                 /\ conn'[t][c].sock = "none" <=> conn[t][c].sock = "none"
                 /\ conn'[t][c].messages = conn[t][c].messages
                 /\ conn'[t][c].connected = conn[t][c].connected
                 /\ conn'[t][c].sock \in {conn[t][c].sock, "destroyed"}
      <4>1. CASE t = s /\ c = d
        BY <3>6, <3>7, <4>1 DEF Live
      <4>2. CASE ~(t = s /\ c = d)
        <5>1. conn'[t][c] = conn[t][c]
          BY <3>7, <4>2
        <5> QED
          BY <5>1 DEF Live
      <4> QED
        BY <4>1, <4>2
    <3>10. ~Live(s, d)'
      BY <3>6, <3>7 DEF Live
    <3>11. ASSUME NEW c \in Conns, IdOf[c] = m.id, Live(s, c)'
           PROVE  FALSE
      <4>1. connections[s][IdOf[c]] = c
        BY <1>2, <3>9, <3>11, LiveIsOnline
      <4> QED
        BY <3>10, <3>11, <4>1
    <3> QED
      BY <3>7, <3>8, <3>9, <3>11
  <2> QED
    BY <2>1, <2>2
<1>6. \A c \in Conns : ~IsData(m, c) /\ ~IsConnect(m, c)
  BY <1>2 DEF IsData, IsConnect
<1>7. \A t \in Side, c \in Conns : Received(t, c)' = Received(t, c)
  BY <1>0, <1>3, <1>5, Counts
<1>8. MessageInv' /\ OneConnect' /\ PendingInv'
  BY <1>0, <1>2, <1>3, <1>5, ConsumeKeepsChannels
<1>9. FlowInv'
  BY <1>2, <1>3, <1>5, <1>6, <1>7, ConsumeKeepsFlow
<1>10. TableInv'
  BY <1>5, TableKept
<1>11. LiveIsTracked'
  <2> SUFFICES ASSUME NEW t \in Side, NEW c \in Conns, ~crashed'[t], Live(t, c)'
               PROVE  /\ connections'[t][IdOf[c]] = c
                      /\ mux'[t] = session'[t] /\ session'[t] # 0
    BY DEF LiveIsTracked
  <2>1. Live(t, c) /\ connections[t][IdOf[c]] = c /\ mux[t] = session[t] /\ session[t] # 0
    BY <1>2, <1>5, LiveIsOnline
  <2>2. IdOf[c] \in Ids
    BY TunnelAssumption
  <2> QED
    BY <1>2, <1>5, <2>1, <2>2
<1>12. ObjectInv'
  BY <1>0, <1>3, <1>5 DEF IInv, ObjectInv
<1>13. SameSession' /\ InOrder'
  BY <1>0, <1>2, <1>3, <1>5 DEF IInv, SameSession, InOrder
<1> QED
  BY <1>2, <1>8, <1>9, <1>10, <1>11, <1>12, <1>13 DEF IInv

LEMMA ReceiveDataStep ==
  ASSUME IInv, TypeOK', DistinctIds, NEW s \in Side, handleSocketMultiplexerOnData(s),
         NEW m, m = Head(Incoming(s)), NEW d, NEW x, m.data = <<d, x>>
  PROVE  IInv'
<1>0. TypeOK /\ "in" \in Side /\ "out" \in Side /\ "in" # "out"
  BY DEF IInv, Side
<1>1. Receives(s, "DATA")
  BY DEF handleSocketMultiplexerOnData
<1>2. /\ ~crashed[s] /\ session[s] \in Session /\ session[s] # 0
      /\ mux[s] = session[s]
      /\ Incoming(s) # << >> /\ m \in Message /\ m.type = "DATA"
      /\ chan' = Consumed(s) /\ Incoming(s) = chan[s][session[s]]
      /\ 1 \in DOMAIN chan[s][session[s]] /\ m = chan[s][session[s]][1]
      /\ UNCHANGED <<running, opened, accepted, session, working, mux, stops, crashed>>
      /\ MuxInv' /\ CrashOnlyWhenStopped'
  BY <1>0, <1>1, ReceivesFacts
<1>3. /\ d \in Conns /\ x \in 1..MaxData /\ m.data \in Chunk /\ m.id \in Ids
      /\ IsData(m, d) /\ \A c \in Conns : IsData(m, c) <=> c = d
  BY <1>2 DEF Message, Chunk, IsData
<1>4. m.id = IdOf[d] /\ conn[Peer(s)][d].sock # "none"
  <2>1. m.data[1] = d
    OBVIOUS
  <2>2. GoodMessage(s, m)
    BY <1>2, MessageFacts
  <2> QED
    BY <1>2, <2>1, <2>2 DEF GoodMessage
<1>5. connections[s][m.id] \in {None, d}
  <2>1. connections[s][m.id] \in Conns \cup {None}
    <3>1. connections \in [Side -> [Ids -> Conns \cup {None}]]
      BY <1>0 DEF TypeOK
    <3> QED
      BY <1>3, <3>1
  <2>2. connections[s][m.id] # None => IdOf[connections[s][m.id]] = m.id
    BY <1>3 DEF IInv, TableInv
  <2> QED
    BY <1>3, <1>4, <2>1, <2>2 DEF DistinctIds
<1>6. UNCHANGED <<connections, produced>>
  BY DEF handleSocketMultiplexerOnData
<1>7. connections[s][m.id] = d => conn[s][d].sock # "none"
  BY <1>3, TunnelAssumption DEF IInv, TableInv
<1>8. /\ conn[s][d] \in ConnectionObject /\ delivered[s][d] \in Seq(Chunk)
      /\ conn[s][d].messages \in Seq(Chunk)
      /\ conn \in [Side -> [Conns -> ConnectionObject]]
      /\ delivered \in [Side -> [Conns -> Seq(Chunk)]]
  BY <1>0, <1>3, CountTypes DEF TypeOK
<1>9. Live(s, d) => /\ connections[s][m.id] = d
                    /\ x = Received(s, d) + 1
                    /\ Received(s, d) < produced[Peer(s)][d]
  <2> SUFFICES ASSUME Live(s, d)
               PROVE  /\ connections[s][m.id] = d
                      /\ x = Received(s, d) + 1
                      /\ Received(s, d) < produced[Peer(s)][d]
    OBVIOUS
  <2>1. connections[s][m.id] = d
    BY <1>2, <1>3, <1>4, LiveIsOnline
  <2>2. Exact(chan[s][session[s]], d, Received(s, d), produced[Peer(s)][d])
    BY <1>2, <1>3 DEF IInv, FlowInv
  <2>3. /\ chan[s][session[s]] \in Seq(Message) /\ chan[s][session[s]] # << >>
        /\ Received(s, d) \in Nat /\ produced[Peer(s)][d] \in Nat
        /\ IsData(Head(chan[s][session[s]]), d)
    BY <1>0, <1>2, <1>3, CountTypes DEF TypeOK
  <2> QED
    BY <1>2, <2>1, <2>2, <2>3, ExactTake
(* What the handler does: nothing, or one chunk more is written or waits.  *)
<1>10. \/ /\ UNCHANGED <<conn, delivered>> /\ ~Live(s, d)
       \/ /\ conn[s][d].sock = "open" /\ conn' = conn
          /\ delivered' = [delivered EXCEPT ![s][d] = Append(delivered[s][d], m.data)]
       \/ /\ conn[s][d].sock \notin {"none", "open"} /\ ~conn[s][d].connected
          /\ conn' = [conn EXCEPT ![s][d] =
                        [conn[s][d] EXCEPT !.messages = Append(conn[s][d].messages, m.data)]]
          /\ delivered' = delivered
  <2>1. CASE connections[s][m.id] = None
    <3>1. UNCHANGED <<conn, delivered>>
      BY <1>3, <2>1, TunnelAssumption DEF handleSocketMultiplexerOnData
    <3> QED
      BY <1>3, <1>9, <2>1, <3>1, TunnelAssumption
  <2>2. CASE connections[s][m.id] = d /\ conn[s][d].connected
    <3>1. /\ conn' = conn
          /\ delivered' = IF conn[s][d].sock = "open"
                          THEN [delivered EXCEPT ![s][d] = Append(delivered[s][d], m.data)]
                          ELSE delivered
      BY <1>3, <2>2, TunnelAssumption DEF handleSocketMultiplexerOnData
    <3>2. conn[s][d].sock # "connecting"
      BY <1>3, <2>2 DEF IInv, ObjectInv
    <3> QED
      BY <3>1, <3>2 DEF Live, LiveSocket
  <2>3. CASE connections[s][m.id] = d /\ ~conn[s][d].connected
    <3>1. /\ conn' = [conn EXCEPT ![s][d].messages = Append(@, m.data)]
          /\ delivered' = delivered
      BY <1>3, <2>3, TunnelAssumption DEF handleSocketMultiplexerOnData
    <3>2. conn' = [conn EXCEPT ![s][d] =
                     [conn[s][d] EXCEPT !.messages = Append(conn[s][d].messages, m.data)]]
      BY <3>1
    <3>3. conn[s][d].sock # "open"
      BY <1>3, <2>3 DEF IInv, ObjectInv
    <3> QED
      BY <1>7, <2>3, <3>1, <3>2, <3>3
  <2> QED
    BY <1>5, <2>1, <2>2, <2>3
<1>11. /\ \A t \in Side : t # s => conn'[t] = conn[t] /\ delivered'[t] = delivered[t]
       /\ \A c \in Conns : c # d =>
            conn'[s][c] = conn[s][c] /\ delivered'[s][c] = delivered[s][c]
       /\ conn'[s][d].sock = conn[s][d].sock /\ conn'[s][d].connected = conn[s][d].connected
       /\ \/ /\ ~Live(s, d)
             /\ conn'[s][d] = conn[s][d] /\ delivered'[s][d] = delivered[s][d]
          \/ /\ conn[s][d].sock = "open" /\ conn'[s][d] = conn[s][d]
             /\ delivered'[s][d] = Append(delivered[s][d], m.data)
          \/ /\ conn[s][d].sock \notin {"none", "open"}
             /\ delivered'[s][d] = delivered[s][d]
             /\ conn'[s][d].messages = Append(conn[s][d].messages, m.data)
  <2>1. CASE UNCHANGED <<conn, delivered>> /\ ~Live(s, d)
    BY <2>1
  <2>2. CASE /\ conn[s][d].sock = "open" /\ conn' = conn
             /\ delivered' = [delivered EXCEPT ![s][d] = Append(delivered[s][d], m.data)]
    BY <1>3, <1>8, <2>2
  <2>3. CASE /\ conn[s][d].sock \notin {"none", "open"} /\ ~conn[s][d].connected
             /\ conn' = [conn EXCEPT ![s][d] =
                  [conn[s][d] EXCEPT !.messages = Append(conn[s][d].messages, m.data)]]
             /\ delivered' = delivered
    <3>1. PICK o : /\ o = [conn[s][d] EXCEPT !.messages = Append(conn[s][d].messages, m.data)]
                   /\ conn' = [conn EXCEPT ![s][d] = o]
      BY <2>3
    <3>2. /\ conn'[s][d] = o
          /\ \A t \in Side : t # s => conn'[t] = conn[t]
          /\ \A c \in Conns : c # d => conn'[s][c] = conn[s][c]
      BY <1>3, <1>8, <3>1
    <3>3. /\ o.sock = conn[s][d].sock /\ o.connected = conn[s][d].connected
          /\ o.messages = Append(conn[s][d].messages, m.data)
      BY <1>8, <3>1 DEF ConnectionObject
    <3> QED
      BY <2>3, <3>2, <3>3
  <2> QED
    BY <1>10, <2>1, <2>2, <2>3
<1>12. \A t \in Side, c \in Conns :
         /\ conn'[t][c].sock = conn[t][c].sock
         /\ conn'[t][c].connected = conn[t][c].connected
         /\ Live(t, c)' <=> Live(t, c)
  <2> SUFFICES ASSUME NEW t \in Side, NEW c \in Conns
               PROVE  /\ conn'[t][c].sock = conn[t][c].sock
                      /\ conn'[t][c].connected = conn[t][c].connected
    BY DEF Live
  <2>1. CASE t = s /\ c = d
    BY <1>11, <2>1
  <2>2. CASE ~(t = s /\ c = d)
    BY <1>11, <2>2
  <2> QED
    BY <2>1, <2>2
<1>13. \A c \in Conns : c # d => Received(s, c)' = Received(s, c)
  BY <1>0, <1>11, Counts
<1>14. Live(s, d) => Received(s, d)' = Received(s, d) + 1
  BY <1>0, <1>3, <1>11, Counts
<1>15. MessageInv' /\ OneConnect' /\ PendingInv'
  BY <1>0, <1>2, <1>6, <1>12, ConsumeKeepsChannels
<1>16. FlowInv'
  <2>1. \A c \in Conns : ~crashed[s] /\ Live(s, c)' =>
          \/ Live(s, c) /\ ~IsData(m, c) /\ Received(s, c)' = Received(s, c)
          \/ Live(s, c) /\ IsData(m, c) /\ Received(s, c)' = Received(s, c) + 1
    BY <1>3, <1>12, <1>13, <1>14
  <2> QED
    BY <1>2, <1>6, <1>11, <2>1, ConsumeKeepsFlow
<1>17. TableInv'
  BY <1>6, <1>12, TableKept
<1>18. LiveIsTracked' /\ SameSession'
  BY <1>0, <1>2, <1>6, <1>12 DEF IInv, LiveIsTracked, SameSession
<1>19. InOrder'
  <2> SUFFICES ASSUME NEW t \in Side, NEW c \in Conns
               PROVE  /\ Len(delivered'[t][c]) <= produced[Peer(t)][c]
                      /\ \A n \in 1..Len(delivered'[t][c]) : delivered'[t][c][n] = <<c, n>>
    BY <1>6 DEF InOrder
  <2>1. CASE delivered'[t][c] = delivered[t][c]
    BY <2>1 DEF IInv, InOrder
  <2>2. CASE t = s /\ c = d /\ conn[s][d].sock = "open"
             /\ delivered'[s][d] = Append(delivered[s][d], m.data)
    <3>1. Live(s, d) /\ conn[s][d].messages = << >>
      BY <1>3, <2>2 DEF Live, LiveSocket, IInv, ObjectInv
    <3> DEFINE q == delivered[s][d]
    <3>2. Len(q) \in Nat /\ Received(s, d) = Len(q)
      BY <1>0, <1>3, <1>8, <3>1 DEF Received
    <3>3. produced[Peer(s)][d] \in Nat
      BY <1>0, <1>3, CountTypes
    <3>4. m.data = <<d, Len(q) + 1>> /\ Len(q) + 1 <= produced[Peer(s)][d]
      BY <1>3, <1>9, <3>1, <3>2, <3>3
    <3>5. \A n \in 1..Len(q) : q[n] = <<d, n>>
      BY <1>3 DEF IInv, InOrder
    <3>6. /\ Len(Append(q, m.data)) = Len(q) + 1
          /\ \A n \in 1..(Len(q) + 1) :
               Append(q, m.data)[n] = IF n = Len(q) + 1 THEN m.data ELSE q[n]
      BY <1>3, <1>8, AppendProperties
    <3> HIDE DEF q
    <3>7. \A n \in 1..(Len(q) + 1) : Append(q, m.data)[n] = <<d, n>>
      BY <3>2, <3>4, <3>5, <3>6
    <3> QED
      BY <2>2, <3>4, <3>6, <3>7 DEF q
  <2> QED
    BY <1>11, <2>1, <2>2
<1>20. ObjectInv'
  <2> SUFFICES ASSUME NEW t \in Side, NEW c \in Conns
               PROVE  LET o == conn'[t][c] IN
                      /\ o.sock = "none" =>
                           /\ produced'[t][c] = 0 /\ delivered'[t][c] = << >>
                           /\ o.messages = << >> /\ ~o.connected
                           /\ t = "in" => conn'["out"][c].sock = "none"
                      /\ o.sock = "connecting" =>
                           /\ t = "out" /\ ~o.connected /\ delivered'[t][c] = << >>
                           /\ \A n \in DOMAIN o.messages : o.messages[n] = <<c, n>>
                      /\ o.sock = "open" => o.connected /\ o.messages = << >>
    BY DEF ObjectInv
  <2>1. CASE conn'[t][c] = conn[t][c] /\ delivered'[t][c] = delivered[t][c]
    BY <1>0, <1>6, <1>12, <2>1 DEF IInv, ObjectInv
  <2>2. CASE t = s /\ c = d /\ conn[s][d].sock = "open" /\ conn'[s][d] = conn[s][d]
    BY <1>12, <2>2 DEF IInv, ObjectInv
  <2>3. CASE /\ t = s /\ c = d /\ conn[s][d].sock \notin {"none", "open"}
             /\ delivered'[s][d] = delivered[s][d]
             /\ conn'[s][d].messages = Append(conn[s][d].messages, m.data)
    <3> DEFINE q == conn[s][d].messages
    <3>1. SUFFICES ASSUME conn[s][d].sock = "connecting"
                   PROVE  /\ s = "out" /\ ~conn[s][d].connected /\ delivered[s][d] = << >>
                          /\ \A n \in DOMAIN Append(q, m.data) : Append(q, m.data)[n] = <<d, n>>
      BY <1>12, <2>3
    <3>2. /\ s = "out" /\ ~conn[s][d].connected
          /\ delivered[s][d] = << >> /\ \A n \in DOMAIN q : q[n] = <<d, n>>
          /\ q \in Seq(Chunk) /\ Len(q) \in Nat
      BY <1>3, <1>8, <3>1, LenProperties DEF IInv, ObjectInv
    <3>3. Live(s, d) /\ Received(s, d) = Len(q)
      <4>1. Len(delivered[s][d]) = 0
        BY <3>2
      <4>2. \A n \in Nat : 0 + n = n
        OBVIOUS
      <4> HIDE DEF q
      <4>3. Received(s, d) = Len(delivered[s][d]) + Len(q)
        BY DEF Received, q
      <4> QED
        BY <3>1, <3>2, <4>1, <4>2, <4>3 DEF Live, LiveSocket
    <3>4. m.data = <<d, Len(q) + 1>>
      BY <1>3, <1>9, <3>3
    <3>5. /\ DOMAIN q = 1..Len(q) /\ DOMAIN Append(q, m.data) = 1..(Len(q) + 1)
          /\ \A n \in 1..(Len(q) + 1) :
               Append(q, m.data)[n] = IF n = Len(q) + 1 THEN m.data ELSE q[n]
      BY <1>3, <1>8, AppendProperties, LenProperties
    <3> HIDE DEF q
    <3> QED
      BY <3>2, <3>4, <3>5
  <2> QED
    BY <1>11, <2>1, <2>2, <2>3
<1> QED
  BY <1>2, <1>15, <1>16, <1>17, <1>18, <1>19, <1>20 DEF IInv

-----------------------------------------------------------------------------
(* A socket ends, or a dead one is forgotten, with or without a CLOSE to   *)
(* the other node.                                                         *)

LEMMA WeakenStep ==
  ASSUME IInv, TypeOK',
         UNCHANGED <<produced, delivered, session, opened, accepted, mux>>,
         \A t \in Side : crashed[t] => crashed'[t],
         \A t \in Side, c \in Conns :
           /\ Live(t, c)' => Live(t, c) /\ conn'[t][c] = conn[t][c]
           /\ conn'[t][c].sock = "none" <=> conn[t][c].sock = "none"
           /\ conn'[t][c].messages = conn[t][c].messages
           /\ conn[t][c].sock = "none" => conn'[t][c].connected = conn[t][c].connected,
         \A t \in Side, id \in Ids : connections'[t][id] \in {None, connections[t][id]},
         \A t \in Side, c \in Conns :
           ~crashed[t] /\ Live(t, c)' => connections'[t][IdOf[c]] = connections[t][IdOf[c]],
         \A t \in Side, k \in Session :
           \/ chan'[t][k] = chan[t][k]
           \/ \E m \in Message : m.type = "CLOSE" /\ chan'[t][k] = Append(chan[t][k], m)
  PROVE  /\ TableInv' /\ LiveIsTracked' /\ ObjectInv' /\ MessageInv' /\ OneConnect'
         /\ PendingInv' /\ FlowInv' /\ SameSession' /\ InOrder'
<1>0. TypeOK /\ "in" \in Side /\ "out" \in Side
  BY DEF IInv, Side
<1>1. \A t \in Side, k \in Session : \A i \in DOMAIN chan'[t][k] :
        \/ i \in DOMAIN chan[t][k] /\ chan'[t][k][i] = chan[t][k][i]
        \/ chan'[t][k][i].type = "CLOSE"
  <2> SUFFICES ASSUME NEW t \in Side, NEW k \in Session, NEW i \in DOMAIN chan'[t][k],
                      NEW m \in Message, m.type = "CLOSE",
                      chan'[t][k] = Append(chan[t][k], m)
               PROVE  \/ i \in DOMAIN chan[t][k] /\ chan'[t][k][i] = chan[t][k][i]
                      \/ chan'[t][k][i].type = "CLOSE"
    OBVIOUS
  <2>1. chan[t][k] \in Seq(Message)
    BY <1>0 DEF TypeOK
  <2> QED
    BY <2>1, AppendProperties
<1>2. \A t \in Side, k \in Session, c \in Conns : \A lo, hi \in Nat :
        Exact(chan[t][k], c, lo, hi) => Exact(chan'[t][k], c, lo, hi)
  <2> SUFFICES ASSUME NEW t \in Side, NEW k \in Session, NEW c \in Conns,
                      NEW lo \in Nat, NEW hi \in Nat, Exact(chan[t][k], c, lo, hi)
               PROVE  Exact(chan'[t][k], c, lo, hi)
    OBVIOUS
  <2>1. chan[t][k] \in Seq(Message)
    BY <1>0 DEF TypeOK
  <2>2. CASE chan'[t][k] = chan[t][k]
    BY <2>2
  <2>3. ASSUME NEW m \in Message, m.type = "CLOSE", chan'[t][k] = Append(chan[t][k], m)
        PROVE  Exact(chan'[t][k], c, lo, hi)
    <3>1. ~IsData(m, c)
      BY <2>3 DEF IsData
    <3> QED
      BY <2>1, <2>3, <3>1, ExactOther
  <2> QED
    BY <2>2, <2>3
<1>3. \A t \in Side, k \in Session : \A i \in DOMAIN chan'[t][k] :
        (\E c : IsData(chan'[t][k][i], c) \/ IsConnect(chan'[t][k][i], c))
          => i \in DOMAIN chan[t][k] /\ chan'[t][k][i] = chan[t][k][i]
  BY <1>1 DEF IsData, IsConnect
<1>4. TableInv'
  BY TableKept
<1>5. LiveIsTracked'
  BY DEF IInv, LiveIsTracked
<1>6. ObjectInv'
  <2>1. \A t \in Side, c \in Conns : conn'[t][c].sock \in {"connecting", "open"} =>
          conn'[t][c] = conn[t][c]
    BY DEF Live, LiveSocket
  <2> QED
    BY <1>0, <2>1 DEF IInv, ObjectInv
<1>7. MessageInv'
  <2>1. ASSUME NEW t \in Side, NEW k \in Session, NEW i \in DOMAIN chan'[t][k],
               NEW n, n = chan'[t][k][i]
        PROVE  GoodMessage(t, n)'
    <3>1. CASE i \in DOMAIN chan[t][k] /\ n = chan[t][k][i]
      <4>1. n.type = "CONNECT" => n.conn \in Conns
        BY <1>0, <3>1, MessageParts
      <4> QED
        BY <1>0, <3>1, <4>1, MessageKept
    <3>2. CASE n.type = "CLOSE"
      BY <3>2 DEF GoodMessage
    <3> QED
      BY <1>1, <2>1, <3>1, <3>2
  <2> QED
    BY <2>1, MessagesGood
<1>8. OneConnect'
  <2> SUFFICES ASSUME NEW c \in Conns, NEW k \in Session, NEW l \in Session,
                      NEW i \in DOMAIN chan'["out"][k], NEW j \in DOMAIN chan'["out"][l],
                      IsConnect(chan'["out"][k][i], c), IsConnect(chan'["out"][l][j], c)
               PROVE  k = l /\ i = j
    BY DEF OneConnect, IsConnect
  <2>1. i \in DOMAIN chan["out"][k] /\ IsConnect(chan["out"][k][i], c)
    BY <1>0, <1>3, ZenonT(30)
  <2>2. j \in DOMAIN chan["out"][l] /\ IsConnect(chan["out"][l][j], c)
    BY <1>0, <1>3, ZenonT(30)
  <2> QED
    BY <2>1, <2>2 DEF IInv, OneConnect
<1>9. PendingInv'
  <2> SUFFICES ASSUME NEW c \in Conns, NEW k \in Session, NEW i \in DOMAIN chan'["out"][k],
                      IsConnect(chan'["out"][k][i], c), ~HasLeft("out", k)'
               PROVE  /\ Exact(chan'["out"][k], c, 0, produced["in"][c])
                      /\ \A j \in DOMAIN chan'["out"][k] :
                           IsData(chan'["out"][k][j], c) => i < j
                      /\ ~crashed'["in"] /\ Live("in", c)' => k = session["in"]
    BY DEF PendingInv, IsConnect, IsData, Exact
  <2>1. i \in DOMAIN chan["out"][k] /\ IsConnect(chan["out"][k][i], c) /\ ~HasLeft("out", k)
    BY <1>0, <1>3 DEF HasLeft
  <2>2. /\ Exact(chan["out"][k], c, 0, produced["in"][c])
        /\ \A j \in DOMAIN chan["out"][k] : IsData(chan["out"][k][j], c) => i < j
        /\ ~crashed["in"] /\ Live("in", c) => k = session["in"]
    BY <2>1 DEF IInv, PendingInv
  <2>3. 0 \in Nat /\ produced["in"][c] \in Nat
    BY <1>0, CountTypes
  <2> QED
    BY <1>0, <1>2, <1>3, <2>2, <2>3, ZenonT(30)
<1>10. FlowInv'
  <2> SUFFICES ASSUME NEW t \in Side, NEW c \in Conns, ~crashed'[t], Live(t, c)'
               PROVE  /\ Received(t, c)' <= produced[Peer(t)][c]
                      /\ Exact(chan'[t][session[t]], c, Received(t, c)', produced[Peer(t)][c])
    BY DEF FlowInv
  <2>1. Live(t, c) /\ ~crashed[t] /\ session[t] \in Session
    BY LiveIsOnline
  <2>2. Received(t, c)' = Received(t, c) /\ Received(t, c) \in Nat /\ produced[Peer(t)][c] \in Nat
    BY <1>0, Counts, CountTypes
  <2> QED
    BY <1>2, <2>1, <2>2 DEF IInv, FlowInv
<1>11. SameSession' /\ InOrder'
  BY <1>0 DEF IInv, SameSession, InOrder
<1> QED
  BY <1>4, <1>5, <1>6, <1>7, <1>8, <1>9, <1>10, <1>11

LEMMA SocketEndsStep ==
  ASSUME IInv, TypeOK', NEW s \in Side, NEW d \in Conns, SocketEnds(s, d)
  PROVE  IInv'
<1>0. TypeOK
  BY DEF IInv
<1>1. /\ Live(s, d)
      /\ conn' = [conn EXCEPT ![s][d] = [conn[s][d] EXCEPT !.sock = "ended"]]
      /\ UNCHANGED <<linkVars, nodeVars, connections, produced, delivered>>
  BY DEF SocketEnds
<1>2. UNCHANGED <<chan, session, opened, accepted, working, mux, crashed>>
  BY <1>1 DEF linkVars, nodeVars
<1>3. conn \in [Side -> [Conns -> ConnectionObject]] /\ conn[s][d] \in ConnectionObject
  BY <1>0 DEF TypeOK
<1>4. /\ conn'[s][d] = [conn[s][d] EXCEPT !.sock = "ended"]
      /\ \A t \in Side, c \in Conns : ~(t = s /\ c = d) => conn'[t][c] = conn[t][c]
  BY <1>1, <1>3
<1>5. /\ conn'[s][d].sock = "ended" /\ conn[s][d].sock # "none" /\ ~Live(s, d)'
      /\ conn'[s][d].messages = conn[s][d].messages
  BY <1>1, <1>3, <1>4 DEF ConnectionObject, Live, LiveSocket
<1>6. \A t \in Side, c \in Conns :
        /\ Live(t, c)' => Live(t, c) /\ conn'[t][c] = conn[t][c]
        /\ conn'[t][c].sock = "none" <=> conn[t][c].sock = "none"
        /\ conn'[t][c].messages = conn[t][c].messages
        /\ conn[t][c].sock = "none" => conn'[t][c].connected = conn[t][c].connected
  BY <1>4, <1>5 DEF Live
<1>7. MuxInv' /\ CrashOnlyWhenStopped'
  BY <1>2 DEF IInv, MuxInv, Listens, CrashOnlyWhenStopped
<1>8. /\ \A t \in Side : crashed[t] => crashed'[t]
      /\ \A t \in Side, id \in Ids : connections'[t][id] \in {None, connections[t][id]}
      /\ \A t \in Side, c \in Conns :
           ~crashed[t] /\ Live(t, c)' => connections'[t][IdOf[c]] = connections[t][IdOf[c]]
      /\ \A t \in Side, k \in Session : chan'[t][k] = chan[t][k]
  BY <1>1, <1>2
<1> QED
  BY <1>1, <1>2, <1>6, <1>7, <1>8, WeakenStep DEF IInv

(* What sendMessage does to the channels.                                  *)
LEMMA SendEffect ==
  ASSUME TypeOK, NEW s \in Side, NEW m \in Message, sendMessage(s, m)
  PROVE  \/ /\ mux[s] = 0 /\ chan' = chan /\ crashed' = [crashed EXCEPT ![s] = TRUE]
         \/ /\ mux[s] \in Session /\ crashed' = crashed
            /\ \A t \in Side, k \in Session :
                 ~(t = Peer(s) /\ k = mux[s]) => chan'[t][k] = chan[t][k]
            /\ chan'[Peer(s)][mux[s]] =
                 IF HasLeft(Peer(s), mux[s]) THEN chan[Peer(s)][mux[s]]
                 ELSE Append(chan[Peer(s)][mux[s]], m)
<1>1. CASE mux[s] = 0
  BY <1>1 DEF sendMessage
<1>2. CASE mux[s] # 0
  <2>1. mux[s] \in Session /\ Peer(s) \in Side
    BY <1>2, PeerType DEF TypeOK, Session
  <2>2. chan \in [Side -> [Session -> Seq(Message)]]
    BY DEF TypeOK
  <2>3. crashed' = crashed /\ chan' = Posted(Peer(s), mux[s], m)
    BY <1>2 DEF sendMessage
  <2>4. CASE HasLeft(Peer(s), mux[s])
    BY <2>1, <2>3, <2>4 DEF Posted
  <2>5. CASE ~HasLeft(Peer(s), mux[s])
    <3>1. PICK q : /\ q = Append(chan[Peer(s)][mux[s]], m)
                   /\ chan' = [chan EXCEPT ![Peer(s)][mux[s]] = q]
      BY <2>3, <2>5 DEF Posted
    <3>2. /\ chan'[Peer(s)][mux[s]] = q
          /\ \A t \in Side, k \in Session :
               ~(t = Peer(s) /\ k = mux[s]) => chan'[t][k] = chan[t][k]
      BY <2>1, <2>2, <3>1
    <3> QED
      BY <2>1, <2>3, <2>5, <3>1, <3>2
  <2> QED
    BY <2>4, <2>5
<1> QED
  BY <1>1, <1>2

(* The multiplexer has a session whenever the transport has, or the node   *)
(* was stopped.                                                            *)
LEMMA SendCrash ==
  ASSUME IInv, NEW s \in Side, session[s] # 0, mux[s] = 0, UNCHANGED working,
         crashed' = [crashed EXCEPT ![s] = TRUE]
  PROVE  CrashOnlyWhenStopped' /\ crashed'[s] /\ \A t \in Side : crashed[t] => crashed'[t]
<1>1. working[s] \in {"stopping", "idle"}
  BY DEF IInv, MuxInv, Listens, TypeOK, WorkingState
<1> QED
  BY <1>1 DEF IInv, TypeOK, CrashOnlyWhenStopped

LEMMA SocketCloseStep ==
  ASSUME IInv, TypeOK', DistinctIds,
         NEW s \in Side, NEW d \in Conns, handleConnectionSocketOnClose(s, d)
  PROVE  IInv'
<1>0. TypeOK
  BY DEF IInv
<1>1. /\ ~crashed[s] /\ Dead(s, d)
      /\ conn' = [conn EXCEPT ![s][d] =
                    [conn[s][d] EXCEPT !.closed = TRUE, !.connected = FALSE]]
      /\ UNCHANGED <<running, opened, accepted, session, working, mux, stops,
                     produced, delivered>>
  BY DEF handleConnectionSocketOnClose
<1>2. conn \in [Side -> [Conns -> ConnectionObject]] /\ conn[s][d] \in ConnectionObject
  BY <1>0 DEF TypeOK
<1>3. /\ conn'[s][d] = [conn[s][d] EXCEPT !.closed = TRUE, !.connected = FALSE]
      /\ \A t \in Side, c \in Conns : ~(t = s /\ c = d) => conn'[t][c] = conn[t][c]
  BY <1>1, <1>2
<1>4. /\ conn'[s][d].sock = conn[s][d].sock /\ conn[s][d].sock # "none"
      /\ conn'[s][d].messages = conn[s][d].messages /\ ~Live(s, d)'
  BY <1>1, <1>2, <1>3 DEF ConnectionObject, Live, Dead, LiveSocket, DeadSocket
<1>5. \A t \in Side, c \in Conns :
        /\ Live(t, c)' => Live(t, c) /\ conn'[t][c] = conn[t][c]
        /\ conn'[t][c].sock = "none" <=> conn[t][c].sock = "none"
        /\ conn'[t][c].messages = conn[t][c].messages
        /\ conn[t][c].sock = "none" => conn'[t][c].connected = conn[t][c].connected
  BY <1>3, <1>4 DEF Live
<1>6. MuxInv'
  BY <1>1 DEF IInv, MuxInv, Listens
<1>7. CASE UNCHANGED <<chan, connections, crashed>>
  <2>1. CrashOnlyWhenStopped'
    BY <1>1, <1>7 DEF IInv, CrashOnlyWhenStopped
  <2>2. /\ \A t \in Side : crashed[t] => crashed'[t]
        /\ \A t \in Side, id \in Ids : connections'[t][id] \in {None, connections[t][id]}
        /\ \A t \in Side, c \in Conns :
             ~crashed[t] /\ Live(t, c)' => connections'[t][IdOf[c]] = connections[t][IdOf[c]]
        /\ \A t \in Side, k \in Session : chan'[t][k] = chan[t][k]
    BY <1>7
  <2> QED
    BY <1>1, <1>5, <1>6, <2>1, <2>2, WeakenStep DEF IInv
<1>8. CASE /\ session[s] # 0
           /\ connections' = [connections EXCEPT ![s][IdOf[d]] = None]
           /\ sendMessage(s, [type |-> "CLOSE", id |-> IdOf[d]])
  <2>1. PICK m \in Message : m.type = "CLOSE" /\ sendMessage(s, m)
    BY <1>8, MessageTypes
  <2>2. connections \in [Side -> [Ids -> Conns \cup {None}]] /\ IdOf[d] \in Ids
    BY <1>0, TunnelAssumption DEF TypeOK
  <2>3. /\ connections'[s][IdOf[d]] = None
        /\ \A t \in Side, id \in Ids :
             ~(t = s /\ id = IdOf[d]) => connections'[t][id] = connections[t][id]
    BY <1>8, <2>2
  <2>4. \A t \in Side, id \in Ids : connections'[t][id] \in {None, connections[t][id]}
    BY <2>3
  <2>5. \A t \in Side, c \in Conns :
          ~crashed[t] /\ Live(t, c)' => connections'[t][IdOf[c]] = connections[t][IdOf[c]]
    <3> SUFFICES ASSUME NEW t \in Side, NEW c \in Conns, Live(t, c)'
                 PROVE  connections'[t][IdOf[c]] = connections[t][IdOf[c]]
      OBVIOUS
    <3>1. t = s => IdOf[c] # IdOf[d]
      BY <1>4 DEF DistinctIds
    <3>2. IdOf[c] \in Ids
      BY TunnelAssumption
    <3> QED
      BY <2>3, <3>1, <3>2
  <2>6. /\ \A t \in Side : crashed[t] => crashed'[t]
        /\ CrashOnlyWhenStopped'
        /\ \A t \in Side, k \in Session :
             \/ chan'[t][k] = chan[t][k]
             \/ \E n \in Message : n.type = "CLOSE" /\ chan'[t][k] = Append(chan[t][k], n)
    <3>1. CASE mux[s] = 0 /\ chan' = chan /\ crashed' = [crashed EXCEPT ![s] = TRUE]
      BY <1>1, <1>8, <3>1, SendCrash
    <3>2. CASE /\ mux[s] \in Session /\ crashed' = crashed
               /\ \A t \in Side, k \in Session :
                    ~(t = Peer(s) /\ k = mux[s]) => chan'[t][k] = chan[t][k]
               /\ chan'[Peer(s)][mux[s]] =
                    IF HasLeft(Peer(s), mux[s]) THEN chan[Peer(s)][mux[s]]
                    ELSE Append(chan[Peer(s)][mux[s]], m)
      <4>1. CrashOnlyWhenStopped'
        BY <1>1, <3>2 DEF IInv, CrashOnlyWhenStopped
      <4> QED
        BY <2>1, <3>2, <4>1
    <3> QED
      BY <1>0, <2>1, <3>1, <3>2, SendEffect
  <2> QED
    BY <1>1, <1>5, <1>6, <2>4, <2>5, <2>6, WeakenStep DEF IInv
<1> QED
  BY <1>7, <1>8 DEF handleConnectionSocketOnClose

-----------------------------------------------------------------------------
(* Steps that send something about a live socket.                          *)

(* The channels after a message was appended to one of them, or to none.   *)
LEMMA AppendShift ==
  ASSUME TypeOK, NEW p \in Side, NEW k \in Session, NEW m \in Message,
         \A t \in Side, l \in Session : ~(t = p /\ l = k) => chan'[t][l] = chan[t][l],
         chan'[p][k] = IF HasLeft(p, k) THEN chan[p][k] ELSE Append(chan[p][k], m),
         NEW t \in Side, NEW l \in Session, NEW i \in DOMAIN chan'[t][l]
  PROVE  \/ i \in DOMAIN chan[t][l] /\ chan'[t][l][i] = chan[t][l][i]
         \/ /\ t = p /\ l = k /\ ~HasLeft(p, k) /\ chan'[t][l][i] = m
            /\ i = Len(chan[p][k]) + 1 /\ \A j \in DOMAIN chan[p][k] : j < i
<1>1. chan[p][k] \in Seq(Message)
  BY DEF TypeOK
<1>2. CASE t = p /\ l = k /\ ~HasLeft(p, k)
  BY <1>1, <1>2, AppendProperties
<1> QED
  BY <1>2

LEMMA AppendExact ==
  ASSUME TypeOK, NEW p \in Side, NEW k \in Session, NEW m \in Message,
         \A t \in Side, l \in Session : ~(t = p /\ l = k) => chan'[t][l] = chan[t][l],
         chan'[p][k] = IF HasLeft(p, k) THEN chan[p][k] ELSE Append(chan[p][k], m),
         NEW t \in Side, NEW l \in Session, NEW c \in Conns, ~IsData(m, c),
         NEW lo \in Nat, NEW hi \in Nat, Exact(chan[t][l], c, lo, hi)
  PROVE  Exact(chan'[t][l], c, lo, hi)
<1>1. chan[p][k] \in Seq(Message)
  BY DEF TypeOK
<1>2. CASE t = p /\ l = k /\ ~HasLeft(p, k)
  BY <1>1, <1>2, ExactOther
<1> QED
  BY <1>2

LEMMA SocketDataStep ==
  ASSUME IInv, TypeOK', NEW s \in Side, NEW d \in Conns, handleConnectionSocketOnData(s, d),
         NEW p, p = Peer(s), NEW k, k = session[s], NEW x, x = produced[s][d] + 1,
         NEW m, m = [type |-> "DATA", id |-> IdOf[d], data |-> <<d, x>>]
  PROVE  IInv'
<1>0. /\ TypeOK /\ "in" \in Side /\ "out" \in Side /\ "in" # "out"
      /\ p \in Side /\ Peer(p) = s /\ p # s /\ \A t \in Side : t = s \/ t = p
  BY PeerType DEF IInv, Side, Peer
<1>1. /\ ~crashed[s] /\ conn[s][d].sock = "open" /\ produced[s][d] < MaxData
      /\ produced' = [produced EXCEPT ![s][d] = x]
      /\ sendMessage(s, m)
      /\ UNCHANGED <<running, opened, accepted, session, working, mux, stops,
                     connections, conn, delivered>>
  BY DEF handleConnectionSocketOnData
<1>2. Live(s, d) /\ k \in Session /\ mux[s] = k /\ k # 0
  BY <1>1, LiveIsOnline DEF Live, LiveSocket
<1>3. produced \in [Side -> [Conns -> 0..MaxData]] /\ x \in 1..MaxData /\ x - 1 \in Nat
  <2>1. produced \in [Side -> [Conns -> 0..MaxData]]
    BY <1>0 DEF TypeOK
  <2>2. produced[s][d] \in 0..MaxData
    BY <2>1
  <2> QED
    BY <1>1, <2>1, <2>2, TunnelAssumption
<1>4. /\ m \in Message /\ m.type = "DATA" /\ m.id = IdOf[d]
      /\ m.data[1] = d /\ m.data[2] = x
  BY <1>3, MessageTypes
<1>5. \A c \in Conns : IsData(m, c) <=> c = d
  BY <1>4 DEF IsData
<1>6. /\ crashed' = crashed
      /\ \A t \in Side, l \in Session : ~(t = p /\ l = k) => chan'[t][l] = chan[t][l]
      /\ chan'[p][k] = IF HasLeft(p, k) THEN chan[p][k] ELSE Append(chan[p][k], m)
  <2>1. /\ mux[s] # 0 /\ mux[s] = k /\ Peer(s) = p
    BY <1>2
  <2> QED
    BY <1>0, <1>1, <1>4, <2>1, SendEffect
<1>7. /\ produced'[s][d] = x
      /\ \A t \in Side, c \in Conns : ~(t = s /\ c = d) => produced'[t][c] = produced[t][c]
      /\ \A t \in Side, c \in Conns :
           /\ produced[t][c] \in Nat /\ produced'[t][c] \in Nat
           /\ produced[t][c] <= produced'[t][c]
  BY <1>1, <1>3, TunnelAssumption
<1>8. MuxInv' /\ TableInv' /\ LiveIsTracked' /\ SameSession' /\ CrashOnlyWhenStopped'
  BY <1>1, <1>6 DEF IInv, MuxInv, TableInv, LiveIsTracked, SameSession,
     CrashOnlyWhenStopped, Listens, Live
<1>9. InOrder'
  <2> SUFFICES ASSUME NEW t \in Side, NEW c \in Conns
               PROVE  /\ Len(delivered[t][c]) <= produced'[Peer(t)][c]
                      /\ \A n \in 1..Len(delivered[t][c]) : delivered[t][c][n] = <<c, n>>
    BY <1>1 DEF InOrder
  <2>1. /\ Len(delivered[t][c]) <= produced[Peer(t)][c]
        /\ \A n \in 1..Len(delivered[t][c]) : delivered[t][c][n] = <<c, n>>
    BY DEF IInv, InOrder
  <2>2. Len(delivered[t][c]) \in Nat /\ Peer(t) \in Side
    BY <1>0, PeerType, CountTypes
  <2> QED
    BY <1>7, <2>1, <2>2
<1>10. ObjectInv'
  BY <1>0, <1>1, <1>7 DEF IInv, ObjectInv
<1>11. MessageInv'
  <2>1. ASSUME NEW t \in Side, NEW l \in Session, NEW i \in DOMAIN chan'[t][l],
               NEW n, n = chan'[t][l][i]
        PROVE  GoodMessage(t, n)'
    <3>1. CASE i \in DOMAIN chan[t][l] /\ n = chan[t][l][i]
      BY <1>1, <3>1, MessageKept
    <3>2. CASE t = p /\ n = m
      BY <1>0, <1>1, <1>4, <3>2 DEF GoodMessage
    <3>3. \/ i \in DOMAIN chan[t][l] /\ chan'[t][l][i] = chan[t][l][i]
          \/ t = p /\ chan'[t][l][i] = m
      BY <1>0, <1>2, <1>4, <1>6, <2>1, AppendShift
    <3> QED
      BY <2>1, <3>1, <3>2, <3>3
  <2> QED
    BY <2>1, MessagesGood
<1>12. OneConnect'
  <2> SUFFICES ASSUME NEW c \in Conns, NEW l1 \in Session, NEW l2 \in Session,
                      NEW i \in DOMAIN chan'["out"][l1], NEW j \in DOMAIN chan'["out"][l2],
                      IsConnect(chan'["out"][l1][i], c), IsConnect(chan'["out"][l2][j], c)
               PROVE  l1 = l2 /\ i = j
    BY DEF OneConnect, IsConnect
  <2>1. ~IsConnect(m, c)
    BY <1>4 DEF IsConnect
  <2>2. i \in DOMAIN chan["out"][l1] /\ IsConnect(chan["out"][l1][i], c)
    BY <1>0, <1>2, <1>4, <1>6, <2>1, AppendShift
  <2>3. j \in DOMAIN chan["out"][l2] /\ IsConnect(chan["out"][l2][j], c)
    BY <1>0, <1>2, <1>4, <1>6, <2>1, AppendShift
  <2> QED
    BY <2>2, <2>3 DEF IInv, OneConnect
<1>13. PendingInv'
  <2> SUFFICES ASSUME NEW c \in Conns, NEW l \in Session, NEW i \in DOMAIN chan'["out"][l],
                      IsConnect(chan'["out"][l][i], c), ~HasLeft("out", l)'
               PROVE  /\ Exact(chan'["out"][l], c, 0, produced'["in"][c])
                      /\ \A j \in DOMAIN chan'["out"][l] :
                           IsData(chan'["out"][l][j], c) => i < j
                      /\ ~crashed["in"] /\ Live("in", c)' => l = session["in"]
    BY <1>1, <1>6, PendingGood
  <2>1. ~IsConnect(m, c) /\ ~HasLeft("out", l)
    BY <1>1, <1>4 DEF IsConnect, HasLeft
  <2>2. i \in DOMAIN chan["out"][l] /\ IsConnect(chan["out"][l][i], c)
    BY <1>0, <1>2, <1>4, <1>6, <2>1, AppendShift
  <2>3. /\ Exact(chan["out"][l], c, 0, produced["in"][c])
        /\ \A j \in DOMAIN chan["out"][l] : IsData(chan["out"][l][j], c) => i < j
        /\ ~crashed["in"] /\ Live("in", c) => l = session["in"]
    BY <2>1, <2>2 DEF IInv, PendingInv
  <2>4. Live("in", c)' <=> Live("in", c)
    BY <1>1 DEF Live
  <2>5. \A j \in DOMAIN chan'["out"][l] : IsData(chan'["out"][l][j], c) => i < j
    <3> SUFFICES ASSUME NEW j \in DOMAIN chan'["out"][l], IsData(chan'["out"][l][j], c)
                 PROVE  i < j
      OBVIOUS
    <3>1. CASE j \in DOMAIN chan["out"][l] /\ chan'["out"][l][j] = chan["out"][l][j]
      BY <2>3, <3>1
    <3>2. CASE "out" = p /\ l = k /\ \A jj \in DOMAIN chan[p][k] : jj < j
      BY <2>2, <3>2
    <3> QED
      BY <1>0, <1>2, <1>4, <1>6, <3>1, <3>2, AppendShift
  <2>6. CASE c = d /\ s = "in"
    <3>1. l = k /\ p = "out"
      BY <1>0, <1>1, <1>2, <2>3, <2>6
    <3>2. chan'["out"][l] = Append(chan["out"][l], m) /\ chan["out"][l] \in Seq(Message)
      <4>1. chan["out"][l] \in Seq(Message)
        BY <1>0 DEF TypeOK
      <4> QED
        BY <1>6, <2>1, <3>1, <4>1
    <3>3. /\ produced["in"][c] = x - 1 /\ produced'["in"][c] = (x - 1) + 1 /\ x = (x - 1) + 1
          /\ 0 \in Nat /\ 0 <= x - 1
      BY <1>1, <1>3, <1>7, <2>6
    <3>4. IsData(m, c) /\ m.data[2] = (x - 1) + 1
      BY <1>4, <1>5, <2>6, <3>3
    <3>5. Exact(chan'["out"][l], c, 0, produced'["in"][c])
      <4>1. Exact(chan["out"][l], c, 0, x - 1)
        BY <2>3, <3>3
      <4>2. Exact(Append(chan["out"][l], m), c, 0, (x - 1) + 1)
        BY <1>3, <1>4, <3>2, <3>3, <3>4, <4>1, ExactNext
      <4> QED
        BY <3>2, <3>3, <4>2
    <3> QED
      BY <2>3, <2>4, <2>5, <3>5
  <2>7. CASE ~(c = d /\ s = "in")
    <3>1. produced'["in"][c] = produced["in"][c] /\ produced["in"][c] \in Nat /\ 0 \in Nat
      BY <1>0, <1>7, <2>7
    <3>2. CASE c # d
      <4>1. ~IsData(m, c)
        BY <1>5, <3>2
      <4>2. Exact(chan'["out"][l], c, 0, produced["in"][c])
        BY <1>0, <1>2, <1>4, <1>6, <2>3, <3>1, <4>1, AppendExact
      <4> QED
        BY <2>3, <2>4, <2>5, <3>1, <4>2
    <3>3. CASE s = "out"
      <4>1. chan'["out"][l] = chan["out"][l]
        BY <1>0, <1>6, <3>3
      <4> QED
        BY <2>3, <2>4, <2>5, <3>1, <4>1
    <3> QED
      BY <1>0, <2>7, <3>2, <3>3 DEF Side
  <2> QED
    BY <2>6, <2>7
<1>14. FlowInv'
  <2> SUFFICES ASSUME NEW t \in Side, NEW c \in Conns, ~crashed[t], Live(t, c)'
               PROVE  /\ Received(t, c)' <= produced'[Peer(t)][c]
                      /\ Exact(chan'[t][session[t]], c, Received(t, c)', produced'[Peer(t)][c])
    BY <1>1, <1>6 DEF FlowInv
  <2>1. Live(t, c) /\ session[t] \in Session /\ Received(t, c)' = Received(t, c)
    BY <1>1, LiveIsOnline DEF Live, Received
  <2>2. /\ Received(t, c) <= produced[Peer(t)][c]
        /\ Exact(chan[t][session[t]], c, Received(t, c), produced[Peer(t)][c])
    BY <2>1 DEF IInv, FlowInv
  <2>3. Received(t, c) \in Nat /\ produced[Peer(t)][c] \in Nat
    BY <1>0, CountTypes
  <2>4. CASE t = p /\ c = d
    <3>1. session[p] = k
      BY <1>0, <1>1, <1>2, <2>1, <2>4 DEF IInv, SameSession, Side
    <3>2. ~HasLeft(p, k)
      BY <3>1 DEF HasLeft
    <3>3. chan'[p][k] = Append(chan[p][k], m) /\ chan[p][k] \in Seq(Message)
      BY <1>0, <1>2, <1>6, <3>2, ZenonT(30) DEF TypeOK
    <3>4. /\ produced[Peer(t)][c] = x - 1 /\ produced'[Peer(t)][c] = (x - 1) + 1
          /\ x = (x - 1) + 1
      BY <1>0, <1>3, <1>7, <2>4
    <3>5. IsData(m, c) /\ m.data[2] = (x - 1) + 1
      BY <1>4, <1>5, <2>4, <3>4
    <3>6. Exact(chan'[p][k], c, Received(t, c), (x - 1) + 1)
      BY <1>3, <1>4, <2>2, <2>3, <2>4, <3>1, <3>3, <3>4, <3>5, ExactNext
    <3> QED
      BY <1>3, <2>1, <2>2, <2>3, <2>4, <3>1, <3>4, <3>6
  <2>5. CASE ~(t = p /\ c = d)
    <3>1. produced'[Peer(t)][c] = produced[Peer(t)][c]
      BY <1>0, <1>7, <2>5, PeerType
    <3>2. CASE c # d
      <4>1. ~IsData(m, c)
        BY <1>5, <3>2
      <4>2. Exact(chan'[t][session[t]], c, Received(t, c), produced[Peer(t)][c])
        BY <1>0, <1>2, <1>4, <1>6, <2>1, <2>2, <2>3, <4>1, AppendExact
      <4> QED
        BY <2>1, <2>2, <3>1, <4>2
    <3>3. CASE t # p
      <4>1. chan'[t][session[t]] = chan[t][session[t]]
        BY <1>6, <2>1, <3>3
      <4> QED
        BY <2>1, <2>2, <3>1, <4>1
    <3> QED
      BY <2>5, <3>2, <3>3
  <2> QED
    BY <2>4, <2>5
<1> QED
  BY <1>8, <1>9, <1>10, <1>11, <1>12, <1>13, <1>14 DEF IInv

LEMMA SocksConnectionStep ==
  ASSUME IInv, TypeOK', DistinctIds, NEW d \in Conns, handleOnSocksServerConnection(d),
         NEW k, k = session["in"],
         NEW m, m = [type |-> "CONNECT", id |-> IdOf[d], conn |-> d]
  PROVE  IInv'
<1>0. /\ TypeOK /\ "in" \in Side /\ "out" \in Side /\ "in" # "out"
      /\ Peer("in") = "out" /\ Peer("out") = "in"
  BY DEF IInv, Side, Peer
<1>1. /\ ~crashed["in"] /\ k # 0 /\ conn["in"][d].sock = "none"
      /\ conn' = [conn EXCEPT !["in"][d] =
                    [conn["in"][d] EXCEPT !.sock = "open", !.connected = TRUE]]
      /\ connections' = [connections EXCEPT !["in"][IdOf[d]] = d]
      /\ sendMessage("in", m)
      /\ UNCHANGED <<running, opened, accepted, session, working, mux, stops,
                     produced, delivered>>
  BY DEF handleOnSocksServerConnection
<1>2. /\ m \in Message /\ m.type = "CONNECT" /\ m.id = IdOf[d] /\ m.conn = d
      /\ IdOf[d] \in Ids /\ k \in Session
      /\ \A c \in Conns : ~IsData(m, c) /\ (IsConnect(m, c) <=> c = d)
  <2>1. k \in Session
    BY <1>0, <1>1 DEF TypeOK, Session
  <2> QED
    BY <2>1, MessageTypes, TunnelAssumption DEF IsData, IsConnect
<1>3. /\ conn \in [Side -> [Conns -> ConnectionObject]] /\ conn["in"][d] \in ConnectionObject
      /\ connections \in [Side -> [Ids -> Conns \cup {None}]]
  BY <1>0 DEF TypeOK
(* Nothing is known of d anywhere yet.                                     *)
<1>4. /\ conn["out"][d].sock = "none" /\ produced["in"][d] = 0 /\ produced["out"][d] = 0
      /\ delivered["in"][d] = << >> /\ conn["in"][d].messages = << >>
  BY <1>0, <1>1 DEF IInv, ObjectInv
<1>5. /\ conn'["in"][d] = [conn["in"][d] EXCEPT !.sock = "open", !.connected = TRUE]
      /\ \A t \in Side, c \in Conns : ~(t = "in" /\ c = d) => conn'[t][c] = conn[t][c]
  BY <1>0, <1>1, <1>3
<1>6. /\ conn'["in"][d].sock = "open" /\ conn'["in"][d].connected
      /\ conn'["in"][d].messages = << >>
  BY <1>3, <1>4, <1>5 DEF ConnectionObject
<1>7. \A t \in Side, c \in Conns :
        /\ ~(t = "in" /\ c = d) => conn'[t][c] = conn[t][c] /\ (Live(t, c)' <=> Live(t, c))
        /\ conn[t][c].sock # "none" => conn'[t][c].sock # "none"
        /\ conn'["out"][c] = conn["out"][c]
  BY <1>0, <1>1, <1>5 DEF Live
<1>8. /\ connections'["in"][IdOf[d]] = d
      /\ \A t \in Side, id \in Ids :
           ~(t = "in" /\ id = IdOf[d]) => connections'[t][id] = connections[t][id]
  BY <1>0, <1>1, <1>2, <1>3
<1>9. \/ /\ mux["in"] = 0 /\ chan' = chan /\ crashed' = [crashed EXCEPT !["in"] = TRUE]
      \/ /\ mux["in"] = k /\ crashed' = crashed
         /\ \A t \in Side, l \in Session : ~(t = "out" /\ l = k) => chan'[t][l] = chan[t][l]
         /\ chan'["out"][k] =
              IF HasLeft("out", k) THEN chan["out"][k] ELSE Append(chan["out"][k], m)
  <2>1. mux["in"] = 0 \/ mux["in"] = k
    BY <1>0, <1>1 DEF IInv, MuxInv
  <2>2. k # 0 /\ Peer("in") = "out"
    BY <1>0, <1>1
  <2>3. \/ /\ mux["in"] = 0 /\ chan' = chan /\ crashed' = [crashed EXCEPT !["in"] = TRUE]
        \/ /\ mux["in"] \in Session /\ crashed' = crashed
           /\ \A t \in Side, l \in Session :
                ~(t = Peer("in") /\ l = mux["in"]) => chan'[t][l] = chan[t][l]
           /\ chan'[Peer("in")][mux["in"]] =
                IF HasLeft(Peer("in"), mux["in"]) THEN chan[Peer("in")][mux["in"]]
                ELSE Append(chan[Peer("in")][mux["in"]], m)
    BY <1>0, <1>1, <1>2, SendEffect
  <2> QED
    BY <2>1, <2>2, <2>3 DEF Session
<1>10. /\ \A t \in Side : crashed[t] => crashed'[t]
       /\ mux["in"] = 0 => crashed'["in"]
       /\ CrashOnlyWhenStopped'
  <2>1. CASE mux["in"] = 0 /\ crashed' = [crashed EXCEPT !["in"] = TRUE]
    BY <1>0, <1>1, <2>1, SendCrash
  <2>2. CASE mux["in"] = k /\ crashed' = crashed
    <3>1. CrashOnlyWhenStopped'
      BY <1>1, <2>2 DEF IInv, CrashOnlyWhenStopped
    <3> QED
      BY <1>1, <2>2, <3>1
  <2> QED
    BY <1>9, <2>1, <2>2
(* A message is an old one or the CONNECT, which comes last.               *)
<1>11. \A t \in Side, l \in Session : \A i \in DOMAIN chan'[t][l] :
         \/ i \in DOMAIN chan[t][l] /\ chan'[t][l][i] = chan[t][l][i]
         \/ /\ t = "out" /\ l = k /\ ~HasLeft("out", k) /\ chan'[t][l][i] = m
            /\ i = Len(chan["out"][k]) + 1 /\ \A j \in DOMAIN chan["out"][k] : j < i
            /\ mux["in"] = k
  <2>1. CASE chan' = chan
    BY <2>1
  <2>2. CASE /\ mux["in"] = k
             /\ \A t \in Side, l \in Session : ~(t = "out" /\ l = k) => chan'[t][l] = chan[t][l]
             /\ chan'["out"][k] =
                  IF HasLeft("out", k) THEN chan["out"][k] ELSE Append(chan["out"][k], m)
    BY <1>0, <1>2, <2>2, AppendShift
  <2> QED
    BY <1>9, <2>1, <2>2
<1>12. \A t \in Side, l \in Session, c \in Conns : \A lo, hi \in Nat :
         Exact(chan[t][l], c, lo, hi) => Exact(chan'[t][l], c, lo, hi)
  <2>1. CASE chan' = chan
    BY <2>1
  <2>2. CASE /\ \A t \in Side, l \in Session : ~(t = "out" /\ l = k) => chan'[t][l] = chan[t][l]
             /\ chan'["out"][k] =
                  IF HasLeft("out", k) THEN chan["out"][k] ELSE Append(chan["out"][k], m)
    BY <1>0, <1>2, <2>2, AppendExact
  <2> QED
    BY <1>9, <2>1, <2>2
<1>13. \A t \in Side, l \in Session : \A i \in DOMAIN chan[t][l] :
         ~IsData(chan[t][l][i], d) /\ ~IsConnect(chan[t][l][i], d)
  <2> SUFFICES ASSUME NEW t \in Side, NEW l \in Session, NEW i \in DOMAIN chan[t][l]
               PROVE  ~IsData(chan[t][l][i], d) /\ ~IsConnect(chan[t][l][i], d)
    OBVIOUS
  <2>1. conn[Peer(t)][d].sock = "none" /\ conn["in"][d].sock = "none"
    BY <1>0, <1>1, <1>4 DEF Side
  <2>2. GoodMessage(t, chan[t][l][i])
    BY MessageFacts
  <2> QED
    BY <2>1, <2>2 DEF IsData, IsConnect, GoodMessage
<1>14. \A t \in Side, l \in Session : Exact(chan'[t][l], d, 0, 0)
  <2> SUFFICES ASSUME NEW t \in Side, NEW l \in Session
               PROVE  Exact(chan[t][l], d, 0, 0)
    BY <1>12
  <2>1. chan[t][l] \in Seq(Message) /\ \A i \in DOMAIN chan[t][l] : ~IsData(chan[t][l][i], d)
    BY <1>0, <1>13 DEF TypeOK
  <2> QED
    BY <2>1, ExactEmpty
<1>15. MuxInv' /\ InOrder'
  BY <1>1 DEF IInv, MuxInv, Listens, InOrder
<1>16. TableInv'
  <2> SUFFICES ASSUME NEW t \in Side, NEW id \in Ids, connections'[t][id] # None
               PROVE  /\ IdOf[connections'[t][id]] = id
                      /\ conn'[t][connections'[t][id]].sock # "none"
    BY DEF TableInv
  <2>1. CASE t = "in" /\ id = IdOf[d]
    BY <1>6, <1>8, <2>1
  <2>2. CASE ~(t = "in" /\ id = IdOf[d])
    <3>1. connections'[t][id] = connections[t][id]
      BY <1>8, <2>2
    <3>2. connections[t][id] \in Conns
      BY <1>3, <3>1
    <3>3. IdOf[connections[t][id]] = id /\ conn[t][connections[t][id]].sock # "none"
      BY <3>1 DEF IInv, TableInv
    <3> QED
      BY <1>7, <3>1, <3>2, <3>3
  <2> QED
    BY <2>1, <2>2
<1>17. LiveIsTracked'
  <2> SUFFICES ASSUME NEW t \in Side, NEW c \in Conns, ~crashed'[t], Live(t, c)'
               PROVE  /\ connections'[t][IdOf[c]] = c
                      /\ mux[t] = session[t] /\ session[t] # 0
    BY <1>1 DEF LiveIsTracked
  <2>1. CASE t = "in" /\ c = d
    BY <1>1, <1>8, <1>9, <1>10, <2>1
  <2>2. CASE ~(t = "in" /\ c = d)
    <3>1. Live(t, c) /\ connections[t][IdOf[c]] = c /\ mux[t] = session[t] /\ session[t] # 0
      BY <1>7, <1>10, <2>2, LiveIsOnline
    <3>2. t = "in" => IdOf[c] # IdOf[d]
      BY <2>2 DEF DistinctIds
    <3>3. IdOf[c] \in Ids
      BY TunnelAssumption
    <3> QED
      BY <1>8, <3>1, <3>2, <3>3
  <2> QED
    BY <2>1, <2>2
<1>18. ObjectInv'
  <2> SUFFICES ASSUME NEW t \in Side, NEW c \in Conns
               PROVE  LET o == conn'[t][c] IN
                      /\ o.sock = "none" =>
                           /\ produced[t][c] = 0 /\ delivered[t][c] = << >>
                           /\ o.messages = << >> /\ ~o.connected
                           /\ t = "in" => conn'["out"][c].sock = "none"
                      /\ o.sock = "connecting" =>
                           /\ t = "out" /\ ~o.connected /\ delivered[t][c] = << >>
                           /\ \A n \in DOMAIN o.messages : o.messages[n] = <<c, n>>
                      /\ o.sock = "open" => o.connected /\ o.messages = << >>
    BY <1>1 DEF ObjectInv
  <2>1. CASE t = "in" /\ c = d
    BY <1>6, <2>1
  <2>2. CASE ~(t = "in" /\ c = d)
    BY <1>7, <2>2 DEF IInv, ObjectInv
  <2> QED
    BY <2>1, <2>2
<1>19. MessageInv'
  <2>1. ASSUME NEW t \in Side, NEW l \in Session, NEW i \in DOMAIN chan'[t][l],
               NEW n, n = chan'[t][l][i]
        PROVE  GoodMessage(t, n)'
    <3>1. CASE i \in DOMAIN chan[t][l] /\ n = chan[t][l][i]
      <4>1. n.type = "CONNECT" => n.conn \in Conns
        BY <1>0, <3>1, MessageParts
      <4>2. \A u \in Side, c \in Conns : conn[u][c].sock # "none" => conn'[u][c].sock # "none"
        BY <1>0, <1>7
      <4>3. \A c \in Conns : conn'["out"][c] = conn["out"][c]
        BY <1>0, <1>7
      <4> QED
        BY <3>1, <4>1, <4>2, <4>3, MessageKept
    <3>2. CASE t = "out" /\ n = m
      BY <1>0, <1>2, <1>4, <1>6, <1>7, <3>2 DEF GoodMessage
    <3> QED
      BY <1>11, <2>1, <3>1, <3>2
  <2> QED
    BY <2>1, MessagesGood
<1>20. OneConnect'
  <2> SUFFICES ASSUME NEW c \in Conns, NEW l1 \in Session, NEW l2 \in Session,
                      NEW i \in DOMAIN chan'["out"][l1], NEW j \in DOMAIN chan'["out"][l2],
                      IsConnect(chan'["out"][l1][i], c), IsConnect(chan'["out"][l2][j], c)
               PROVE  l1 = l2 /\ i = j
    BY DEF OneConnect, IsConnect
  <2>1. CASE c = d
    <3>1. l1 = k /\ i = Len(chan["out"][k]) + 1
      BY <1>0, <1>11, <1>13, <2>1
    <3>2. l2 = k /\ j = Len(chan["out"][k]) + 1
      BY <1>0, <1>11, <1>13, <2>1
    <3> QED
      BY <3>1, <3>2
  <2>2. CASE c # d
    <3>1. i \in DOMAIN chan["out"][l1] /\ IsConnect(chan["out"][l1][i], c)
      BY <1>0, <1>2, <1>11, <2>2
    <3>2. j \in DOMAIN chan["out"][l2] /\ IsConnect(chan["out"][l2][j], c)
      BY <1>0, <1>2, <1>11, <2>2
    <3> QED
      BY <3>1, <3>2 DEF IInv, OneConnect
  <2> QED
    BY <2>1, <2>2
<1>21. PendingInv'
  <2> SUFFICES ASSUME NEW c \in Conns, NEW l \in Session, NEW i \in DOMAIN chan'["out"][l],
                      IsConnect(chan'["out"][l][i], c), ~HasLeft("out", l)'
               PROVE  /\ Exact(chan'["out"][l], c, 0, produced["in"][c])
                      /\ \A j \in DOMAIN chan'["out"][l] :
                           IsData(chan'["out"][l][j], c) => i < j
                      /\ ~crashed'["in"] /\ Live("in", c)' => l = session["in"]
    BY <1>1, PendingGood
  <2>1. ~HasLeft("out", l)
    BY <1>1 DEF HasLeft
  <2>2. CASE c = d
    <3>1. l = k
      BY <1>0, <1>11, <1>13, <2>2
    <3>2. \A j \in DOMAIN chan'["out"][l] : ~IsData(chan'["out"][l][j], c)
      BY <1>0, <1>2, <1>11, <1>13, <2>2
    <3> QED
      BY <1>0, <1>4, <1>14, <2>2, <3>1, <3>2
  <2>3. CASE c # d
    <3>1. i \in DOMAIN chan["out"][l] /\ IsConnect(chan["out"][l][i], c)
      BY <1>0, <1>2, <1>11, <2>3
    <3>2. /\ Exact(chan["out"][l], c, 0, produced["in"][c])
          /\ \A j \in DOMAIN chan["out"][l] : IsData(chan["out"][l][j], c) => i < j
          /\ ~crashed["in"] /\ Live("in", c) => l = session["in"]
      BY <2>1, <3>1 DEF IInv, PendingInv
    <3>3. produced["in"][c] \in Nat /\ 0 \in Nat
      BY <1>0, CountTypes
    <3>4. \A j \in DOMAIN chan'["out"][l] : IsData(chan'["out"][l][j], c) =>
            j \in DOMAIN chan["out"][l] /\ chan'["out"][l][j] = chan["out"][l][j]
      BY <1>0, <1>2, <1>11
    <3>5. ~crashed'["in"] /\ Live("in", c)' => ~crashed["in"] /\ Live("in", c)
      BY <1>0, <1>7, <1>10, <2>3
    <3> QED
      BY <1>0, <1>12, <3>2, <3>3, <3>4, <3>5
  <2> QED
    BY <2>2, <2>3
<1>22. FlowInv'
  <2> SUFFICES ASSUME NEW t \in Side, NEW c \in Conns, ~crashed'[t], Live(t, c)'
               PROVE  /\ Received(t, c)' <= produced[Peer(t)][c]
                      /\ Exact(chan'[t][session[t]], c, Received(t, c)', produced[Peer(t)][c])
    BY <1>1 DEF FlowInv
  <2>1. CASE t = "in" /\ c = d
    <3>1. Received("in", d)' = 0
      BY <1>0, <1>1, <1>4, <1>6, Counts
    <3> QED
      BY <1>0, <1>2, <1>4, <1>14, <2>1, <3>1
  <2>2. CASE ~(t = "in" /\ c = d)
    <3>1. Live(t, c) /\ ~crashed[t] /\ session[t] \in Session
      BY <1>7, <1>10, <2>2, LiveIsOnline
    <3>2. /\ Received(t, c)' = Received(t, c) /\ Received(t, c) \in Nat
          /\ produced[Peer(t)][c] \in Nat
      BY <1>0, <1>1, <1>7, <2>2, Counts, CountTypes
    <3>3. /\ Received(t, c) <= produced[Peer(t)][c]
          /\ Exact(chan[t][session[t]], c, Received(t, c), produced[Peer(t)][c])
      BY <3>1 DEF IInv, FlowInv
    <3> QED
      BY <1>12, <3>1, <3>2, <3>3
  <2> QED
    BY <2>1, <2>2
<1>23. SameSession'
  <2> SUFFICES ASSUME NEW c \in Conns, ~crashed'["in"], ~crashed'["out"],
                      Live("in", c)', Live("out", c)'
               PROVE  session["in"] = session["out"]
    BY <1>1 DEF SameSession
  <2>1. Live("out", c)
    BY <1>0, <1>7
  <2>2. c # d
    BY <1>4, <2>1 DEF Live, LiveSocket
  <2>3. Live("in", c) /\ ~crashed["in"] /\ ~crashed["out"]
    BY <1>0, <1>7, <1>10, <2>2
  <2> QED
    BY <2>1, <2>3 DEF IInv, SameSession
<1> QED
  BY <1>10, <1>15, <1>16, <1>17, <1>18, <1>19, <1>20, <1>21, <1>22, <1>23 DEF IInv

LEMMA ReadyStep ==
  ASSUME IInv, TypeOK', NEW d \in Conns, handleConnectionSocketOnReady(d)
  PROVE  IInv'
<1>0. TypeOK /\ "in" \in Side /\ "out" \in Side /\ "in" # "out" /\ Peer("out") = "in"
  BY DEF IInv, Side, Peer
<1>1. /\ ~crashed["out"] /\ conn["out"][d].sock = "connecting"
      /\ conn' = [conn EXCEPT !["out"][d] =
                    [conn["out"][d] EXCEPT !.sock = "open", !.connected = TRUE,
                                           !.messages = << >>]]
      /\ delivered' = [delivered EXCEPT !["out"][d] =
                         delivered["out"][d] \o conn["out"][d].messages]
      /\ UNCHANGED <<linkVars, nodeVars, connections, produced>>
  BY DEF handleConnectionSocketOnReady
<1>2. UNCHANGED <<chan, session, opened, accepted, working, mux, crashed>>
  BY <1>1 DEF linkVars, nodeVars
<1>3. /\ conn \in [Side -> [Conns -> ConnectionObject]] /\ conn["out"][d] \in ConnectionObject
      /\ delivered \in [Side -> [Conns -> Seq(Chunk)]]
  BY <1>0 DEF TypeOK
<1>4. conn["out"][d].messages \in Seq(Chunk)
  BY <1>3 DEF ConnectionObject
<1>5. /\ Live("out", d) /\ delivered["out"][d] = << >>
      /\ \A n \in DOMAIN conn["out"][d].messages : conn["out"][d].messages[n] = <<d, n>>
  BY <1>0, <1>1 DEF IInv, ObjectInv, Live, LiveSocket
<1>6. /\ conn'["out"][d] = [conn["out"][d] EXCEPT !.sock = "open", !.connected = TRUE,
                                                  !.messages = << >>]
      /\ \A t \in Side, c \in Conns : ~(t = "out" /\ c = d) => conn'[t][c] = conn[t][c]
  BY <1>0, <1>1, <1>3
<1>7. /\ conn'["out"][d].sock = "open" /\ conn'["out"][d].connected
      /\ conn'["out"][d].messages = << >>
  BY <1>3, <1>6 DEF ConnectionObject
<1>8. /\ delivered'["out"][d] = conn["out"][d].messages
      /\ \A t \in Side, c \in Conns :
           ~(t = "out" /\ c = d) => delivered'[t][c] = delivered[t][c]
  <2>1. delivered["out"][d] \o conn["out"][d].messages = conn["out"][d].messages
    BY <1>4, <1>5
  <2>2. delivered' = [delivered EXCEPT !["out"][d] = conn["out"][d].messages]
    BY <1>1, <2>1
  <2> QED
    BY <1>0, <1>3, <2>2
<1>9. \A t \in Side, c \in Conns :
        /\ Live(t, c)' <=> Live(t, c)
        /\ conn'[t][c].sock = "none" <=> conn[t][c].sock = "none"
  BY <1>1, <1>5, <1>6, <1>7 DEF Live, LiveSocket
<1>10. \A t \in Side, c \in Conns : Received(t, c)' = Received(t, c)
  <2> SUFFICES ASSUME NEW t \in Side, NEW c \in Conns
               PROVE  Received(t, c)' = Received(t, c)
    OBVIOUS
  <2>1. CASE t = "out" /\ c = d
    <3> DEFINE q == conn["out"][d].messages
    <3>1. Len(q) \in Nat
      BY <1>4, LenProperties
    <3>2. Received("out", d) = Len(<< >>) + Len(q) /\ Received("out", d)' = Len(q) + Len(<< >>)
      BY <1>5, <1>7, <1>8, Zenon DEF Received
    <3>3. Len(<< >>) = 0
      OBVIOUS
    <3>4. \A n \in Nat : 0 + n = n /\ n + 0 = n
      OBVIOUS
    <3> HIDE DEF q
    <3> QED
      BY <2>1, <3>1, <3>2, <3>3, <3>4, Zenon
  <2>2. CASE ~(t = "out" /\ c = d)
    BY <1>0, <1>6, <1>8, <2>2, Counts
  <2> QED
    BY <2>1, <2>2
<1>11. MuxInv' /\ CrashOnlyWhenStopped'
  BY <1>2 DEF IInv, MuxInv, Listens, CrashOnlyWhenStopped
<1>12. TableInv'
  BY <1>1, <1>9, TableKept
<1>13. LiveIsTracked' /\ SameSession'
  BY <1>0, <1>1, <1>2, <1>9 DEF IInv, LiveIsTracked, SameSession
<1>14. ObjectInv'
  <2> SUFFICES ASSUME NEW t \in Side, NEW c \in Conns
               PROVE  LET o == conn'[t][c] IN
                      /\ o.sock = "none" =>
                           /\ produced[t][c] = 0 /\ delivered'[t][c] = << >>
                           /\ o.messages = << >> /\ ~o.connected
                           /\ t = "in" => conn'["out"][c].sock = "none"
                      /\ o.sock = "connecting" =>
                           /\ t = "out" /\ ~o.connected /\ delivered'[t][c] = << >>
                           /\ \A n \in DOMAIN o.messages : o.messages[n] = <<c, n>>
                      /\ o.sock = "open" => o.connected /\ o.messages = << >>
    BY <1>1 DEF ObjectInv
  <2>1. CASE t = "out" /\ c = d
    BY <1>7, <2>1
  <2>2. CASE ~(t = "out" /\ c = d)
    BY <1>0, <1>6, <1>8, <1>9, <2>2 DEF IInv, ObjectInv
  <2> QED
    BY <2>1, <2>2
<1>15. MessageInv'
  <2>1. ASSUME NEW t \in Side, NEW l \in Session, NEW i \in DOMAIN chan'[t][l],
               NEW n, n = chan'[t][l][i]
        PROVE  GoodMessage(t, n)'
    <3>1. i \in DOMAIN chan[t][l] /\ n = chan[t][l][i]
      BY <1>2, <2>1
    <3>2. n.type = "CONNECT" => n.conn \in Conns
      BY <1>0, <3>1, MessageParts
    <3> QED
      BY <1>0, <1>9, <3>1, <3>2, MessageKept
  <2> QED
    BY <2>1, MessagesGood
<1>16. OneConnect'
  BY <1>2 DEF IInv, OneConnect
<1>17. PendingInv'
  BY <1>0, <1>1, <1>2, <1>9 DEF IInv, PendingInv, HasLeft
<1>18. FlowInv'
  BY <1>1, <1>2, <1>9, <1>10 DEF IInv, FlowInv
<1>19. InOrder'
  <2> SUFFICES ASSUME NEW t \in Side, NEW c \in Conns
               PROVE  /\ Len(delivered'[t][c]) <= produced[Peer(t)][c]
                      /\ \A n \in 1..Len(delivered'[t][c]) : delivered'[t][c][n] = <<c, n>>
    BY <1>1 DEF InOrder
  <2>1. CASE t = "out" /\ c = d
    <3> DEFINE q == conn["out"][d].messages
    <3>1. Len(q) \in Nat /\ DOMAIN q = 1..Len(q)
      BY <1>4, LenProperties
    <3>2. Received("out", d) <= produced["in"][d]
      BY <1>0, <1>1, <1>5 DEF IInv, FlowInv
    <3>3. Received("out", d) = Len(<< >>) + Len(q)
      BY <1>5, Zenon DEF Received
    <3>4. Len(<< >>) = 0
      OBVIOUS
    <3>5. Len(q) <= produced["in"][d]
      <4> HIDE DEF q
      <4> QED
        BY <3>1, <3>2, <3>3, <3>4
    <3> QED
      BY <1>0, <1>5, <1>8, <2>1, <3>1, <3>5
  <2>2. CASE ~(t = "out" /\ c = d)
    BY <1>8, <2>2 DEF IInv, InOrder
  <2> QED
    BY <2>1, <2>2
<1> QED
  BY <1>11, <1>12, <1>13, <1>14, <1>15, <1>16, <1>17, <1>18, <1>19 DEF IInv

-----------------------------------------------------------------------------
(* The invariant, and what it means.                                       *)

LEMMA IInvNext ==
  ASSUME DistinctIds, IInv, [Next]_vars
  PROVE  IInv'
<1>1. TypeOK'
  BY TypeOKNext DEF IInv
<1>2. CASE UNCHANGED vars
  BY <1>1, <1>2, Stutters
<1>3. CASE handleOnSocksServerListening \/ handleOnSocksServerClose
  BY <1>1, <1>3, NodeSteps
<1>4. CASE ClientTransportConnected \/ ServerTransportConnected \/ ServerTransportDrops
  BY <1>1, <1>4, TransportConnects
<1>5. CASE handleSocketMultiplexerOnConnect
  BY <1>1, <1>5, ReceiveConnectStep
<1>6. ASSUME NEW s \in Side, Start(s) \/ TransportStart(s) \/ TransportStop(s)
      PROVE  IInv'
  BY <1>1, <1>6, NodeSteps
<1>7. ASSUME NEW s \in Side, Stop(s)
      PROVE  IInv'
  BY <1>1, <1>7, StopStep
<1>8. ASSUME NEW s \in Side, TransportDisconnected(s)
      PROVE  IInv'
  BY <1>1, <1>8, DisconnectStep
<1>9. ASSUME NEW s \in Side, BufferIgnored(s)
      PROVE  IInv'
  BY <1>1, <1>9, IgnoreStep
<1>10. ASSUME NEW s \in Side, handleSocketMultiplexerOnClose(s)
       PROVE  IInv'
  BY <1>1, <1>10, ReceiveCloseStep
<1>11. ASSUME NEW s \in Side, handleSocketMultiplexerOnData(s)
       PROVE  IInv'
  <2>1. Head(Incoming(s)) \in Message /\ Head(Incoming(s)).type = "DATA"
    BY <1>11, ReceivesFacts DEF handleSocketMultiplexerOnData
  <2>2. PICK m, d, x : m = Head(Incoming(s)) /\ m.data = <<d, x>>
    BY <2>1 DEF Message, Chunk
  <2> QED
    BY <1>1, <1>11, <2>2, ReceiveDataStep
<1>12. ASSUME NEW s \in Side, NEW c \in Conns, handleConnectionSocketOnData(s, c)
       PROVE  IInv'
  BY <1>1, <1>12, SocketDataStep
<1>13. ASSUME NEW s \in Side, NEW c \in Conns, SocketEnds(s, c)
       PROVE  IInv'
  BY <1>1, <1>13, SocketEndsStep
<1>14. ASSUME NEW s \in Side, NEW c \in Conns, handleConnectionSocketOnClose(s, c)
       PROVE  IInv'
  BY <1>1, <1>14, SocketCloseStep
<1>15. ASSUME NEW c \in Conns, handleOnSocksServerConnection(c)
       PROVE  IInv'
  BY <1>1, <1>15, SocksConnectionStep
<1>16. ASSUME NEW c \in Conns, handleConnectionSocketOnReady(c)
       PROVE  IInv'
  BY <1>1, <1>16, ReadyStep
<1> QED
  BY <1>2, <1>3, <1>4, <1>5, <1>6, <1>7, <1>8, <1>9, <1>10, <1>11, <1>12, <1>13, <1>14,
     <1>15, <1>16 DEF Next

(* The invariant holds of every reachable state, if the ids of the         *)
(* connections differ.                                                     *)
THEOREM InvariantHolds == ASSUME DistinctIds PROVE Spec => []IInv
<1>1. Init => IInv
  BY InitIInv
<1>2. IInv /\ [Next]_vars => IInv'
  BY IInvNext
<1> QED
  BY <1>1, <1>2, PTL DEF Spec

(* Whatever the number of connections, chunks, sessions and stops: each    *)
(* socket is handed what the other one read, in order, nothing missing or  *)
(* twice, across buffering, reconnections and shutdowns.                   *)
THEOREM DeliveredInOrder == ASSUME DistinctIds PROVE Spec => []InOrder
<1>1. IInv => InOrder
  BY DEF IInv
<1> QED
  BY <1>1, InvariantHolds, PTL

(* destroyAllConnections finds every live socket, since each is in the     *)
(* table of connections; and none outlives its session.                    *)
THEOREM LiveSocketsAreTracked == ASSUME DistinctIds PROVE Spec => []LiveIsTracked
<1>1. IInv => LiveIsTracked
  BY DEF IInv
<1> QED
  BY <1>1, InvariantHolds, PTL

(* No two sockets are joined across a reconnection of the transport.       *)
THEOREM JoinedInOneSession == ASSUME DistinctIds PROVE Spec => []SameSession
<1>1. IInv => SameSession
  BY DEF IInv
<1> QED
  BY <1>1, InvariantHolds, PTL

(* Whatever the order in which nodes and transports are stopped, only a    *)
(* node that was stopped writes to a multiplexer without a socket.         *)
THEOREM RunningNodesDoNotCrash == ASSUME DistinctIds PROVE Spec => []CrashOnlyWhenStopped
<1>1. IInv => CrashOnlyWhenStopped
  BY DEF IInv
<1> QED
  BY <1>1, InvariantHolds, PTL

-----------------------------------------------------------------------------
(* What a step leaves of one end of a connection.                          *)

(* Mostly: a dead socket stays as it is, and neither reads nor is written. *)
Keeps(s, c) ==
  /\ Dead(s, c) =>
       /\ conn'[s][c].sock = conn[s][c].sock
       /\ produced'[s][c] = produced[s][c] /\ delivered'[s][c] = delivered[s][c]
  /\ conn[s][c].sock = "destroyed" => conn'[s][c].messages = conn[s][c].messages
  /\ conn'[s][c].wasClosed = conn[s][c].wasClosed
  /\ conn[s][c].closed => conn'[s][c].closed

LEMMA KeepsSame ==
  ASSUME NEW s \in Side, NEW c \in Conns, conn'[s][c] = conn[s][c],
         produced'[s][c] = produced[s][c], delivered'[s][c] = delivered[s][c]
  PROVE  Keeps(s, c)
BY DEF Keeps

LEMMA KeepsDestroyed ==
  ASSUME TypeOK, NEW s \in Side, NEW c \in Conns, conn'[s][c] = destroy(conn[s][c]),
         produced'[s][c] = produced[s][c], delivered'[s][c] = delivered[s][c]
  PROVE  Keeps(s, c)
<1>1. conn[s][c] \in ConnectionObject
  BY DEF TypeOK
<1> QED
  BY <1>1 DEF Keeps, destroy, Dead, DeadSocket, LiveSocket, ConnectionObject

(* Nothing but one end of one connection is touched.                       *)
LEMMA KeepsOthers ==
  ASSUME NEW s \in Side, NEW d \in Conns, Keeps(s, d),
         \A t \in Side, c \in Conns : ~(t = s /\ c = d) =>
           /\ conn'[t][c] = conn[t][c]
           /\ produced'[t][c] = produced[t][c] /\ delivered'[t][c] = delivered[t][c]
  PROVE  \A t \in Side, c \in Conns : Keeps(t, c)
<1> SUFFICES ASSUME NEW t \in Side, NEW c \in Conns PROVE Keeps(t, c)
  OBVIOUS
<1>1. CASE t = s /\ c = d
  BY <1>1
<1>2. CASE ~(t = s /\ c = d)
  BY <1>2, KeepsSame
<1> QED
  BY <1>1, <1>2

(* The steps that destroy all connections, or do not touch any.            *)
LEMMA NodeStepsKeep ==
  ASSUME IInv, TypeOK',
         \/ handleOnSocksServerListening \/ handleOnSocksServerClose
         \/ ClientTransportConnected \/ ServerTransportConnected \/ ServerTransportDrops
         \/ UNCHANGED vars
         \/ \E s \in Side : \/ Start(s) \/ Stop(s) \/ TransportStart(s) \/ TransportStop(s)
                            \/ TransportDisconnected(s) \/ BufferIgnored(s)
  PROVE  /\ \A t \in Side, c \in Conns : Keeps(t, c)
         /\ \A t \in Side, c \in Conns :
              \/ conn'[t][c] = conn[t][c]
              \/ /\ conn'[t][c] = destroy(conn[t][c])
                 /\ \A id \in Ids : connections'[t][id] = None
         /\ \A t \in Side : \/ connections'[t] = connections[t]
                            \/ \A id \in Ids : connections'[t][id] = None
         /\ UNCHANGED <<produced, delivered>>
<1>0. TypeOK
  BY DEF IInv
<1>1. UNCHANGED <<produced, delivered>>
  BY DEF handleOnSocksServerListening, handleOnSocksServerClose, ClientTransportConnected,
     ServerTransportConnected, ServerTransportDrops, Start, Stop, TransportStart,
     TransportStop, TransportDisconnected, BufferIgnored, vars, connVars
<1>2. \/ UNCHANGED <<conn, connections>>
      \/ \E s \in Side : ~crashed[s] /\ destroyAllConnections(s)
  BY DEF handleOnSocksServerListening, handleOnSocksServerClose, ClientTransportConnected,
     ServerTransportConnected, ServerTransportDrops, Start, Stop, TransportStart,
     TransportStop, TransportDisconnected, BufferIgnored, vars, connVars,
     handleOnTransportDisconnected
<1>3. CASE UNCHANGED <<conn, connections>>
  BY <1>1, <1>3, KeepsSame
<1>4. ASSUME NEW s \in Side, ~crashed[s], destroyAllConnections(s)
      PROVE  /\ \A t \in Side, c \in Conns : Keeps(t, c)
             /\ \A t \in Side, c \in Conns :
                  \/ conn'[t][c] = conn[t][c]
                  \/ /\ conn'[t][c] = destroy(conn[t][c])
                     /\ \A id \in Ids : connections'[t][id] = None
             /\ \A t \in Side : \/ connections'[t] = connections[t]
                                \/ \A id \in Ids : connections'[t][id] = None
  BY <1>0, <1>1, <1>4, DestroyAllEffect, KeepsSame, KeepsDestroyed
<1> QED
  BY <1>1, <1>2, <1>3, <1>4

(* The steps of a socket.                                                  *)
LEMMA SocketStepsKeep ==
  ASSUME IInv, TypeOK', NEW s \in Side, NEW d \in Conns,
         \/ handleConnectionSocketOnData(s, d)
         \/ SocketEnds(s, d)
         \/ handleConnectionSocketOnClose(s, d)
         \/ s = "in" /\ handleOnSocksServerConnection(d)
         \/ s = "out" /\ handleConnectionSocketOnReady(d)
  PROVE  \A t \in Side, c \in Conns : Keeps(t, c)
<1>0. /\ TypeOK /\ conn[s][d] \in ConnectionObject
      /\ conn \in [Side -> [Conns -> ConnectionObject]]
  BY DEF IInv, TypeOK
<1>1. CASE handleConnectionSocketOnData(s, d)
  <2>1. /\ conn[s][d].sock = "open" /\ UNCHANGED <<conn, delivered>>
        /\ produced' = [produced EXCEPT ![s][d] = produced[s][d] + 1]
    BY <1>1 DEF handleConnectionSocketOnData
  <2>2. \A t \in Side, c \in Conns :
          ~(t = s /\ c = d) => produced'[t][c] = produced[t][c]
    BY <1>0, <2>1, ProducedUpdate
  <2> SUFFICES ASSUME NEW t \in Side, NEW c \in Conns PROVE Keeps(t, c)
    OBVIOUS
  <2>3. CASE t = s /\ c = d
    BY <2>1, <2>3 DEF Keeps, Dead, DeadSocket
  <2>4. CASE ~(t = s /\ c = d)
    BY <2>1, <2>2, <2>4, KeepsSame
  <2> QED
    BY <2>3, <2>4
<1>2. CASE SocketEnds(s, d)
  <2> DEFINE o == [conn[s][d] EXCEPT !.sock = "ended"]
  <2>1. /\ conn[s][d].sock \in LiveSocket /\ UNCHANGED <<produced, delivered>>
        /\ conn' = [conn EXCEPT ![s][d] = o]
    BY <1>2 DEF SocketEnds, Live
  <2> HIDE DEF o
  <2>2. /\ conn'[s][d] = o
        /\ \A t \in Side, c \in Conns : ~(t = s /\ c = d) => conn'[t][c] = conn[t][c]
    BY <1>0, <2>1
  <2>3. Keeps(s, d)
    BY <1>0, <2>1, <2>2 DEF Keeps, Dead, DeadSocket, LiveSocket, ConnectionObject, o
  <2> QED
    BY <2>1, <2>2, <2>3, KeepsOthers
<1>3. CASE handleConnectionSocketOnClose(s, d)
  <2> DEFINE o == [conn[s][d] EXCEPT !.closed = TRUE, !.connected = FALSE]
  <2>1. UNCHANGED <<produced, delivered>> /\ conn' = [conn EXCEPT ![s][d] = o]
    BY <1>3 DEF handleConnectionSocketOnClose
  <2> HIDE DEF o
  <2>2. /\ conn'[s][d] = o
        /\ \A t \in Side, c \in Conns : ~(t = s /\ c = d) => conn'[t][c] = conn[t][c]
    BY <1>0, <2>1
  <2>3. Keeps(s, d)
    BY <1>0, <2>1, <2>2 DEF Keeps, ConnectionObject, o
  <2> QED
    BY <2>1, <2>2, <2>3, KeepsOthers
<1>4. CASE s = "in" /\ handleOnSocksServerConnection(d)
  <2> DEFINE o == [conn[s][d] EXCEPT !.sock = "open", !.connected = TRUE]
  <2>1. /\ conn[s][d].sock = "none" /\ UNCHANGED <<produced, delivered>>
        /\ conn' = [conn EXCEPT ![s][d] = o]
    BY <1>4 DEF handleOnSocksServerConnection
  <2> HIDE DEF o
  <2>2. /\ conn'[s][d] = o
        /\ \A t \in Side, c \in Conns : ~(t = s /\ c = d) => conn'[t][c] = conn[t][c]
    BY <1>0, <2>1
  <2>3. Keeps(s, d)
    BY <1>0, <2>1, <2>2 DEF Keeps, Dead, DeadSocket, ConnectionObject, o
  <2> QED
    BY <2>1, <2>2, <2>3, KeepsOthers
<1>5. CASE s = "out" /\ handleConnectionSocketOnReady(d)
  <2> DEFINE o == [conn[s][d] EXCEPT !.sock = "open", !.connected = TRUE, !.messages = << >>]
  <2>1. /\ conn[s][d].sock = "connecting" /\ UNCHANGED produced
        /\ conn' = [conn EXCEPT ![s][d] = o]
        /\ delivered' = [delivered EXCEPT ![s][d] = delivered[s][d] \o conn[s][d].messages]
    BY <1>5 DEF handleConnectionSocketOnReady
  <2> HIDE DEF o
  <2>2. /\ conn'[s][d] = o
        /\ \A t \in Side, c \in Conns : ~(t = s /\ c = d) => conn'[t][c] = conn[t][c]
    BY <1>0, <2>1
  <2>3. Keeps(s, d)
    BY <1>0, <2>1, <2>2 DEF Keeps, Dead, DeadSocket, ConnectionObject, o
  <2>4. \A t \in Side, c \in Conns :
          ~(t = s /\ c = d) => delivered'[t][c] = delivered[t][c]
    BY <1>0, <2>1, DeliveredUpdate
  <2> QED
    BY <2>1, <2>2, <2>3, <2>4, KeepsOthers
<1> QED
  BY <1>1, <1>2, <1>3, <1>4, <1>5

(* A CONNECT opens a socket that was not there.                            *)
LEMMA ConnectKeeps ==
  ASSUME IInv, TypeOK', handleSocketMultiplexerOnConnect,
         NEW m, m = Head(Incoming("out"))
  PROVE  /\ m.conn \in Conns /\ m.id = IdOf[m.conn] /\ m.type = "CONNECT"
         /\ conn["in"][m.conn].sock # "none" /\ conn["out"][m.conn].sock = "none"
         /\ conn'["out"][m.conn].sock = "connecting"
         /\ \A t \in Side, c \in Conns :
              ~(t = "out" /\ c = m.conn) => conn'[t][c] = conn[t][c]
         /\ connections' = [connections EXCEPT !["out"][m.id] = m.conn]
         /\ \A t \in Side, c \in Conns : Keeps(t, c)
         /\ UNCHANGED <<produced, delivered>>
<1>0. TypeOK /\ "out" \in Side /\ conn \in [Side -> [Conns -> ConnectionObject]]
  BY DEF IInv, TypeOK, Side
<1>1. Receives("out", "CONNECT")
  BY DEF handleSocketMultiplexerOnConnect
<1>2. /\ session["out"] \in Session /\ m \in Message /\ m.type = "CONNECT"
      /\ 1 \in DOMAIN chan["out"][session["out"]] /\ m = chan["out"][session["out"]][1]
  BY <1>0, <1>1, ReceivesFacts
<1>3. GoodMessage("out", m)
  BY <1>0, <1>2, MessageFacts
<1>4. /\ m.conn \in Conns /\ m.id = IdOf[m.conn]
      /\ conn["in"][m.conn].sock # "none" /\ conn["out"][m.conn].sock = "none"
  BY <1>2, <1>3, PartsOfMessage DEF GoodMessage
<1> DEFINE o == [conn["out"][m.conn] EXCEPT !.sock = "connecting"]
<1>5. /\ conn' = [conn EXCEPT !["out"][m.conn] = o]
      /\ connections' = [connections EXCEPT !["out"][m.id] = m.conn]
      /\ UNCHANGED <<produced, delivered>>
  BY DEF handleSocketMultiplexerOnConnect
<1> HIDE DEF o
<1>6. /\ conn'["out"][m.conn] = o
      /\ \A t \in Side, c \in Conns :
           ~(t = "out" /\ c = m.conn) => conn'[t][c] = conn[t][c]
  BY <1>0, <1>4, <1>5
<1>7. conn["out"][m.conn] \in ConnectionObject
  BY <1>0, <1>4, SMTT(30) DEF TypeOK
<1>8. Keeps("out", m.conn) /\ o.sock = "connecting"
  BY <1>4, <1>5, <1>6, <1>7 DEF Keeps, Dead, DeadSocket, ConnectionObject, o
<1>9. \A t \in Side, c \in Conns : Keeps(t, c)
  BY <1>0, <1>4, <1>5, <1>6, <1>8, KeepsOthers
<1> QED
  BY <1>2, <1>4, <1>5, <1>6, <1>8, <1>9

(* DATA changes what waits for, or was written to, a socket in the table.  *)
LEMMA DataKeeps ==
  ASSUME IInv, EntryInv, TypeOK', NEW s \in Side, handleSocketMultiplexerOnData(s)
  PROVE  /\ \A t \in Side, c \in Conns :
              /\ Keeps(t, c)
              /\ conn'[t][c].sock = conn[t][c].sock /\ conn'[t][c].closed = conn[t][c].closed
         /\ UNCHANGED <<produced, connections>>
<1>0. /\ TypeOK /\ conn \in [Side -> [Conns -> ConnectionObject]]
      /\ delivered \in [Side -> [Conns -> Seq(Chunk)]]
  BY DEF IInv, TypeOK
<1> DEFINE m == Head(Incoming(s))
           d == connections[s][m.id]
           o == [conn[s][d] EXCEPT !.messages = Append(conn[s][d].messages, m.data)]
           q == Append(delivered[s][d], m.data)
<1>1. Receives(s, "DATA")
  BY DEF handleSocketMultiplexerOnData
<1>2. m \in Message /\ m.type = "DATA" /\ m.id \in Ids
  BY <1>1, ReceivesFacts, ChunkParts
<1>3. UNCHANGED <<connections, produced>>
  BY DEF handleSocketMultiplexerOnData
<1>4. \/ UNCHANGED <<conn, delivered>>
      \/ /\ d # None /\ conn[s][d].sock = "open"
         /\ delivered' = [delivered EXCEPT ![s][d] = q] /\ UNCHANGED conn
      \/ /\ d # None
         /\ conn' = [conn EXCEPT ![s][d] = o] /\ UNCHANGED delivered
  <2>1. \/ d = None /\ UNCHANGED <<conn, delivered>>
        \/ /\ d # None /\ UNCHANGED conn
           /\ delivered' = IF conn[s][d].sock = "open"
                           THEN [delivered EXCEPT ![s][d] = Append(@, m.data)]
                           ELSE delivered
        \/ /\ d # None /\ UNCHANGED delivered
           /\ conn' = [conn EXCEPT ![s][d].messages = Append(@, m.data)]
    BY DEF handleSocketMultiplexerOnData
  <2> QED
    BY <2>1
<1>5. CASE UNCHANGED <<conn, delivered>>
  BY <1>3, <1>5, KeepsSame
<1>6. ASSUME d # None
      PROVE  d \in Conns /\ conn[s][d] \in ConnectionObject /\ conn[s][d].sock # "destroyed"
  <2>1. d \in Conns \cup {None}
    BY <1>0, <1>2 DEF TypeOK
  <2> QED
    BY <1>0, <1>2, <1>6, <2>1 DEF EntryInv
<1> HIDE DEF m, d, o, q
<1>7. CASE /\ d # None /\ conn[s][d].sock = "open"
           /\ delivered' = [delivered EXCEPT ![s][d] = q] /\ UNCHANGED conn
  <2>1. \A t \in Side, c \in Conns :
          ~(t = s /\ c = d) => delivered'[t][c] = delivered[t][c]
    BY <1>0, <1>6, <1>7
  <2>2. Keeps(s, d)
    BY <1>3, <1>7 DEF Keeps, Dead, DeadSocket
  <2> QED
    BY <1>3, <1>6, <1>7, <2>1, <2>2, KeepsOthers
<1>8. CASE d # None /\ conn' = [conn EXCEPT ![s][d] = o] /\ UNCHANGED delivered
  <2>1. /\ conn'[s][d] = o
        /\ \A t \in Side, c \in Conns : ~(t = s /\ c = d) => conn'[t][c] = conn[t][c]
    BY <1>0, <1>6, <1>8
  <2>2. /\ o.sock = conn[s][d].sock /\ o.closed = conn[s][d].closed
        /\ o.wasClosed = conn[s][d].wasClosed
    BY <1>6, <1>8 DEF ConnectionObject, o
  <2>3. Keeps(s, d)
    BY <1>3, <1>6, <1>8, <2>1, <2>2 DEF Keeps
  <2>4. \A t \in Side, c \in Conns : Keeps(t, c)
    BY <1>3, <1>6, <1>8, <2>1, <2>3, KeepsOthers
  <2> QED
    BY <1>3, <2>1, <2>2, <2>4
<1> QED
  BY <1>4, <1>5, <1>7, <1>8

(* A CLOSE ends the socket in the table, if there is one and it lives.     *)
LEMMA CloseWordEffect ==
  ASSUME IInv, EntryInv, TypeOK', NEW s \in Side, handleSocketMultiplexerOnClose(s),
         NEW m, m = Head(Incoming(s)), NEW d, d = connections[s][m.id]
  PROVE  /\ UNCHANGED <<produced, delivered>>
         /\ m.type = "CLOSE" /\ m.id \in Ids
         /\ \/ d = None /\ UNCHANGED <<conn, connections>>
            \/ /\ d \in Conns /\ IdOf[d] = m.id
               /\ conn[s][d].sock \notin {"none", "destroyed"}
               /\ conn'[s][d].sock = IF Live(s, d) THEN "destroyed" ELSE conn[s][d].sock
               /\ conn'[s][d].closed = conn[s][d].closed
               /\ conn'[s][d].messages = conn[s][d].messages
               /\ Dead(s, d)'
               /\ \A t \in Side, c \in Conns :
                    ~(t = s /\ c = d) => conn'[t][c] = conn[t][c]
               /\ connections'[s][m.id] = None
               /\ \A t \in Side, id \in Ids : ~(t = s /\ id = m.id) =>
                    connections'[t][id] = connections[t][id]
<1>0. /\ TypeOK /\ conn \in [Side -> [Conns -> ConnectionObject]]
      /\ connections \in [Side -> [Ids -> Conns \cup {None}]]
  BY DEF IInv, TypeOK
<1>1. Receives(s, "CLOSE")
  BY DEF handleSocketMultiplexerOnClose
<1>2. m \in Message /\ m.type = "CLOSE" /\ m.id \in Ids
  BY <1>1, ReceivesFacts DEF Message
<1>3. UNCHANGED <<produced, delivered>>
  BY DEF handleSocketMultiplexerOnClose
<1>4. \/ d = None /\ UNCHANGED <<conn, connections>>
      \/ /\ d # None
         /\ conn' = [conn EXCEPT ![s][d] = [destroy(conn[s][d]) EXCEPT !.wasClosed = TRUE]]
         /\ connections' = [connections EXCEPT ![s][m.id] = None]
  BY DEF handleSocketMultiplexerOnClose
<1>5. CASE d # None
  <2>1. d \in Conns /\ conn[s][d] \in ConnectionObject
    <3>1. d \in Conns \cup {None}
      BY <1>0, <1>2
    <3> QED
      BY <1>0, <1>5, <3>1
  <2>2. IdOf[d] = m.id /\ conn[s][d].sock \notin {"none", "destroyed"}
    BY <1>2, <1>5 DEF IInv, TableInv, EntryInv
  <2>3. PICK o : /\ o = [destroy(conn[s][d]) EXCEPT !.wasClosed = TRUE]
                 /\ conn' = [conn EXCEPT ![s][d] = o]
    BY <1>4, <1>5
  <2>4. /\ o.sock = IF Live(s, d) THEN "destroyed" ELSE conn[s][d].sock
        /\ o.closed = conn[s][d].closed /\ o.messages = conn[s][d].messages
    BY <2>1, <2>3 DEF destroy, Live, ConnectionObject
  <2>5. /\ conn'[s][d] = o
        /\ \A t \in Side, c \in Conns : ~(t = s /\ c = d) => conn'[t][c] = conn[t][c]
    BY <1>0, <2>1, <2>3
  <2>6. /\ connections'[s][m.id] = None
        /\ \A t \in Side, id \in Ids : ~(t = s /\ id = m.id) =>
             connections'[t][id] = connections[t][id]
    BY <1>0, <1>2, <1>4, <1>5
  <2>7. Dead(s, d)'
    BY <2>1, <2>2, <2>4, <2>5 DEF Dead, Live, LiveSocket, DeadSocket, ConnectionObject
  <2> QED
    BY <1>2, <1>3, <2>1, <2>2, <2>4, <2>5, <2>6, <2>7
<1> QED
  BY <1>2, <1>3, <1>4, <1>5

(* Whatever the step: a socket that is dead stays dead.                    *)
LEMMA OtherStepsKeep ==
  ASSUME IInv, EntryInv, TypeOK', [Next]_vars,
         ~ \E s \in Side : handleSocketMultiplexerOnClose(s)
  PROVE  \A t \in Side, c \in Conns : Keeps(t, c)
<1>1. "in" \in Side /\ "out" \in Side
  BY DEF Side
<1>2. CASE handleSocketMultiplexerOnConnect
  BY <1>2, ConnectKeeps
<1>3. ASSUME NEW s \in Side, handleSocketMultiplexerOnData(s)
      PROVE  \A t \in Side, c \in Conns : Keeps(t, c)
  BY <1>3, DataKeeps
<1>4. ASSUME NEW s \in Side, NEW d \in Conns,
             \/ handleConnectionSocketOnData(s, d)
             \/ SocketEnds(s, d)
             \/ handleConnectionSocketOnClose(s, d)
             \/ s = "in" /\ handleOnSocksServerConnection(d)
             \/ s = "out" /\ handleConnectionSocketOnReady(d)
      PROVE  \A t \in Side, c \in Conns : Keeps(t, c)
  BY <1>4, SocketStepsKeep
<1>5. CASE \/ handleOnSocksServerListening \/ handleOnSocksServerClose
           \/ ClientTransportConnected \/ ServerTransportConnected \/ ServerTransportDrops
           \/ UNCHANGED vars
           \/ \E s \in Side : \/ Start(s) \/ Stop(s) \/ TransportStart(s) \/ TransportStop(s)
                              \/ TransportDisconnected(s) \/ BufferIgnored(s)
  BY <1>5, NodeStepsKeep
<1> QED
  BY <1>1, <1>2, <1>3, <1>4, <1>5 DEF Next

LEMMA DeadStays ==
  ASSUME IInv, EntryInv, TypeOK', [Next]_vars, NEW t \in Side, NEW c \in Conns
  PROVE  /\ Dead(t, c) => /\ Dead(t, c)'
                          /\ produced'[t][c] = produced[t][c]
                          /\ delivered'[t][c] = delivered[t][c]
         /\ conn[t][c].sock = "destroyed" =>
              conn'[t][c].sock = "destroyed" /\ conn'[t][c].messages = conn[t][c].messages
         /\ conn[t][c].closed => conn'[t][c].closed
<1>1. CASE Keeps(t, c)
  BY <1>1 DEF Keeps, Dead, DeadSocket
<1>2. ASSUME NEW s \in Side, handleSocketMultiplexerOnClose(s),
             NEW m, m = Head(Incoming(s)), NEW d, d = connections[s][m.id]
      PROVE  /\ Dead(t, c) => /\ Dead(t, c)'
                              /\ produced'[t][c] = produced[t][c]
                              /\ delivered'[t][c] = delivered[t][c]
             /\ conn[t][c].sock = "destroyed" =>
                  /\ conn'[t][c].sock = "destroyed"
                  /\ conn'[t][c].messages = conn[t][c].messages
             /\ conn[t][c].closed => conn'[t][c].closed
  <2>1. UNCHANGED <<produced, delivered>>
    BY <1>2, CloseWordEffect
  <2>2. CASE conn'[t][c] = conn[t][c]
    BY <2>1, <2>2 DEF Dead
  <2>3. CASE conn'[t][c] # conn[t][c]
    <3>1. /\ t = s /\ c = d /\ Dead(s, d)' /\ conn[s][d].sock # "destroyed"
          /\ conn'[s][d].closed = conn[s][d].closed
      BY <1>2, <2>3, CloseWordEffect
    <3> QED
      BY <2>1, <3>1
  <2> QED
    BY <2>2, <2>3
<1> QED
  BY <1>1, <1>2, OtherStepsKeep

-----------------------------------------------------------------------------
(* CLOSE messages: the channels as they are, emptied, read and written.    *)

LEMMA CloseSame ==
  ASSUME CloseInv, \A t \in Side, c \in Conns : Dead(t, c) => Dead(t, c)',
         \A t \in Side, k \in Session : chan'[t][k] = chan[t][k] \/ chan'[t][k] = << >>
  PROVE  CloseInv'
<1> SUFFICES ASSUME NEW t \in Side, NEW k \in Session, NEW c \in Conns,
                    NEW i \in DOMAIN chan'[t][k], IsClose(chan'[t][k][i], c)
             PROVE  /\ Dead(Peer(t), c)'
                    /\ \A j \in DOMAIN chan'[t][k] : IsData(chan'[t][k][j], c) => j < i
  BY DEF CloseInv, IsClose, IsData
<1>1. chan'[t][k] = chan[t][k]
  OBVIOUS
<1>2. Dead(Peer(t), c) /\ \A j \in DOMAIN chan[t][k] : IsData(chan[t][k][j], c) => j < i
  BY <1>1 DEF CloseInv
<1> QED
  BY <1>1, <1>2, PeerType

LEMMA CloseConsumed ==
  ASSUME TypeOK, CloseInv, \A t \in Side, c \in Conns : Dead(t, c) => Dead(t, c)',
         NEW s \in Side, session[s] \in Session, Incoming(s) # << >>, chan' = Consumed(s)
  PROVE  CloseInv'
<1> SUFFICES ASSUME NEW t \in Side, NEW k \in Session, NEW c \in Conns,
                    NEW i \in DOMAIN chan'[t][k], IsClose(chan'[t][k][i], c)
             PROVE  /\ Dead(Peer(t), c)'
                    /\ \A j \in DOMAIN chan'[t][k] : IsData(chan'[t][k][j], c) => j < i
  BY DEF CloseInv, IsClose, IsData
<1>1. CASE t = s /\ k = session[s]
  <2>1. \A j \in DOMAIN chan'[t][k] :
          j + 1 \in DOMAIN chan[t][k] /\ chan'[t][k][j] = chan[t][k][j + 1] /\ j \in Nat
    BY <1>1, ConsumeShift
  <2>2. /\ Dead(Peer(t), c)
        /\ \A j \in DOMAIN chan[t][k] : IsData(chan[t][k][j], c) => j < i + 1
    BY <2>1 DEF CloseInv
  <2> QED
    BY <2>1, <2>2, PeerType
<1>2. CASE ~(t = s /\ k = session[s])
  <2>1. chan'[t][k] = chan[t][k]
    BY <1>2, ConsumeShift
  <2>2. Dead(Peer(t), c) /\ \A j \in DOMAIN chan[t][k] : IsData(chan[t][k][j], c) => j < i
    BY <2>1 DEF CloseInv
  <2> QED
    BY <2>1, <2>2, PeerType
<1> QED
  BY <1>1, <1>2

LEMMA CloseSent ==
  ASSUME TypeOK, CloseInv, \A t \in Side, c \in Conns : Dead(t, c) => Dead(t, c)',
         NEW s \in Side, NEW m \in Message, sendMessage(s, m),
         \A c \in Conns : /\ IsClose(m, c) => Dead(s, c) /\ m.type = "CLOSE"
                          /\ IsData(m, c) => ~Dead(s, c)
  PROVE  CloseInv'
<1> DEFINE p == Peer(s)
           k == mux[s]
<1>1. CASE chan' = chan
  BY <1>1, CloseSame
<1>2. CASE /\ k \in Session
           /\ \A t \in Side, l \in Session : ~(t = p /\ l = k) => chan'[t][l] = chan[t][l]
           /\ chan'[p][k] = IF HasLeft(p, k) THEN chan[p][k] ELSE Append(chan[p][k], m)
  <2>0. p \in Side /\ Peer(p) = s
    BY PeerType
  <2> HIDE DEF p, k
  <2> SUFFICES ASSUME NEW t \in Side, NEW l \in Session, NEW c \in Conns,
                      NEW i \in DOMAIN chan'[t][l], IsClose(chan'[t][l][i], c)
               PROVE  /\ Dead(Peer(t), c)'
                      /\ \A j \in DOMAIN chan'[t][l] : IsData(chan'[t][l][j], c) => j < i
    BY DEF CloseInv, IsClose, IsData
  <2>1. \A j \in DOMAIN chan'[t][l] :
          \/ j \in DOMAIN chan[t][l] /\ chan'[t][l][j] = chan[t][l][j]
          \/ /\ t = p /\ l = k /\ chan'[t][l][j] = m
             /\ \A h \in DOMAIN chan[t][l] : h < j
    BY <1>2, <2>0, AppendShift
  <2>2. CASE i \in DOMAIN chan[t][l] /\ chan'[t][l][i] = chan[t][l][i]
    <3>1. /\ Dead(Peer(t), c)
          /\ \A j \in DOMAIN chan[t][l] : IsData(chan[t][l][j], c) => j < i
      BY <2>2 DEF CloseInv
    <3>2. t = p => ~IsData(m, c)
      BY <2>0, <3>1
    <3> QED
      BY <2>1, <3>1, <3>2, PeerType
  <2>3. CASE /\ t = p /\ l = k /\ chan'[t][l][i] = m
             /\ \A h \in DOMAIN chan[t][l] : h < i
    <3>1. Dead(Peer(t), c) /\ ~IsData(m, c)
      BY <2>0, <2>3
    <3> QED
      BY <2>1, <2>3, <3>1, PeerType
  <2> QED
    BY <2>1, <2>2, <2>3
<1> QED
  BY <1>1, <1>2, SendEffect

-----------------------------------------------------------------------------
(* EndInv.                                                                 *)

LEMMA InitEndInv == Init => EndInv
<1> SUFFICES ASSUME Init PROVE EndInv
  OBVIOUS
<1>1. /\ \A s \in Side, c \in Conns : conn[s][c].wasClosed = FALSE
      /\ \A s \in Side, id \in Ids : connections[s][id] = None
  BY DEF Init, NoConnection
<1>2. \A s \in Side, k \in Session : chan[s][k] = << >> /\ DOMAIN chan[s][k] = {}
  BY DEF Init, LinkInit
<1> QED
  BY <1>1, <1>2 DEF EndInv, CloseInv, EntryInv, WordInv, CloseComesLast

(* Entries are removed, kept with the socket they are for, or made for a   *)
(* socket that is not destroyed.                                           *)
LEMMA EntryKept ==
  ASSUME EntryInv,
         \A t \in Side, id \in Ids :
           \/ connections'[t][id] = None
           \/ conn'[t][connections'[t][id]].sock # "destroyed"
           \/ /\ connections'[t][id] = connections[t][id]
              /\ conn'[t][connections[t][id]].sock = conn[t][connections[t][id]].sock
  PROVE  EntryInv'
BY DEF EntryInv

LEMMA SocketStepsKeepEntries ==
  ASSUME IInv, EntryInv, TypeOK', NEW s \in Side, NEW d \in Conns,
         \/ handleConnectionSocketOnData(s, d)
         \/ SocketEnds(s, d)
         \/ handleConnectionSocketOnClose(s, d)
         \/ s = "in" /\ handleOnSocksServerConnection(d)
         \/ s = "out" /\ handleConnectionSocketOnReady(d)
  PROVE  EntryInv'
<1>0. /\ TypeOK /\ conn[s][d] \in ConnectionObject /\ IdOf[d] \in Ids
      /\ conn \in [Side -> [Conns -> ConnectionObject]]
      /\ connections \in [Side -> [Ids -> Conns \cup {None}]]
  BY TunnelAssumption DEF IInv, TypeOK
<1>1. PICK o : /\ o.sock = conn[s][d].sock \/ o.sock # "destroyed"
               /\ conn' = [conn EXCEPT ![s][d] = o]
               /\ \/ UNCHANGED connections
                  \/ connections' = [connections EXCEPT ![s][IdOf[d]] = None]
                  \/ connections' = [connections EXCEPT ![s][IdOf[d]] = d] /\ o.sock = "open"
  <2>1. CASE handleConnectionSocketOnData(s, d)
    <3>1. conn' = [conn EXCEPT ![s][d] = conn[s][d]] /\ UNCHANGED connections
      BY <1>0, <2>1 DEF handleConnectionSocketOnData
    <3> QED
      BY <3>1
  <2>2. CASE SocketEnds(s, d)
    <3> DEFINE o == [conn[s][d] EXCEPT !.sock = "ended"]
    <3>1. conn' = [conn EXCEPT ![s][d] = o] /\ UNCHANGED connections
      BY <2>2 DEF SocketEnds
    <3>2. o.sock = "ended"
      BY <1>0 DEF ConnectionObject
    <3> HIDE DEF o
    <3> QED
      BY <3>1, <3>2
  <2>3. CASE handleConnectionSocketOnClose(s, d)
    <3> DEFINE o == [conn[s][d] EXCEPT !.closed = TRUE, !.connected = FALSE]
    <3>1. /\ conn' = [conn EXCEPT ![s][d] = o]
          /\ \/ UNCHANGED connections
             \/ connections' = [connections EXCEPT ![s][IdOf[d]] = None]
      BY <2>3 DEF handleConnectionSocketOnClose
    <3>2. o.sock = conn[s][d].sock
      BY <1>0 DEF ConnectionObject
    <3> HIDE DEF o
    <3> QED
      BY <3>1, <3>2
  <2>4. CASE s = "in" /\ handleOnSocksServerConnection(d)
    <3> DEFINE o == [conn[s][d] EXCEPT !.sock = "open", !.connected = TRUE]
    <3>1. /\ conn' = [conn EXCEPT ![s][d] = o]
          /\ connections' = [connections EXCEPT ![s][IdOf[d]] = d]
      BY <2>4 DEF handleOnSocksServerConnection
    <3>2. o.sock = "open"
      BY <1>0 DEF ConnectionObject
    <3> HIDE DEF o
    <3> QED
      BY <3>1, <3>2
  <2>5. CASE s = "out" /\ handleConnectionSocketOnReady(d)
    <3> DEFINE o == [conn[s][d] EXCEPT !.sock = "open", !.connected = TRUE,
                                       !.messages = << >>]
    <3>1. conn' = [conn EXCEPT ![s][d] = o] /\ UNCHANGED connections
      BY <2>5 DEF handleConnectionSocketOnReady
    <3>2. o.sock = "open"
      BY <1>0 DEF ConnectionObject
    <3> HIDE DEF o
    <3> QED
      BY <3>1, <3>2
  <2> QED
    BY <2>1, <2>2, <2>3, <2>4, <2>5
<1>2. /\ \A t \in Side, id \in Ids :
           \/ connections'[t][id] \in {None, connections[t][id]}
           \/ connections'[t][id] = d /\ t = s /\ conn'[s][d].sock = "open"
      /\ conn'[s][d].sock = conn[s][d].sock \/ conn'[s][d].sock # "destroyed"
      /\ \A t \in Side, c \in Conns : ~(t = s /\ c = d) => conn'[t][c] = conn[t][c]
  BY <1>0, <1>1
<1>3. \A t \in Side, id \in Ids : connections[t][id] \in Conns \cup {None}
  BY <1>0
<1>4. ASSUME NEW t \in Side, NEW id \in Ids
      PROVE  \/ connections'[t][id] = None
             \/ conn'[t][connections'[t][id]].sock # "destroyed"
             \/ /\ connections'[t][id] = connections[t][id]
                /\ conn'[t][connections[t][id]].sock = conn[t][connections[t][id]].sock
  <2>1. CASE connections'[t][id] = connections[t][id] /\ connections[t][id] # None
    BY <1>2, <1>3, <2>1
  <2> QED
    BY <1>2, <2>1
<1> QED
  BY <1>4, EntryKept

LEMMA EntryInvNext ==
  ASSUME IInv, EntryInv, TypeOK', [Next]_vars
  PROVE  EntryInv'
<1>0. /\ "in" \in Side /\ "out" \in Side
      /\ TypeOK /\ \A t \in Side, id \in Ids : connections[t][id] \in Conns \cup {None}
  BY DEF IInv, TypeOK, Side
<1>1. CASE \/ handleOnSocksServerListening \/ handleOnSocksServerClose
           \/ ClientTransportConnected \/ ServerTransportConnected \/ ServerTransportDrops
           \/ UNCHANGED vars
           \/ \E s \in Side : \/ Start(s) \/ Stop(s) \/ TransportStart(s) \/ TransportStop(s)
                              \/ TransportDisconnected(s) \/ BufferIgnored(s)
  <2> SUFFICES ASSUME NEW t \in Side, NEW id \in Ids, connections'[t][id] # None
               PROVE  /\ connections'[t][id] = connections[t][id]
                      /\ conn'[t][connections[t][id]].sock = conn[t][connections[t][id]].sock
    BY EntryKept
  <2>1. connections'[t] = connections[t]
    BY <1>1, NodeStepsKeep
  <2>2. connections[t][id] \in Conns
    BY <1>0, <2>1
  <2> QED
    BY <1>1, <2>1, <2>2, NodeStepsKeep
<1>2. CASE handleSocketMultiplexerOnConnect
  <2>1. PICK m : m = Head(Incoming("out"))
    OBVIOUS
  <2>2. /\ m.conn \in Conns /\ conn["out"][m.conn].sock = "none"
        /\ conn'["out"][m.conn].sock = "connecting"
        /\ \A t \in Side, c \in Conns : ~(t = "out" /\ c = m.conn) => conn'[t][c] = conn[t][c]
        /\ connections' = [connections EXCEPT !["out"][m.id] = m.conn]
    BY <1>2, <2>1, ConnectKeeps
  <2>3. \A t \in Side, id \in Ids :
          \/ connections'[t][id] = connections[t][id]
          \/ t = "out" /\ connections'[t][id] = m.conn
    BY <1>0, <2>2 DEF TypeOK
  <2> SUFFICES ASSUME NEW t \in Side, NEW id \in Ids
               PROVE  \/ connections'[t][id] = None
                      \/ conn'[t][connections'[t][id]].sock # "destroyed"
                      \/ /\ connections'[t][id] = connections[t][id]
                         /\ conn'[t][connections[t][id]].sock = conn[t][connections[t][id]].sock
    BY EntryKept
  <2> QED
    BY <1>0, <2>2, <2>3
<1>3. ASSUME NEW s \in Side, handleSocketMultiplexerOnData(s)
      PROVE  EntryInv'
  BY <1>0, <1>3, DataKeeps DEF EntryInv
<1>4. ASSUME NEW s \in Side, handleSocketMultiplexerOnClose(s),
             NEW m, m = Head(Incoming(s)), NEW d, d = connections[s][m.id]
      PROVE  EntryInv'
  <2>1. CASE UNCHANGED <<conn, connections>>
    BY <2>1 DEF EntryInv
  <2>2. CASE ~ UNCHANGED <<conn, connections>>
    <3>1. /\ d \in Conns /\ IdOf[d] = m.id
          /\ \A t \in Side, c \in Conns : ~(t = s /\ c = d) => conn'[t][c] = conn[t][c]
          /\ connections'[s][m.id] = None
          /\ \A t \in Side, id \in Ids : ~(t = s /\ id = m.id) =>
               connections'[t][id] = connections[t][id]
      BY <1>4, <2>2, CloseWordEffect
    <3> SUFFICES ASSUME NEW t \in Side, NEW id \in Ids, connections'[t][id] # None
                 PROVE  /\ connections'[t][id] = connections[t][id]
                        /\ conn'[t][connections[t][id]].sock = conn[t][connections[t][id]].sock
      BY EntryKept
    <3>2. ~(t = s /\ id = m.id) /\ connections'[t][id] = connections[t][id]
      BY <3>1
    <3>3. connections[t][id] \in Conns /\ IdOf[connections[t][id]] = id
      BY <1>0, <3>2 DEF IInv, TableInv
    <3> QED
      BY <3>1, <3>2, <3>3
  <2> QED
    BY <2>1, <2>2
<1>5. ASSUME NEW s \in Side, NEW d \in Conns,
             \/ handleConnectionSocketOnData(s, d)
             \/ SocketEnds(s, d)
             \/ handleConnectionSocketOnClose(s, d)
             \/ s = "in" /\ handleOnSocksServerConnection(d)
             \/ s = "out" /\ handleConnectionSocketOnReady(d)
      PROVE  EntryInv'
  BY <1>5, SocketStepsKeepEntries
<1> QED
  BY <1>0, <1>1, <1>2, <1>3, <1>4, <1>5 DEF Next

LEMMA CloseInvNext ==
  ASSUME DistinctIds, IInv, EntryInv, CloseInv, TypeOK', [Next]_vars
  PROVE  CloseInv'
<1>0. TypeOK /\ "in" \in Side /\ "out" \in Side
  BY DEF IInv, Side
<1>1. \A t \in Side, c \in Conns : Dead(t, c) => Dead(t, c)'
  BY DeadStays
<1>2. CASE \/ handleOnSocksServerListening \/ handleOnSocksServerClose
           \/ ClientTransportConnected \/ ServerTransportConnected \/ ServerTransportDrops
           \/ UNCHANGED vars
           \/ \E s \in Side : Start(s) \/ Stop(s) \/ TransportStart(s) \/ TransportStop(s)
           \/ \E s \in Side, c \in Conns : SocketEnds(s, c)
           \/ \E c \in Conns : handleConnectionSocketOnReady(c)
  <2>1. chan' = chan
    BY <1>2 DEF handleOnSocksServerListening, handleOnSocksServerClose,
       ClientTransportConnected, ClientConnects, ServerTransportConnected, ServerAccepts,
       ServerTransportDrops, ServerDrops, Start, Stop, TransportStart, LinkStart,
       TransportStop, LinkStop, SocketEnds, handleConnectionSocketOnReady, vars, linkVars
  <2> QED
    BY <1>1, <2>1, CloseSame
<1>3. ASSUME NEW s \in Side, TransportDisconnected(s)
      PROVE  CloseInv'
  <2>1. session[s] \in Session /\ chan' = [chan EXCEPT ![s][session[s]] = << >>]
    BY <1>0, <1>3 DEF TransportDisconnected, LinkLost, TypeOK, Session
  <2>2. \A t \in Side, k \in Session : chan'[t][k] = chan[t][k] \/ chan'[t][k] = << >>
    BY <1>0, <2>1 DEF TypeOK
  <2> QED
    BY <1>1, <2>2, CloseSame
<1>4. ASSUME NEW s \in Side,
             \/ BufferIgnored(s)
             \/ handleSocketMultiplexerOnClose(s) \/ handleSocketMultiplexerOnData(s)
             \/ s = "out" /\ handleSocketMultiplexerOnConnect
      PROVE  CloseInv'
  <2>1. session[s] # 0 /\ Incoming(s) # << >> /\ chan' = Consumed(s)
    BY <1>4 DEF BufferIgnored, handleSocketMultiplexerOnClose,
       handleSocketMultiplexerOnData, handleSocketMultiplexerOnConnect, Receives
  <2>2. session[s] \in Session
    <3>1. session[s] \in 0..MaxSessions
      BY <1>0 DEF TypeOK
    <3> QED
      BY <2>1, <3>1, MaxSessionsAssumption DEF Session
  <2> QED
    BY <1>0, <1>1, <2>1, <2>2, CloseConsumed
<1>5. ASSUME NEW s \in Side, NEW d \in Conns, handleConnectionSocketOnData(s, d)
      PROVE  CloseInv'
  <2> DEFINE m == [type |-> "DATA", id |-> IdOf[d], data |-> <<d, produced[s][d] + 1>>]
  <2>1. sendMessage(s, m) /\ conn[s][d].sock = "open" /\ produced[s][d] < MaxData
    BY <1>5 DEF handleConnectionSocketOnData
  <2>2. produced[s][d] + 1 \in 1..MaxData
    <3>1. produced[s][d] \in 0..MaxData
      BY <1>0 DEF TypeOK
    <3> QED
      BY <2>1, <3>1, TunnelAssumption
  <2>3. m \in Message
    BY <2>2, MessageTypes
  <2>4. \A c \in Conns : ~IsClose(m, c) /\ (IsData(m, c) => c = d)
    BY DEF IsClose, IsData
  <2>5. ~Dead(s, d)
    BY <2>1 DEF Dead, DeadSocket
  <2> HIDE DEF m
  <2> QED
    BY <1>0, <1>1, <2>1, <2>3, <2>4, <2>5, CloseSent
<1>6. ASSUME NEW s \in Side, NEW d \in Conns, handleConnectionSocketOnClose(s, d)
      PROVE  CloseInv'
  <2>1. CASE chan' = chan
    BY <1>1, <2>1, CloseSame
  <2>2. CASE sendMessage(s, [type |-> "CLOSE", id |-> IdOf[d]])
    <3> DEFINE m == [type |-> "CLOSE", id |-> IdOf[d]]
    <3>1. m \in Message /\ m.type = "CLOSE"
      BY MessageTypes
    <3>2. \A c \in Conns : ~IsData(m, c) /\ (IsClose(m, c) => c = d)
      BY DEF IsClose, IsData, DistinctIds
    <3>3. Dead(s, d)
      BY <1>6 DEF handleConnectionSocketOnClose
    <3> HIDE DEF m
    <3>4. sendMessage(s, m)
      BY <2>2 DEF m
    <3> QED
      BY <1>0, <1>1, <3>1, <3>2, <3>3, <3>4, CloseSent
  <2> QED
    BY <1>6, <2>1, <2>2 DEF handleConnectionSocketOnClose
<1>7. ASSUME NEW d \in Conns, handleOnSocksServerConnection(d)
      PROVE  CloseInv'
  <2> DEFINE m == [type |-> "CONNECT", id |-> IdOf[d], conn |-> d]
  <2>1. m \in Message
    BY MessageTypes
  <2>2. \A c \in Conns : ~IsData(m, c) /\ ~IsClose(m, c)
    BY DEF IsClose, IsData
  <2>3. sendMessage("in", m)
    BY <1>7 DEF handleOnSocksServerConnection
  <2> HIDE DEF m
  <2> QED
    BY <1>0, <1>1, <2>1, <2>2, <2>3, CloseSent
<1> QED
  BY <1>0, <1>2, <1>3, <1>4, <1>5, <1>6, <1>7 DEF Next

(* The socket that a CLOSE destroys has had all that the other one read:   *)
(* what is still to come would be in the channel, behind the CLOSE.        *)
LEMMA ClosedSocketHasAll ==
  ASSUME IInv, EndInv, NEW s \in Side, NEW m, m = Head(Incoming(s)), Receives(s, "CLOSE"),
         NEW d \in Conns, IdOf[d] = m.id
  PROVE  /\ Dead(Peer(s), d)
         /\ Live(s, d) => Received(s, d) = produced[Peer(s)][d]
<1> DEFINE q == chan[s][session[s]]
<1>0. TypeOK
  BY DEF IInv
<1>1. /\ ~crashed[s] /\ session[s] \in Session /\ 1 \in DOMAIN q /\ m = q[1]
      /\ m.type = "CLOSE"
  BY ReceivesFacts
<1>2. /\ Dead(Peer(s), d)
      /\ \A j \in DOMAIN q : IsData(q[j], d) => j < 1
  BY <1>1 DEF EndInv, CloseInv, IsClose
<1>3. q \in Seq(Message)
  BY <1>0, <1>1 DEF TypeOK
<1>4. \A j \in DOMAIN q : ~IsData(q[j], d)
  BY <1>2, <1>3
<1>5. ASSUME Live(s, d) PROVE Received(s, d) = produced[Peer(s)][d]
  <2>1. /\ Received(s, d) <= produced[Peer(s)][d]
        /\ Exact(q, d, Received(s, d), produced[Peer(s)][d])
    BY <1>1, <1>5 DEF IInv, FlowInv
  <2>2. \A n \in (Received(s, d) + 1)..produced[Peer(s)][d] : FALSE
    BY <1>4, <2>1 DEF Exact
  <2>3. Received(s, d) \in Nat /\ produced[Peer(s)][d] \in Nat
    BY <1>0, CountTypes
  <2> HIDE DEF q
  <2> QED
    BY <2>1, <2>2, <2>3
<1> QED
  BY <1>2, <1>5

LEMMA EndInvNext ==
  ASSUME DistinctIds, IInv, EndInv, [Next]_vars
  PROVE  EndInv'
<1>0. TypeOK /\ TypeOK' /\ EntryInv /\ CloseInv
  BY TypeOKNext DEF IInv, EndInv
<1>1. CloseInv' /\ EntryInv'
  BY <1>0, CloseInvNext, EntryInvNext
<1>2. ASSUME NEW t \in Side, NEW c \in Conns, conn'[t][c].wasClosed
      PROVE  Dead(t, c)' /\ Dead(Peer(t), c)'
             /\ (conn'[t][c].sock = "destroyed" =>
                   Len(delivered'[t][c]) + Len(conn'[t][c].messages) = produced'[Peer(t)][c])
  <2>1. CASE conn[t][c].wasClosed /\ (conn'[t][c].sock = "destroyed" => conn[t][c].sock = "destroyed")
    <3>1. Dead(t, c) /\ Dead(Peer(t), c) /\ Peer(t) \in Side
      BY <2>1, PeerType DEF EndInv, WordInv
    <3>2. Dead(t, c)' /\ Dead(Peer(t), c)' /\ produced'[Peer(t)][c] = produced[Peer(t)][c]
          /\ delivered'[t][c] = delivered[t][c]
      BY <1>0, <3>1, DeadStays
    <3>3. conn[t][c].sock = "destroyed" =>
            /\ Len(delivered[t][c]) + Len(conn[t][c].messages) = produced[Peer(t)][c]
            /\ conn'[t][c].messages = conn[t][c].messages
      BY <1>0, <2>1, DeadStays DEF EndInv, CloseComesLast
    <3> QED
      BY <2>1, <3>2, <3>3
  <2>2. CASE Keeps(t, c)
    <3>1. conn[t][c].wasClosed /\ Dead(t, c)
      BY <1>2, <2>2 DEF Keeps, EndInv, WordInv
    <3> QED
      BY <2>1, <2>2, <3>1 DEF Keeps
  <2>3. ASSUME NEW s \in Side, handleSocketMultiplexerOnClose(s),
               NEW m, m = Head(Incoming(s)), NEW d, d = connections[s][m.id],
               conn'[t][c] # conn[t][c]
        PROVE  /\ Dead(t, c)' /\ Dead(Peer(t), c)'
               /\ (conn'[t][c].sock = "destroyed" =>
                     Len(delivered'[t][c]) + Len(conn'[t][c].messages) = produced'[Peer(t)][c])
    <3>1. /\ t = s /\ c = d /\ IdOf[d] = m.id /\ conn[s][d].sock # "destroyed"
          /\ conn'[s][d].sock = IF Live(s, d) THEN "destroyed" ELSE conn[s][d].sock
          /\ conn'[s][d].messages = conn[s][d].messages
          /\ Dead(s, d)'
          /\ UNCHANGED <<produced, delivered>>
      BY <1>0, <2>3, CloseWordEffect
    <3>2. Receives(s, "CLOSE")
      BY <2>3 DEF handleSocketMultiplexerOnClose
    <3>3. /\ Dead(Peer(s), d)
          /\ Live(s, d) => Received(s, d) = produced[Peer(s)][d]
      BY <2>3, <3>1, <3>2, ClosedSocketHasAll
    <3>4. Dead(Peer(s), d)'
      BY <1>0, <3>1, <3>3, PeerType, DeadStays
    <3> QED
      BY <3>1, <3>3, <3>4 DEF Received
  <2>4. CASE conn'[t][c] = conn[t][c]
    BY <1>2, <2>1, <2>4
  <2> QED
    BY <1>0, <2>2, <2>3, <2>4, OtherStepsKeep
<1> QED
  BY <1>1, <1>2 DEF EndInv, WordInv, CloseComesLast, Dead

(* A node destroys a socket on the other's word only when the socket there *)
(* is dead, and after it was handed all that socket had read.              *)
THEOREM CloseIsLast == ASSUME DistinctIds PROVE Spec => []CloseComesLast
<1>1. Init => IInv /\ EndInv
  BY InitIInv, InitEndInv
<1>2. (IInv /\ EndInv) /\ [Next]_vars => (IInv /\ EndInv)'
  BY IInvNext, EndInvNext
<1>3. IInv /\ EndInv => CloseComesLast
  BY DEF EndInv
<1> QED
  BY <1>1, <1>2, <1>3, PTL DEF Spec

-----------------------------------------------------------------------------
(* The order of stopping: no handler writes to a multiplexer without a     *)
(* socket.                                                                 *)

LEMMA MuxIsSession ==
  ASSUME IInv, OrderInv
  PROVE  \A s \in Side : mux[s] = session[s]
BY DEF IInv, MuxInv, OrderInv

LEMMA OrderInvNext ==
  ASSUME Orderly, IInv, OrderInv, [Next]_vars
  PROVE  OrderInv'
<1>0. "in" \in Side /\ "out" \in Side /\ TypeOK
  BY DEF Side, IInv
<1>1. CASE \/ handleOnSocksServerListening \/ handleOnSocksServerClose
           \/ \E s \in Side : Start(s) \/ Stop(s)
  <2>1. UNCHANGED <<running, session>>
    BY <1>1 DEF handleOnSocksServerListening, handleOnSocksServerClose, Start, Stop, linkVars
  <2>2. CASE handleOnSocksServerListening \/ handleOnSocksServerClose
    BY <1>0, <2>1, <2>2 DEF handleOnSocksServerListening, handleOnSocksServerClose, OrderInv,
       Listens, TypeOK
  <2>3. ASSUME NEW s \in Side, Start(s) PROVE OrderInv'
    BY <2>1, <2>3 DEF Start, OrderInv, Listens, TypeOK, IInv
  <2>4. ASSUME NEW s \in Side, Stop(s) PROVE OrderInv'
    BY <2>1, <2>4 DEF Stop, OrderInv, Listens, TypeOK, IInv
  <2> QED  BY <1>1, <2>2, <2>3, <2>4
<1>2. CASE \E s \in Side : TransportStart(s) \/ TransportStop(s) \/ TransportDisconnected(s)
  BY <1>0, <1>2 DEF TransportStart, LinkStart, TransportStop, LinkStop, TransportDisconnected,
     LinkLost, nodeVars, OrderInv, Listens, TypeOK
<1>3. CASE ClientTransportConnected \/ ServerTransportConnected \/ ServerTransportDrops
  BY <1>0, <1>3 DEF ClientTransportConnected, ClientConnects, ServerTransportConnected,
     ServerAccepts, ServerTransportDrops, ServerDrops, nodeVars, OrderInv, Listens, TypeOK
<1>4. CASE UNCHANGED <<working, running, session>>
  BY <1>4 DEF OrderInv, Listens
<1> QED
  BY <1>1, <1>2, <1>3, <1>4 DEF Next, vars, linkVars, nodeVars, BufferIgnored, Receives,
     handleSocketMultiplexerOnConnect, handleSocketMultiplexerOnClose,
     handleSocketMultiplexerOnData, handleConnectionSocketOnData, SocketEnds,
     handleConnectionSocketOnClose, handleOnSocksServerConnection,
     handleConnectionSocketOnReady

(* Whoever sends has a session.                                            *)
LEMMA NoCrashNext ==
  ASSUME IInv, OrderInv, NoCrash, [Next]_vars
  PROVE  NoCrash'
<1>0. "in" \in Side /\ "out" \in Side
  BY DEF Side
<1>1. ASSUME NEW s \in Side, NEW m, session[s] # 0, sendMessage(s, m)
      PROVE  crashed' = crashed
  BY <1>1, MuxIsSession DEF sendMessage
<1>2. ASSUME NEW s \in Side, NEW c \in Conns, handleConnectionSocketOnData(s, c)
      PROVE  crashed' = crashed
  <2>1. Live(s, c) /\ ~crashed[s]
    BY <1>2 DEF handleConnectionSocketOnData, Live, LiveSocket
  <2>2. session[s] # 0
    BY <2>1, LiveIsOnline
  <2> QED
    BY <1>1, <1>2, <2>2 DEF handleConnectionSocketOnData
<1>3. ASSUME NEW s \in Side, NEW c \in Conns, handleConnectionSocketOnClose(s, c)
      PROVE  crashed' = crashed
  BY <1>1, <1>3 DEF handleConnectionSocketOnClose
<1>4. ASSUME NEW c \in Conns, handleOnSocksServerConnection(c)
      PROVE  crashed' = crashed
  BY <1>0, <1>1, <1>4 DEF handleOnSocksServerConnection
<1>5. crashed' = crashed
  BY <1>2, <1>3, <1>4 DEF Next, vars, nodeVars, handleOnSocksServerListening,
     handleOnSocksServerClose, ClientTransportConnected, ServerTransportConnected,
     ServerTransportDrops, Start, Stop, TransportStart, TransportStop,
     TransportDisconnected, BufferIgnored, Receives,
     handleSocketMultiplexerOnConnect, handleSocketMultiplexerOnClose,
     handleSocketMultiplexerOnData, SocketEnds, handleConnectionSocketOnReady
<1> QED
  BY <1>5 DEF NoCrash

-----------------------------------------------------------------------------
(* How a step changes the sessions and the channels.                       *)

LEMMA SessionSteps ==
  ASSUME IInv, [Next]_vars
  PROVE  /\ accepted <= accepted' /\ opened <= opened'
         /\ \/ session'["in"] \in {0, session["in"]}
            \/ session["in"] = 0 /\ session'["in"] = opened' /\ opened' = opened + 1
         /\ \/ session'["out"] \in {0, session["out"]}
            \/ session["out"] = 0 /\ session'["out"] = accepted' /\ accepted' = accepted + 1
         /\ \A s \in Side, k \in Session : HasLeft(s, k) => HasLeft(s, k)'
<1>0. TypeOK /\ "in" \in Side /\ "out" \in Side
  BY DEF IInv, Side
<1>1. /\ opened \in Nat /\ accepted \in Nat /\ accepted <= opened
      /\ session["in"] \in Nat /\ session["out"] \in Nat
  <2>1. opened \in 0..MaxSessions /\ accepted \in 0..opened
        /\ session["in"] \in 0..MaxSessions /\ session["out"] \in 0..MaxSessions
    BY <1>0 DEF TypeOK
  <2> QED
    BY <2>1, MaxSessionsAssumption
<1>2. CASE UNCHANGED <<opened, accepted, session>>
  BY <1>1, <1>2 DEF HasLeft
<1>3. CASE \/ ClientTransportConnected \/ ServerTransportConnected \/ ServerTransportDrops
           \/ \E s \in Side : TransportDisconnected(s) \/ TransportStop(s)
  <2>1. /\ accepted <= accepted' /\ opened <= opened'
        /\ \/ session'["in"] \in {0, session["in"]}
           \/ session["in"] = 0 /\ session'["in"] = opened' /\ opened' = opened + 1
        /\ \/ session'["out"] \in {0, session["out"]}
           \/ session["out"] = 0 /\ session'["out"] = accepted' /\ accepted' = accepted + 1
    BY <1>0, <1>1, <1>3 DEF ClientTransportConnected, ClientConnects,
       ServerTransportConnected, ServerAccepts, ServerTransportDrops, ServerDrops,
       TransportDisconnected, LinkLost, TransportStop, LinkStop, TypeOK, Side
  <2>2. ASSUME NEW s \in Side, NEW k \in Session, HasLeft(s, k)
        PROVE  HasLeft(s, k)'
    <3>1. k \in Nat \ {0} /\ opened' \in Nat /\ accepted' \in Nat
      BY <1>0, <1>1, <1>3, MaxSessionsAssumption
      DEF Session, ClientTransportConnected, ClientConnects,
         ServerTransportConnected, ServerAccepts, ServerTransportDrops, ServerDrops,
         TransportDisconnected, LinkLost, TransportStop, LinkStop
    <3>2. CASE s = "in"
      BY <1>1, <2>1, <2>2, <3>1, <3>2 DEF HasLeft
    <3>3. CASE s = "out"
      BY <1>1, <2>1, <2>2, <3>1, <3>3 DEF HasLeft
    <3> QED
      BY <3>2, <3>3 DEF Side
  <2> QED
    BY <2>1, <2>2
<1> QED
  BY <1>2, <1>3 DEF Next, vars, linkVars, BufferIgnored, Receives,
     handleOnSocksServerListening, handleOnSocksServerClose, Start, Stop, TransportStart,
     LinkStart, handleSocketMultiplexerOnConnect, handleSocketMultiplexerOnClose,
     handleSocketMultiplexerOnData, handleConnectionSocketOnData, SocketEnds,
     handleConnectionSocketOnClose, handleOnSocksServerConnection,
     handleConnectionSocketOnReady

(* The first d messages of a channel are gone, the others are still there. *)
Moved(t, k, d) ==
  \A i \in DOMAIN chan[t][k] : i > d =>
    i - d \in DOMAIN chan'[t][k] /\ chan'[t][k][i - d] = chan[t][k][i]

(* Message i was there before, or was sent now to s's peer.                *)
Was(t, k, d, i) == i + d \in DOMAIN chan[t][k] /\ chan'[t][k][i] = chan[t][k][i + d]
SentBy(s, m, t, k, i) == t = Peer(s) /\ k = session[s] /\ chan'[t][k][i] = m

LEMMA ChannelSame ==
  ASSUME TypeOK, NEW t \in Side, NEW k \in Session, chan'[t][k] = chan[t][k]
  PROVE  Moved(t, k, 0) /\ \A i \in DOMAIN chan'[t][k] : Was(t, k, 0, i)
<1>1. chan[t][k] \in Seq(Message)
  BY DEF TypeOK
<1>2. \A i \in DOMAIN chan[t][k] : i \in Nat /\ i + 0 = i /\ i - 0 = i
  BY <1>1
<1> QED
  BY <1>2 DEF Moved, Was

LEMMA ChannelRead ==
  ASSUME TypeOK, NEW s \in Side, session[s] \in Session, Incoming(s) # << >>,
         chan' = Consumed(s)
  PROVE  /\ Moved(s, session[s], 1)
         /\ \A i \in DOMAIN chan'[s][session[s]] : Was(s, session[s], 1, i)
<1> DEFINE q == chan[s][session[s]]
<1>1. q \in Seq(Message) /\ q # << >> /\ chan'[s][session[s]] = Tail(q)
  BY ConsumeEffect
<1> HIDE DEF q
<1>2. /\ DOMAIN q = 1..Len(q) /\ Len(q) \in Nat
      /\ DOMAIN Tail(q) = 1..(Len(q) - 1)
      /\ \A i \in 1..(Len(q) - 1) : Tail(q)[i] = q[i + 1]
  BY <1>1, TailIndices
<1>3. \A i \in DOMAIN q : i > 1 => i - 1 \in DOMAIN Tail(q) /\ Tail(q)[i - 1] = q[i]
  BY <1>2
<1>4. \A i \in DOMAIN Tail(q) : i + 1 \in DOMAIN q /\ Tail(q)[i] = q[i + 1]
  BY <1>2
<1> QED
  BY <1>1, <1>3, <1>4 DEF Moved, Was, q

LEMMA ChannelSent ==
  ASSUME IInv, OrderInv, NEW s \in Side, session[s] # 0, NEW m \in Message,
         sendMessage(s, m), NEW t \in Side, NEW k \in Session
  PROVE  /\ Moved(t, k, 0)
         /\ \A i \in DOMAIN chan'[t][k] : Was(t, k, 0, i) \/ SentBy(s, m, t, k, i)
         /\ t = Peer(s) /\ k = session[s] /\ ~HasLeft(t, k) =>
              /\ chan'[t][k][Len(chan[t][k]) + 1] = m
              /\ Len(chan[t][k]) + 1 \in DOMAIN chan'[t][k]
              /\ \A i \in DOMAIN chan[t][k] : i < Len(chan[t][k]) + 1
<1>0. TypeOK /\ chan[t][k] \in Seq(Message)
  BY DEF IInv, TypeOK
<1>1. mux[s] = session[s]
  BY MuxIsSession
<1>2. \/ chan'[t][k] = chan[t][k] /\ (t = Peer(s) /\ k = session[s] => HasLeft(t, k))
      \/ /\ t = Peer(s) /\ k = session[s] /\ ~HasLeft(t, k)
         /\ chan'[t][k] = Append(chan[t][k], m)
  <2>1. PICK n : n = mux[s]
    OBVIOUS
  <2>2. /\ \A u \in Side, l \in Session :
             ~(u = Peer(s) /\ l = n) => chan'[u][l] = chan[u][l]
        /\ chan'[Peer(s)][n] = IF HasLeft(Peer(s), n) THEN chan[Peer(s)][n]
                              ELSE Append(chan[Peer(s)][n], m)
    BY <1>0, <1>1, <2>1, SendEffect
  <2>3. CASE t = Peer(s) /\ k = n
    BY <1>1, <2>1, <2>2, <2>3
  <2>4. CASE ~(t = Peer(s) /\ k = n)
    BY <1>1, <2>1, <2>2, <2>4
  <2> QED
    BY <2>3, <2>4
<1>3. CASE chan'[t][k] = chan[t][k] /\ (t = Peer(s) /\ k = session[s] => HasLeft(t, k))
  BY <1>0, <1>3, ChannelSame
<1>4. CASE /\ t = Peer(s) /\ k = session[s] /\ ~HasLeft(t, k)
           /\ chan'[t][k] = Append(chan[t][k], m)
  <2> DEFINE q == chan[t][k]
  <2>1. /\ DOMAIN q = 1..Len(q) /\ Len(q) \in Nat
        /\ DOMAIN Append(q, m) = 1..(Len(q) + 1)
        /\ \A i \in 1..Len(q) : Append(q, m)[i] = q[i]
        /\ Append(q, m)[Len(q) + 1] = m
    BY <1>0, AppendProperties
  <2>2. chan'[t][k] = Append(q, m)
    BY <1>4
  <2> HIDE DEF q
  <2>3. /\ \A i \in DOMAIN q : i - 0 \in DOMAIN Append(q, m) /\ Append(q, m)[i - 0] = q[i]
        /\ \A i \in DOMAIN Append(q, m) :
             (i + 0 \in DOMAIN q /\ Append(q, m)[i] = q[i + 0]) \/ Append(q, m)[i] = m
        /\ \A i \in DOMAIN q : i < Len(q) + 1
        /\ Len(q) + 1 \in DOMAIN Append(q, m)
    BY <2>1
  <2> QED
    BY <1>4, <2>1, <2>2, <2>3 DEF Moved, Was, SentBy, q
<1> QED
  BY <1>2, <1>3, <1>4

(* What the three handlers that send do, when the sender has a session.    *)
LEMMA Senders ==
  ASSUME IInv, OrderInv, NoCrash, NEW s \in Side, NEW c \in Conns,
         \/ handleConnectionSocketOnData(s, c)
         \/ handleConnectionSocketOnClose(s, c)
         \/ s = "in" /\ handleOnSocksServerConnection(c)
  PROVE  \/ chan' = chan
         \/ \E m \in Message :
              /\ session[s] # 0 /\ sendMessage(s, m)
              /\ m.type = "CONNECT" => handleOnSocksServerConnection(m.conn)
<1>1. CASE handleConnectionSocketOnData(s, c)
  <2> DEFINE m == [type |-> "DATA", id |-> IdOf[c], data |-> <<c, produced[s][c] + 1>>]
  <2>1. sendMessage(s, m) /\ conn[s][c].sock = "open" /\ produced[s][c] < MaxData
        /\ m.type = "DATA"
    BY <1>1 DEF handleConnectionSocketOnData
  <2>2. produced[s][c] + 1 \in 1..MaxData
    <3>1. produced[s][c] \in 0..MaxData
      BY DEF IInv, TypeOK
    <3> QED
      BY <2>1, <3>1, TunnelAssumption
  <2>3. m \in Message
    BY <2>2, MessageTypes
  <2>4. session[s] # 0
    BY <2>1, LiveIsOnline DEF Live, LiveSocket, NoCrash
  <2> HIDE DEF m
  <2> QED
    BY <2>1, <2>3, <2>4
<1>2. CASE handleConnectionSocketOnClose(s, c)
  BY <1>2, MessageTypes DEF handleConnectionSocketOnClose
<1>3. CASE s = "in" /\ handleOnSocksServerConnection(c)
  BY <1>3, MessageTypes DEF handleOnSocksServerConnection
<1> QED
  BY <1>1, <1>2, <1>3

Reading(t) ==
  \/ handleSocketMultiplexerOnClose(t) \/ handleSocketMultiplexerOnData(t)
  \/ t = "out" /\ handleSocketMultiplexerOnConnect

(* A channel loses all its messages when its reader has left the session,  *)
(* its first message when it is read, and none otherwise; it gets messages *)
(* in sessions that have begun, and CONNECT only for a new client.         *)
LEMMA ChannelSteps ==
  ASSUME IInv, OrderlyInv, TypeOK', [Next]_vars, NEW t \in Side, NEW k \in Session
  PROVE  \/ HasLeft(t, k)' /\ chan'[t][k] = << >>
         \/ \E d \in {0, 1} :
              /\ d = 1 => k = session[t] /\ Reading(t)
              /\ Moved(t, k, d)
              /\ \A i \in DOMAIN chan'[t][k] :
                   \/ Was(t, k, d, i)
                   \/ /\ k <= opened
                      /\ chan'[t][k][i].type = "CONNECT" =>
                           handleOnSocksServerConnection(chan'[t][k][i].conn)
<1>0. /\ TypeOK /\ "in" \in Side /\ "out" \in Side
      /\ OrderInv /\ NoCrash /\ BegunInv
  BY DEF IInv, Side, OrderlyInv
<1>1. \A s \in Side : session[s] <= opened /\ (session[s] # 0 => session[s] \in Session)
  BY <1>0, MaxSessionsAssumption DEF BegunInv, Side, TypeOK, Session
<1>2. CASE chan'[t][k] = chan[t][k]
  BY <1>0, <1>2, ChannelSame
<1>3. ASSUME NEW s \in Side, TransportDisconnected(s)
      PROVE  chan'[t][k] = chan[t][k] \/ (HasLeft(t, k)' /\ chan'[t][k] = << >>)
  <2>1. /\ session[s] # 0 /\ session' = [session EXCEPT ![s] = 0]
        /\ chan' = [chan EXCEPT ![s][session[s]] = << >>]
        /\ UNCHANGED <<opened, accepted>>
    BY <1>3 DEF TransportDisconnected, LinkLost
  <2>2. CASE t = s /\ k = session[s]
    <3>1. session'[t] = 0 /\ chan'[t][k] = << >> /\ k # 0
      BY <1>0, <2>1, <2>2 DEF TypeOK
    <3>2. k <= IF s = "in" THEN opened' ELSE accepted'
      BY <1>0, <2>1, <2>2 DEF BegunInv, Side
    <3> QED
      BY <2>2, <3>1, <3>2 DEF HasLeft
  <2>3. CASE ~(t = s /\ k = session[s])
    BY <1>0, <1>1, <2>1, <2>3 DEF TypeOK
  <2> QED
    BY <2>2, <2>3
<1>4. ASSUME NEW s \in Side, BufferIgnored(s)
      PROVE  FALSE
  BY <1>0, <1>4, MuxIsSession DEF BufferIgnored
<1>5. ASSUME NEW s \in Side, Reading(s)
      PROVE  \/ chan'[t][k] = chan[t][k]
             \/ /\ t = s /\ k = session[s] /\ Moved(t, k, 1)
                /\ \A i \in DOMAIN chan'[t][k] : Was(t, k, 1, i)
  <2>1. session[s] \in Session /\ Incoming(s) # << >> /\ chan' = Consumed(s)
    BY <1>1, <1>5 DEF Reading, handleSocketMultiplexerOnClose,
       handleSocketMultiplexerOnData, handleSocketMultiplexerOnConnect, Receives
  <2> QED
    BY <1>0, <2>1, ChannelRead, ConsumeEffect
<1>6. ASSUME NEW s \in Side, NEW c \in Conns,
             \/ handleConnectionSocketOnData(s, c)
             \/ handleConnectionSocketOnClose(s, c)
             \/ s = "in" /\ handleOnSocksServerConnection(c)
      PROVE  \/ chan'[t][k] = chan[t][k]
             \/ /\ Moved(t, k, 0)
                /\ \A i \in DOMAIN chan'[t][k] :
                     \/ Was(t, k, 0, i)
                     \/ /\ k <= opened
                        /\ chan'[t][k][i].type = "CONNECT" =>
                             handleOnSocksServerConnection(chan'[t][k][i].conn)
  <2>1. CASE chan' = chan
    BY <2>1
  <2>2. ASSUME NEW m \in Message, session[s] # 0, sendMessage(s, m),
               m.type = "CONNECT" => handleOnSocksServerConnection(m.conn)
        PROVE  /\ Moved(t, k, 0)
               /\ \A i \in DOMAIN chan'[t][k] :
                    \/ Was(t, k, 0, i)
                    \/ /\ k <= opened
                       /\ chan'[t][k][i].type = "CONNECT" =>
                            handleOnSocksServerConnection(chan'[t][k][i].conn)
    BY <1>0, <1>1, <2>2, ChannelSent DEF SentBy
  <2> QED
    BY <1>0, <1>6, <2>1, <2>2, Senders
<1>7. CASE \/ handleOnSocksServerListening \/ handleOnSocksServerClose
           \/ ClientTransportConnected \/ ServerTransportConnected \/ ServerTransportDrops
           \/ UNCHANGED vars
           \/ \E s \in Side : Start(s) \/ Stop(s) \/ TransportStart(s) \/ TransportStop(s)
           \/ \E s \in Side, c \in Conns : SocketEnds(s, c)
           \/ \E c \in Conns : handleConnectionSocketOnReady(c)
  <2>1. chan' = chan
    BY <1>7 DEF handleOnSocksServerListening, handleOnSocksServerClose,
       ClientTransportConnected, ClientConnects, ServerTransportConnected, ServerAccepts,
       ServerTransportDrops, ServerDrops, Start, Stop, TransportStart, LinkStart,
       TransportStop, LinkStop, SocketEnds, handleConnectionSocketOnReady, vars, linkVars
  <2> QED
    BY <1>2, <2>1
<1>8. CASE \E s \in Side : Reading(s)
  BY <1>2, <1>5, <1>8
<1>9. CASE \E s \in Side : TransportDisconnected(s)
  BY <1>2, <1>3, <1>9
<1>10. CASE \E s \in Side, c \in Conns :
             \/ handleConnectionSocketOnData(s, c)
             \/ handleConnectionSocketOnClose(s, c)
             \/ s = "in" /\ handleOnSocksServerConnection(c)
  BY <1>2, <1>6, <1>10
<1> QED
  BY <1>0, <1>4, <1>7, <1>8, <1>9, <1>10 DEF Next, Reading

-----------------------------------------------------------------------------
(* How a step changes the life of a socket.                                *)

Opens(s, c) ==
  \/ s = "in" /\ handleOnSocksServerConnection(c)
  \/ /\ s = "out" /\ handleSocketMultiplexerOnConnect
     /\ Head(Incoming("out")).conn = c

LEMMA SocketStepsPhases ==
  ASSUME IInv, TypeOK', NEW s \in Side, NEW d \in Conns,
         \/ handleConnectionSocketOnData(s, d)
         \/ SocketEnds(s, d)
         \/ handleConnectionSocketOnClose(s, d)
         \/ s = "in" /\ handleOnSocksServerConnection(d)
         \/ s = "out" /\ handleConnectionSocketOnReady(d)
  PROVE  /\ \A t \in Side, c \in Conns : ~(t = s /\ c = d) => conn'[t][c] = conn[t][c]
         /\ \/ conn'[s][d] = conn[s][d] /\ conn[s][d].sock = "open"
               /\ handleConnectionSocketOnData(s, d)
            \/ Live(s, d) /\ conn'[s][d].sock = "ended"
               /\ conn'[s][d].closed = conn[s][d].closed /\ SocketEnds(s, d)
            \/ Dead(s, d) /\ conn'[s][d].sock = conn[s][d].sock
               /\ ~conn[s][d].closed /\ conn'[s][d].closed
               /\ handleConnectionSocketOnClose(s, d)
            \/ conn[s][d].sock = "none" /\ conn'[s][d].sock = "open"
               /\ conn'[s][d].closed = conn[s][d].closed
               /\ s = "in" /\ handleOnSocksServerConnection(d)
            \/ conn[s][d].sock = "connecting" /\ conn'[s][d].sock = "open"
               /\ conn'[s][d].closed = conn[s][d].closed
               /\ s = "out" /\ handleConnectionSocketOnReady(d)
<1>0. conn[s][d] \in ConnectionObject /\ conn \in [Side -> [Conns -> ConnectionObject]]
  BY DEF IInv, TypeOK
<1>1. CASE handleConnectionSocketOnData(s, d)
  BY <1>1 DEF handleConnectionSocketOnData
<1>2. CASE SocketEnds(s, d)
  <2>1. PICK o : o = [conn[s][d] EXCEPT !.sock = "ended"]
                 /\ conn' = [conn EXCEPT ![s][d] = o]
    BY <1>2 DEF SocketEnds
  <2>2. /\ conn'[s][d] = o
        /\ \A t \in Side, c \in Conns : ~(t = s /\ c = d) => conn'[t][c] = conn[t][c]
    BY <1>0, <2>1
  <2>3. o.sock = "ended" /\ o.closed = conn[s][d].closed /\ Live(s, d)
    BY <1>0, <1>2, <2>1 DEF ConnectionObject, SocketEnds
  <2> QED
    BY <1>2, <2>2, <2>3
<1>3. CASE handleConnectionSocketOnClose(s, d)
  <2>1. PICK o : o = [conn[s][d] EXCEPT !.closed = TRUE, !.connected = FALSE]
                 /\ conn' = [conn EXCEPT ![s][d] = o]
    BY <1>3 DEF handleConnectionSocketOnClose
  <2>2. /\ conn'[s][d] = o
        /\ \A t \in Side, c \in Conns : ~(t = s /\ c = d) => conn'[t][c] = conn[t][c]
    BY <1>0, <2>1
  <2>3. /\ o.sock = conn[s][d].sock /\ o.closed = TRUE
        /\ Dead(s, d) /\ ~conn[s][d].closed
    BY <1>0, <1>3, <2>1 DEF ConnectionObject, handleConnectionSocketOnClose
  <2> QED
    BY <1>3, <2>2, <2>3
<1>4. CASE s = "in" /\ handleOnSocksServerConnection(d)
  <2>1. PICK o : o = [conn[s][d] EXCEPT !.sock = "open", !.connected = TRUE]
                 /\ conn' = [conn EXCEPT ![s][d] = o]
    BY <1>4 DEF handleOnSocksServerConnection
  <2>2. /\ conn'[s][d] = o
        /\ \A t \in Side, c \in Conns : ~(t = s /\ c = d) => conn'[t][c] = conn[t][c]
    BY <1>0, <2>1
  <2>3. /\ o.sock = "open" /\ o.closed = conn[s][d].closed /\ conn[s][d].sock = "none"
    BY <1>0, <1>4, <2>1 DEF ConnectionObject, handleOnSocksServerConnection
  <2> QED
    BY <1>4, <2>2, <2>3
<1>5. CASE s = "out" /\ handleConnectionSocketOnReady(d)
  <2>1. PICK o : o = [conn[s][d] EXCEPT !.sock = "open", !.connected = TRUE,
                                        !.messages = << >>]
                 /\ conn' = [conn EXCEPT ![s][d] = o]
    BY <1>5 DEF handleConnectionSocketOnReady
  <2>2. /\ conn'[s][d] = o
        /\ \A t \in Side, c \in Conns : ~(t = s /\ c = d) => conn'[t][c] = conn[t][c]
    BY <1>0, <2>1
  <2>3. /\ o.sock = "open" /\ o.closed = conn[s][d].closed
        /\ conn[s][d].sock = "connecting"
    BY <1>0, <1>5, <2>1 DEF ConnectionObject, handleConnectionSocketOnReady
  <2> QED
    BY <1>5, <2>2, <2>3
<1> QED
  BY <1>1, <1>2, <1>3, <1>4, <1>5

(* A socket is opened once, and emits 'close' in its handler only.         *)
LEMMA PhaseSteps ==
  ASSUME IInv, EntryInv, TypeOK', [Next]_vars, NEW t \in Side, NEW c \in Conns
  PROVE  /\ conn[t][c].sock # "none" => conn'[t][c].sock # "none"
         /\ conn'[t][c].sock # "none" => conn[t][c].sock # "none" \/ Opens(t, c)
         /\ Live(t, c)' => Live(t, c) \/ Opens(t, c)
         /\ conn'[t][c].closed => conn[t][c].closed \/ handleConnectionSocketOnClose(t, c)
<1>0. TypeOK /\ conn[t][c] \in ConnectionObject /\ "in" \in Side /\ "out" \in Side
  BY DEF IInv, TypeOK, Side
<1>1. CASE conn'[t][c].sock = conn[t][c].sock /\ conn'[t][c].closed = conn[t][c].closed
  BY <1>1 DEF Live
<1>2. CASE conn'[t][c] = destroy(conn[t][c])
  <2>1. destroy(conn[t][c]).closed = conn[t][c].closed
    BY <1>0 DEF destroy, ConnectionObject
  <2>2. /\ destroy(conn[t][c]).sock \notin LiveSocket
        /\ destroy(conn[t][c]).sock = "none" <=> conn[t][c].sock = "none"
    BY <1>0, DestroyFields
  <2> QED
    BY <1>2, <2>1, <2>2 DEF Live
<1>3. CASE \/ handleOnSocksServerListening \/ handleOnSocksServerClose
           \/ ClientTransportConnected \/ ServerTransportConnected \/ ServerTransportDrops
           \/ UNCHANGED vars
           \/ \E s \in Side : \/ Start(s) \/ Stop(s) \/ TransportStart(s) \/ TransportStop(s)
                              \/ TransportDisconnected(s) \/ BufferIgnored(s)
  BY <1>1, <1>2, <1>3, NodeStepsKeep
<1>4. CASE handleSocketMultiplexerOnConnect
  <2>1. PICK m : m = Head(Incoming("out"))
    OBVIOUS
  <2>2. /\ m.conn \in Conns /\ conn["out"][m.conn].sock = "none"
        /\ conn'["out"][m.conn].sock = "connecting"
        /\ \A u \in Side, d \in Conns : ~(u = "out" /\ d = m.conn) => conn'[u][d] = conn[u][d]
    BY <1>4, <2>1, ConnectKeeps
  <2>3. CASE t = "out" /\ c = m.conn
    <3>1. conn'[t][c].closed = conn[t][c].closed
      <4>1. PICK o : /\ o = [conn["out"][m.conn] EXCEPT !.sock = "connecting"]
                     /\ conn' = [conn EXCEPT !["out"][m.conn] = o]
        BY <1>4, <2>1 DEF handleSocketMultiplexerOnConnect
      <4>2. o.closed = conn["out"][m.conn].closed
        BY <1>0, <2>3, <4>1 DEF ConnectionObject
      <4>3. conn'["out"][m.conn] = o
        BY <1>0, <2>2, <4>1 DEF TypeOK
      <4> QED
        BY <2>3, <4>2, <4>3
    <3> QED
      BY <1>4, <2>1, <2>2, <2>3, <3>1 DEF Opens
  <2>4. CASE ~(t = "out" /\ c = m.conn)
    BY <1>1, <2>2, <2>4
  <2> QED
    BY <2>3, <2>4
<1>5. ASSUME NEW s \in Side, handleSocketMultiplexerOnData(s)
      PROVE  conn'[t][c].sock = conn[t][c].sock /\ conn'[t][c].closed = conn[t][c].closed
  BY <1>5, DataKeeps
<1>6. ASSUME NEW s \in Side, handleSocketMultiplexerOnClose(s),
             NEW m, m = Head(Incoming(s)), NEW d, d = connections[s][m.id],
             conn'[t][c] # conn[t][c]
      PROVE  /\ conn[t][c].sock # "none" /\ Dead(t, c)'
             /\ conn'[t][c].closed = conn[t][c].closed
  BY <1>6, CloseWordEffect
<1>7. ASSUME Dead(t, c)'
      PROVE  ~Live(t, c)' /\ conn'[t][c].sock # "none"
  BY <1>7 DEF Dead, Live, DeadSocket, LiveSocket
<1>8. ASSUME NEW s \in Side, NEW d \in Conns,
             \/ handleConnectionSocketOnData(s, d)
             \/ SocketEnds(s, d)
             \/ handleConnectionSocketOnClose(s, d)
             \/ s = "in" /\ handleOnSocksServerConnection(d)
             \/ s = "out" /\ handleConnectionSocketOnReady(d)
      PROVE  /\ conn[t][c].sock # "none" => conn'[t][c].sock # "none"
             /\ conn'[t][c].sock # "none" => conn[t][c].sock # "none" \/ Opens(t, c)
             /\ Live(t, c)' => Live(t, c) \/ Opens(t, c)
             /\ conn'[t][c].closed => conn[t][c].closed \/ handleConnectionSocketOnClose(t, c)
  <2>1. CASE ~(t = s /\ c = d)
    BY <1>1, <1>8, <2>1, SocketStepsPhases
  <2>2. CASE t = s /\ c = d
    BY <1>8, <2>2, SocketStepsPhases DEF Live, Dead, LiveSocket, DeadSocket, Opens
  <2> QED
    BY <2>1, <2>2
<1>9. CASE \E s \in Side : handleSocketMultiplexerOnClose(s)
  BY <1>1, <1>6, <1>7, <1>9
<1>10. CASE \E s \in Side : handleSocketMultiplexerOnData(s)
  BY <1>1, <1>5, <1>10
<1> QED
  BY <1>0, <1>3, <1>4, <1>8, <1>9, <1>10 DEF Next

-----------------------------------------------------------------------------
(* OrderlyInv.                                                             *)

LEMMA InitOrderlyInv == Init => OrderlyInv
<1> SUFFICES ASSUME Init PROVE OrderlyInv
  OBVIOUS
<1>1. /\ \A s \in Side, c \in Conns : conn[s][c].sock = "none" /\ conn[s][c].closed = FALSE
      /\ \A s \in Side : session[s] = 0 /\ running[s] = FALSE /\ crashed[s] = FALSE
      /\ opened = 0 /\ accepted = 0
  BY DEF Init, LinkInit, NoConnection
<1>2. \A s \in Side, k \in Session : chan[s][k] = << >>
  BY DEF Init, LinkInit
<1>3. OrderInv /\ NoCrash /\ BegunInv
  BY <1>1, <1>2 DEF OrderInv, NoCrash, BegunInv, Side
<1>4. SoughtInv /\ ToldInv
  BY <1>1 DEF SoughtInv, ToldInv, Live, LiveSocket, Side
<1> QED
  BY <1>3, <1>4 DEF OrderlyInv

LEMMA BegunInvNext ==
  ASSUME IInv, OrderlyInv, TypeOK', [Next]_vars
  PROVE  BegunInv'
<1>0. /\ TypeOK /\ BegunInv
      /\ opened \in Nat /\ accepted \in Nat /\ opened' \in Nat /\ accepted' \in Nat
  <2>1. /\ opened \in 0..MaxSessions /\ opened' \in 0..MaxSessions
        /\ accepted \in 0..opened /\ accepted' \in 0..opened'
    BY DEF IInv, TypeOK
  <2> QED
    BY <2>1, MaxSessionsAssumption DEF IInv, OrderlyInv
<1>1. session'["in"] <= opened' /\ session'["out"] <= accepted'
  <2>1. /\ session["in"] <= opened /\ session["out"] <= accepted
        /\ session["in"] \in Nat /\ session["out"] \in Nat
    <3>1. session["in"] \in 0..MaxSessions /\ session["out"] \in 0..MaxSessions
      BY <1>0 DEF TypeOK, Side
    <3> QED
      BY <1>0, <3>1, MaxSessionsAssumption DEF BegunInv
  <2>2. accepted <= accepted' /\ opened <= opened'
    BY SessionSteps
  <2>3. session'["in"] \in {0, session["in"], opened'}
        /\ session'["out"] \in {0, session["out"], accepted'}
    BY SessionSteps
  <2> QED
    BY <1>0, <2>1, <2>2, <2>3
<1>2. ASSUME NEW s \in Side, NEW k \in Session, k > opened'
      PROVE  chan'[s][k] = << >>
  <2>1. k > opened /\ chan[s][k] = << >> /\ ~(k <= opened)
    <3>1. opened <= opened'
      BY SessionSteps
    <3>2. k \in Nat
      BY MaxSessionsAssumption DEF Session
    <3>3. k > opened /\ ~(k <= opened)
      BY <1>0, <1>2, <3>1, <3>2
    <3> QED
      BY <1>0, <3>3 DEF BegunInv
  <2>2. CASE \E d \in {0, 1} : \A i \in DOMAIN chan'[s][k] : Was(s, k, d, i) \/ k <= opened
    <3>1. DOMAIN chan'[s][k] = {}
      BY <2>1, <2>2 DEF Was
    <3>2. PICK q \in Seq(Message) : q = chan'[s][k]
      BY DEF TypeOK
    <3>3. DOMAIN q = 1..Len(q) /\ Len(q) \in Nat
      BY <3>2, LenProperties
    <3>4. DOMAIN q = {}
      BY <3>1, <3>2
    <3>5. Len(q) = 0
      <4>1. 1 \notin 1..Len(q)
        BY <3>3, <3>4
      <4> QED
        BY <3>3, <4>1
    <3> QED
      BY <3>2, <3>5, EmptySeq
  <2>3. \/ chan'[s][k] = << >>
        \/ \E d \in {0, 1} : \A i \in DOMAIN chan'[s][k] : Was(s, k, d, i) \/ k <= opened
    BY ChannelSteps
  <2> QED
    BY <2>2, <2>3
<1> QED
  BY <1>1, <1>2 DEF BegunInv

(* A CONNECT waits to be read, and then opens the socket.                  *)
LEMMA ConnectKept ==
  ASSUME IInv, OrderlyInv, TypeOK', [Next]_vars, NEW k \in Session, NEW c \in Conns,
         HasConnect(k, c)
  PROVE  HasLeft("out", k)' \/ HasConnect(k, c)' \/ conn'["out"][c].sock # "none"
<1>0. TypeOK /\ "out" \in Side
  BY DEF IInv, Side
<1>1. PICK i \in DOMAIN chan["out"][k] : IsConnect(chan["out"][k][i], c)
  BY DEF HasConnect
<1>2. i \in Nat \ {0}
  BY <1>0 DEF TypeOK
<1>3. CASE HasLeft("out", k)'
  BY <1>3
<1>4. ASSUME NEW d \in {0, 1}, d = 1 => k = session["out"] /\ Reading("out"),
             Moved("out", k, d)
      PROVE  HasConnect(k, c)' \/ conn'["out"][c].sock # "none"
  <2>1. CASE i > d
    BY <1>1, <1>4, <2>1 DEF Moved, HasConnect, IsConnect
  <2>2. CASE ~(i > d)
    <3>1. i = 1 /\ k = session["out"] /\ Reading("out")
      BY <1>2, <1>4, <2>2
    <3>2. PICK m : m = Head(Incoming("out"))
      OBVIOUS
    <3>3. m = chan["out"][k][1] /\ m.type = "CONNECT" /\ m.conn = c
      <4>1. chan["out"][k] \in Seq(Message) /\ chan["out"][k] # << >>
        BY <1>0, <1>1 DEF TypeOK
      <4>2. m = chan["out"][k][1]
        BY <3>1, <3>2, <4>1, TailIndices DEF Incoming
      <4> QED
        BY <1>1, <3>1, <4>2 DEF IsConnect
    <3>4. handleSocketMultiplexerOnConnect
      BY <3>1, <3>2, <3>3 DEF Reading, handleSocketMultiplexerOnClose,
         handleSocketMultiplexerOnData, Receives
    <3> QED
      BY <3>2, <3>3, <3>4, ConnectKeeps
  <2> QED
    BY <2>1, <2>2
<1> QED
  BY <1>0, <1>3, <1>4, ChannelSteps

(* A CLOSE waits to be read, and then ends the socket.                     *)
LEMMA CloseKept ==
  ASSUME IInv, EntryInv, OrderlyInv, TypeOK', [Next]_vars, DistinctIds,
         NEW s \in Side, NEW c \in Conns, Live(s, c),
         NEW k \in Session, k = session[s], HasClose(s, k, c)
  PROVE  HasLeft(s, k)' \/ HasClose(s, k, c)' \/ ~Live(s, c)'
<1>0. /\ TypeOK /\ connections[s][IdOf[c]] = c
  BY LiveIsOnline DEF IInv, OrderlyInv, NoCrash
<1>1. PICK i \in DOMAIN chan[s][k] : IsClose(chan[s][k][i], c)
  BY DEF HasClose
<1>2. i \in Nat \ {0}
  BY <1>0 DEF TypeOK
<1>4. ASSUME NEW d \in {0, 1}, d = 1 => Reading(s), Moved(s, k, d)
      PROVE  (\E j \in DOMAIN chan'[s][k] : IsClose(chan'[s][k][j], c)) \/ ~Live(s, c)'
  <2>1. CASE i > d
    BY <1>1, <1>4, <2>1 DEF Moved, IsClose
  <2>2. CASE ~(i > d)
    <3>1. i = 1 /\ Reading(s)
      BY <1>2, <1>4, <2>2
    <3>2. PICK m : m = Head(Incoming(s))
      OBVIOUS
    <3>3. m.type = "CLOSE" /\ m.id = IdOf[c]
      <4>1. chan[s][k] \in Seq(Message) /\ chan[s][k] # << >>
        BY <1>0, <1>1 DEF TypeOK
      <4>2. m = chan[s][k][1]
        BY <3>1, <3>2, <4>1, TailIndices DEF Incoming
      <4> QED
        BY <1>1, <3>1, <4>2 DEF IsClose
    <3>4. handleSocketMultiplexerOnClose(s)
      BY <3>1, <3>2, <3>3 DEF Reading, handleSocketMultiplexerOnConnect,
         handleSocketMultiplexerOnData, Receives
    <3>5. Dead(s, c)'
      <4>1. c # None /\ c = connections[s][m.id]
        BY <1>0, <3>3, TunnelAssumption
      <4>2. UNCHANGED conn => FALSE
        <5>1. /\ conn' = [conn EXCEPT ![s][c] = [destroy(conn[s][c]) EXCEPT !.wasClosed = TRUE]]
              /\ connections' = [connections EXCEPT ![s][m.id] = None]
          BY <3>2, <3>4, <4>1 DEF handleSocketMultiplexerOnClose
        <5>2. connections'[s][m.id] = None
          BY <1>0, <3>3, <5>1, TunnelAssumption DEF TypeOK
        <5>3. conn[s][c] \in ConnectionObject /\ conn'[s][c] = [destroy(conn[s][c]) EXCEPT !.wasClosed = TRUE]
          BY <1>0, <5>1 DEF TypeOK
        <5>4. conn'[s][c].sock = "destroyed" /\ conn[s][c].sock # "destroyed"
          BY <5>3 DEF Live, destroy, ConnectionObject, LiveSocket, DeadSocket
        <5> QED
          BY <5>4
      <4> QED
        BY <3>2, <3>4, <4>1, <4>2, CloseWordEffect
    <3> QED
      BY <3>5 DEF Dead, Live, DeadSocket, LiveSocket
  <2> QED
    BY <2>1, <2>2
<1>5. \/ HasLeft(s, k)'
      \/ \E d \in {0, 1} : (d = 1 => Reading(s)) /\ Moved(s, k, d)
  BY ChannelSteps
<1> QED
  BY <1>4, <1>5 DEF HasClose

LEMMA SessionValues ==
  ASSUME TypeOK, NEW s \in Side, session[s] # 0
  PROVE  session[s] \in Session
<1>1. session[s] \in 0..MaxSessions
  BY DEF TypeOK
<1> QED
  BY <1>1, MaxSessionsAssumption DEF Session

(* A socket that lives on does so in the same session.                     *)
LEMMA LiveSession ==
  ASSUME IInv, IInv', NoCrash, NoCrash', [Next]_vars, NEW s \in Side, NEW c \in Conns,
         Live(s, c), Live(s, c)'
  PROVE  session'[s] = session[s] /\ session[s] \in Session
<1>1. session[s] \in Session /\ session[s] # 0
  BY LiveIsOnline DEF NoCrash
<1>2. session'[s] # 0
  BY DEF IInv, LiveIsTracked, NoCrash
<1> QED
  BY <1>1, <1>2, SessionSteps DEF Side

LEMMA OpensFacts ==
  ASSUME IInv, OrderlyInv, TypeOK', NEW s \in Side, NEW c \in Conns, Opens(s, c)
  PROVE  /\ conn[s][c].sock = "none" /\ session' = session /\ UNCHANGED <<opened, accepted>>
         /\ s = "in" => conn["out"][c].sock = "none" /\ conn'["out"][c] = conn["out"][c]
         /\ s = "out" =>
              /\ handleSocketMultiplexerOnConnect /\ conn'["in"][c] = conn["in"][c]
              /\ session["out"] \in Session /\ 1 \in DOMAIN chan["out"][session["out"]]
              /\ IsConnect(chan["out"][session["out"]][1], c)
<1>0. TypeOK /\ "in" \in Side /\ "out" \in Side
  BY DEF IInv, Side
<1>1. CASE s = "in" /\ handleOnSocksServerConnection(c)
  <2>1. /\ conn["in"][c].sock = "none" /\ session' = session
        /\ UNCHANGED <<opened, accepted>>
    BY <1>1 DEF handleOnSocksServerConnection
  <2>2. conn["out"][c].sock = "none"
    BY <1>0, <2>1 DEF IInv, ObjectInv
  <2>3. conn'["out"][c] = conn["out"][c]
    BY <1>0, <1>1, SocketStepsPhases
  <2> QED
    BY <1>1, <2>1, <2>2, <2>3
<1>2. CASE /\ s = "out" /\ handleSocketMultiplexerOnConnect
           /\ Head(Incoming("out")).conn = c
  <2>1. PICK m : m = Head(Incoming("out"))
    OBVIOUS
  <2>2. /\ conn["out"][c].sock = "none" /\ m.conn = c /\ conn'["in"][c] = conn["in"][c]
        /\ m.type = "CONNECT"
    BY <1>0, <1>2, <2>1, ConnectKeeps
  <2>3. /\ session["out"] \in Session /\ 1 \in DOMAIN chan["out"][session["out"]]
        /\ m = chan["out"][session["out"]][1]
        /\ session' = session /\ UNCHANGED <<opened, accepted>>
    BY <1>0, <1>2, <2>1, ReceivesFacts DEF handleSocketMultiplexerOnConnect
  <2> QED
    BY <1>2, <2>2, <2>3 DEF IsConnect
<1> QED
  BY <1>1, <1>2 DEF Opens

LEMMA SoughtInvNext ==
  ASSUME DistinctIds, IInv, IInv', EntryInv, OrderlyInv, NoCrash', [Next]_vars
  PROVE  SoughtInv'
<1>0. /\ TypeOK /\ TypeOK' /\ NoCrash /\ "in" \in Side /\ "out" \in Side
      /\ accepted <= accepted' /\ accepted \in Nat /\ accepted' \in Nat
  <2>1. accepted \in 0..opened /\ accepted' \in 0..opened' /\ accepted <= accepted'
    BY SessionSteps DEF IInv, TypeOK
  <2> QED
    BY <2>1 DEF IInv, OrderlyInv, Side
<1> SUFFICES ASSUME NEW c \in Conns, Live("in", c)'
             PROVE  /\ conn'["out"][c].sock # "none" => session'["in"] <= accepted'
                    /\ conn'["out"][c].sock = "none" =>
                         \E k \in Session : /\ k = session'["in"]
                                            /\ HasLeft("out", k)' \/ HasConnect(k, c)'
  BY DEF SoughtInv, HasLeft, HasConnect, IsConnect
<1>1. CASE Live("in", c)
  <2>1. PICK k \in Session : k = session["in"] /\ k = session'["in"]
    BY <1>0, <1>1, LiveSession
  <2>2. k \in Nat
    BY MaxSessionsAssumption DEF Session
  <2>3. ASSUME conn'["out"][c].sock # "none"
        PROVE  k <= accepted
    <3>1. CASE conn["out"][c].sock # "none"
      BY <1>1, <2>1, <3>1 DEF OrderlyInv, SoughtInv
    <3>2. CASE Opens("out", c)
      <4>1. /\ session["out"] \in Session /\ 1 \in DOMAIN chan["out"][session["out"]]
            /\ IsConnect(chan["out"][session["out"]][1], c)
        BY <1>0, <3>2, OpensFacts
      <4>2. session["out"] = k
        BY <1>0, <1>1, <2>1, <4>1 DEF IInv, PendingInv, HasLeft, NoCrash
      <4> QED
        BY <4>2 DEF OrderlyInv, BegunInv
    <3> QED
      BY <1>0, <2>3, <3>1, <3>2, PhaseSteps
  <2>4. ASSUME conn'["out"][c].sock = "none"
        PROVE  HasLeft("out", k)' \/ HasConnect(k, c)'
    <3>1. conn["out"][c].sock = "none"
      BY <1>0, <2>4, PhaseSteps
    <3>2. HasLeft("out", k) \/ HasConnect(k, c)
      BY <1>1, <2>1, <3>1 DEF OrderlyInv, SoughtInv
    <3>3. CASE HasLeft("out", k)
      BY <1>0, <3>3, SessionSteps
    <3>4. CASE HasConnect(k, c)
      BY <1>0, <2>4, <3>4, ConnectKept
    <3> QED
      BY <3>2, <3>3, <3>4
  <2> QED
    BY <1>0, <2>1, <2>2, <2>3, <2>4
<1>2. CASE ~Live("in", c)
  <2>1. Opens("in", c)
    BY <1>0, <1>2, PhaseSteps
  <2>2. /\ handleOnSocksServerConnection(c) /\ session' = session
        /\ conn'["out"][c].sock = "none"
        /\ UNCHANGED <<opened, accepted>>
    BY <1>0, <2>1, OpensFacts DEF Opens
  <2>3. PICK m \in Message : IsConnect(m, c) /\ sendMessage("in", m)
    <3>1. IsConnect([type |-> "CONNECT", id |-> IdOf[c], conn |-> c], c)
      BY DEF IsConnect
    <3> QED
      BY <2>2, <3>1, MessageTypes DEF handleOnSocksServerConnection
  <2>4. PICK k \in Session : k = session["in"] /\ k # 0
    <3>1. session["in"] # 0
      BY <2>2 DEF handleOnSocksServerConnection
    <3> QED
      BY <1>0, <3>1, SessionValues
  <2>5. CASE HasLeft("out", k)
    BY <1>0, <2>2, <2>4, <2>5, SessionSteps
  <2>6. CASE ~HasLeft("out", k)
    <3>1. /\ chan'["out"][k][Len(chan["out"][k]) + 1] = m
          /\ Len(chan["out"][k]) + 1 \in DOMAIN chan'["out"][k]
      BY <1>0, <2>3, <2>4, <2>6, ChannelSent DEF OrderlyInv, Peer
    <3>2. HasConnect(k, c)'
      BY <2>3, <3>1 DEF HasConnect, IsConnect
    <3> QED
      BY <2>2, <2>4, <3>2
  <2> QED
    BY <2>5, <2>6
<1> QED
  BY <1>1, <1>2

(* What 'close' of a socket does to the channel its peer reads.            *)
LEMMA CloseTold ==
  ASSUME IInv, OrderlyInv, NEW s \in Side, NEW c \in Conns,
         handleConnectionSocketOnClose(s, c), ~conn[s][c].wasClosed,
         NEW k \in Session, k = session[s], ~HasLeft(Peer(s), k)
  PROVE  /\ IsClose(chan'[Peer(s)][k][Len(chan[Peer(s)][k]) + 1], c)
         /\ Len(chan[Peer(s)][k]) + 1 \in DOMAIN chan'[Peer(s)][k]
         /\ \A i \in DOMAIN chan[Peer(s)][k] : i < Len(chan[Peer(s)][k]) + 1
<1>1. session[s] # 0
  BY MaxSessionsAssumption DEF Session
<1>2. sendMessage(s, [type |-> "CLOSE", id |-> IdOf[c]])
  BY <1>1 DEF handleConnectionSocketOnClose
<1>3. PICK m \in Message : IsClose(m, c) /\ sendMessage(s, m)
  BY <1>2, MessageTypes DEF IsClose
<1> QED
  BY <1>1, <1>3, PeerType, ChannelSent DEF OrderlyInv

(* The end that 'close' is seen at leaves the session of the other, or     *)
(* tells it.                                                               *)
LEMMA ClosingTells ==
  ASSUME IInv, EndInv, OrderlyInv, TypeOK', [Next]_vars, NEW s \in Side, NEW c \in Conns,
         handleConnectionSocketOnClose(s, c), Live(Peer(s), c),
         NEW k \in Session, k = session[Peer(s)]
  PROVE  HasLeft(s, k)' \/ HasClose(Peer(s), k, c)'
<1>0. /\ TypeOK /\ Peer(s) \in Side /\ "in" \in Side /\ "out" \in Side
      /\ accepted <= opened /\ k \in Nat
      /\ accepted \in Nat /\ opened \in Nat
  <2>1. opened \in 0..MaxSessions /\ accepted \in 0..opened
    BY DEF IInv, TypeOK
  <2> QED
    BY <2>1, MaxSessionsAssumption, PeerType DEF IInv, Side, Session
<1>1. /\ Dead(s, c) /\ conn[s][c].sock # "none"
      /\ ~conn[s][c].wasClosed
  BY DEF handleConnectionSocketOnClose, EndInv, WordInv, Dead, Live, DeadSocket, LiveSocket
<1>2. CASE session[s] = k
  <2>1. ~HasLeft(Peer(s), k)
    BY DEF HasLeft
  <2> QED
    BY <1>1, <1>2, <2>1, CloseTold DEF HasClose, IsClose
<1>3. CASE session[s] # k
  <2>1. CASE s = "in"
    <3>1. k <= accepted
      BY <2>1 DEF OrderlyInv, BegunInv, Peer
    <3>2. k <= opened
      BY <1>0, <3>1
    <3> QED
      BY <1>3, <2>1, <3>2, SessionSteps DEF HasLeft
  <2>2. CASE s = "out"
    <3>1. k <= accepted
      BY <1>1, <2>2 DEF OrderlyInv, SoughtInv, Peer
    <3> QED
      BY <1>3, <2>2, <3>1, SessionSteps DEF HasLeft
  <2> QED
    BY <2>1, <2>2 DEF Side
<1> QED
  BY <1>2, <1>3

(* The end that lives, or will, is told.                                   *)
LEMMA LiveIsTold ==
  ASSUME DistinctIds, IInv, IInv', EndInv, OrderlyInv, NoCrash', [Next]_vars,
         NEW s \in Side, NEW c \in Conns, conn'[s][c].closed, Live(Peer(s), c)',
         NEW k \in Session, k = session'[Peer(s)]
  PROVE  HasLeft(s, k)' \/ HasClose(Peer(s), k, c)'
<1>0. /\ TypeOK /\ TypeOK' /\ NoCrash /\ Peer(s) \in Side /\ EntryInv
      /\ "in" \in Side /\ "out" \in Side
  BY PeerType DEF IInv, OrderlyInv, Side, EndInv
<1>1. CASE Live(Peer(s), c) /\ conn[s][c].closed
  <2>1. k = session[Peer(s)]
    BY <1>0, <1>1, LiveSession
  <2>2. HasLeft(s, k) \/ HasClose(Peer(s), k, c)
    BY <1>1, <2>1 DEF OrderlyInv, ToldInv
  <2>3. CASE HasLeft(s, k)
    BY <2>3, SessionSteps
  <2>4. CASE HasClose(Peer(s), k, c)
    <3>1. ~HasLeft(Peer(s), k)'
      BY DEF HasLeft
    <3> QED
      BY <1>0, <1>1, <2>1, <2>4, <3>1, CloseKept
  <2> QED
    BY <2>2, <2>3, <2>4
<1>2. CASE Live(Peer(s), c) /\ ~conn[s][c].closed
  <2>1. handleConnectionSocketOnClose(s, c)
    BY <1>0, <1>2, PhaseSteps
  <2>2. k = session[Peer(s)]
    BY <2>1 DEF handleConnectionSocketOnClose
  <2> QED
    BY <1>0, <1>2, <2>1, <2>2, ClosingTells
<1>3. CASE ~Live(Peer(s), c)
  <2>1. Opens(Peer(s), c)
    BY <1>0, <1>3, PhaseSteps
  <2>2. /\ conn[Peer(s)][c].sock = "none" /\ session' = session
        /\ UNCHANGED <<opened, accepted>>
    BY <1>0, <2>1, OpensFacts
  <2>3. CASE s = "out"
    <3>1. conn'["out"][c] = conn["out"][c] /\ conn["out"][c].sock = "none"
      BY <1>0, <2>1, <2>3, OpensFacts DEF Peer
    <3>2. ~Dead("out", c)
      BY <3>1 DEF Dead, DeadSocket
    <3> QED
      BY <1>0, <2>3, <3>1, <3>2 DEF OrderlyInv, ToldInv
  <2>4. CASE s = "in"
    <3>1. /\ conn'["in"][c] = conn["in"][c] /\ k = session["out"]
          /\ handleSocketMultiplexerOnConnect
          /\ 1 \in DOMAIN chan["out"][k] /\ IsConnect(chan["out"][k][1], c)
      BY <1>0, <2>1, <2>2, <2>4, OpensFacts DEF Peer
    <3>2. conn["in"][c].closed /\ ~HasLeft("out", k)
      BY <2>4, <3>1 DEF HasLeft
    <3>3. \/ HasLeft("in", k)
          \/ \E j \in DOMAIN chan["out"][k] : 1 < j /\ IsClose(chan["out"][k][j], c)
      BY <1>0, <3>1, <3>2 DEF OrderlyInv, ToldInv
    <3>4. CASE HasLeft("in", k)
      BY <1>0, <2>4, <3>4, SessionSteps
    <3>5. ASSUME NEW j \in DOMAIN chan["out"][k], 1 < j, IsClose(chan["out"][k][j], c)
          PROVE  HasClose("out", k, c)'
      <4>1. Moved("out", k, 1)
        BY <1>0, <3>1, ChannelRead DEF handleSocketMultiplexerOnConnect, Receives
      <4>2. j > 1
        <5>1. chan["out"][k] \in Seq(Message)
          BY <1>0 DEF TypeOK
        <5>2. j \in Nat
          BY <5>1
        <5> QED
          BY <3>5, <5>2
      <4> QED
        BY <3>5, <4>1, <4>2 DEF Moved, HasClose, IsClose
    <3> QED
      BY <2>4, <3>3, <3>4, <3>5 DEF Peer
  <2> QED
    BY <2>3, <2>4 DEF Side
<1> QED
  BY <1>1, <1>2, <1>3

(* A CONNECT that is still to be read, for a client that is gone, is        *)
(* followed by its CLOSE.                                                  *)
LEMMA ConnectIsToldOf ==
  ASSUME DistinctIds, IInv, IInv', EndInv, OrderlyInv, NoCrash', [Next]_vars,
         NEW c \in Conns, conn'["in"][c].closed,
         NEW k \in Session, NEW i \in DOMAIN chan'["out"][k],
         IsConnect(chan'["out"][k][i], c)
  PROVE  \/ HasLeft("out", k)' \/ HasLeft("in", k)'
         \/ \E j \in DOMAIN chan'["out"][k] : i < j /\ IsClose(chan'["out"][k][j], c)
<1>0. /\ TypeOK /\ TypeOK' /\ NoCrash /\ EntryInv /\ "in" \in Side /\ "out" \in Side
      /\ chan["out"][k] \in Seq(Message) /\ chan'["out"][k] \in Seq(Message)
  BY DEF IInv, OrderlyInv, Side, EndInv, TypeOK
<1>1. \A s \in Side : HasLeft(s, k) => HasLeft(s, k)'
  BY SessionSteps
<1>2. CASE conn["in"][c].closed
  <2>1. Dead("in", c) /\ ~handleOnSocksServerConnection(c)
    BY <1>0, <1>2 DEF OrderlyInv, ToldInv, Dead, DeadSocket, handleOnSocksServerConnection
  <2>2. ASSUME NEW d \in {0, 1}, Moved("out", k, d), Was("out", k, d, i)
        PROVE  \/ HasLeft("out", k) \/ HasLeft("in", k)
               \/ \E j \in DOMAIN chan'["out"][k] : i < j /\ IsClose(chan'["out"][k][j], c)
    <3>1. i \in Nat \ {0} /\ i + d \in DOMAIN chan["out"][k] /\ IsConnect(chan["out"][k][i + d], c)
      BY <1>0, <2>2 DEF Was, IsConnect
    <3>2. \/ HasLeft("out", k) \/ HasLeft("in", k)
          \/ \E j \in DOMAIN chan["out"][k] : i + d < j /\ IsClose(chan["out"][k][j], c)
      BY <1>0, <1>2, <3>1 DEF OrderlyInv, ToldInv
    <3>3. ASSUME NEW j \in DOMAIN chan["out"][k], i + d < j, IsClose(chan["out"][k][j], c)
          PROVE  \E h \in DOMAIN chan'["out"][k] : i < h /\ IsClose(chan'["out"][k][h], c)
      <4>1. j \in Nat
        BY <1>0
      <4>2. j > d /\ i < j - d
        BY <2>2, <3>1, <3>3, <4>1
      <4> QED
        BY <2>2, <3>3, <4>2 DEF Moved, IsClose
    <3> QED
      BY <3>2, <3>3
  <2>3. \/ HasLeft("out", k)'
        \/ \E d \in {0, 1} :
             /\ Moved("out", k, d)
             /\ \/ Was("out", k, d, i)
                \/ chan'["out"][k][i].type = "CONNECT" =>
                     handleOnSocksServerConnection(chan'["out"][k][i].conn)
    BY <1>0, ChannelSteps
  <2> QED
    BY <1>0, <1>1, <2>1, <2>2, <2>3 DEF IsConnect
<1>3. CASE ~conn["in"][c].closed
  <2>1. handleConnectionSocketOnClose("in", c)
    BY <1>0, <1>3, PhaseSteps
  <2>2. /\ Dead("in", c) /\ conn["in"][c].sock # "none" /\ session' = session
    BY <2>1 DEF handleConnectionSocketOnClose, Dead, DeadSocket
  <2>3. i \in DOMAIN chan["out"][k] /\ chan'["out"][k][i] = chan["out"][k][i]
    <3>1. CASE chan' = chan
      BY <3>1
    <3>2. CASE session["in"] # 0 /\ sendMessage("in", [type |-> "CLOSE", id |-> IdOf[c]])
      <4>1. PICK m \in Message : m.type = "CLOSE" /\ sendMessage("in", m)
        BY <3>2, MessageTypes
      <4>2. Was("out", k, 0, i) \/ chan'["out"][k][i] = m
        BY <1>0, <3>2, <4>1, ChannelSent DEF OrderlyInv, SentBy
      <4>3. i + 0 = i
        BY <1>0
      <4> QED
        BY <4>1, <4>2, <4>3 DEF Was, IsConnect
    <3> QED
      BY <2>1, <3>1, <3>2 DEF handleConnectionSocketOnClose
  <2>4. conn["out"][c].sock = "none" /\ ~conn["in"][c].wasClosed
    <3>1. GoodMessage("out", chan["out"][k][i])
      BY <1>0, <2>3, MessageFacts
    <3>2. conn["out"][c].sock = "none"
      BY <2>3, <3>1 DEF GoodMessage, IsConnect
    <3> QED
      BY <1>0, <3>2 DEF EndInv, WordInv, Dead, DeadSocket, Peer
  <2>5. k <= opened
    <3>1. opened \in Nat /\ k \in Nat
      BY <1>0, MaxSessionsAssumption DEF TypeOK, Session
    <3> QED
      BY <1>0, <2>3, <3>1 DEF OrderlyInv, BegunInv
  <2>6. CASE session["in"] # k
    BY <1>0, <1>1, <2>5, <2>6 DEF HasLeft
  <2>7. CASE session["in"] = k /\ ~HasLeft("out", k)
    <3>1. /\ IsClose(chan'["out"][k][Len(chan["out"][k]) + 1], c)
          /\ Len(chan["out"][k]) + 1 \in DOMAIN chan'["out"][k]
          /\ i < Len(chan["out"][k]) + 1
      BY <1>0, <2>1, <2>3, <2>4, <2>7, CloseTold DEF Peer
    <3> QED
      BY <3>1
  <2> QED
    BY <1>0, <1>1, <2>6, <2>7
<1> QED
  BY <1>2, <1>3

LEMMA OrderlyInvNext ==
  ASSUME DistinctIds, Orderly, IInv, EndInv, OrderlyInv, [Next]_vars
  PROVE  OrderlyInv'
<1>0. /\ IInv' /\ TypeOK' /\ EntryInv
  BY IInvNext, TypeOKNext DEF IInv, EndInv
<1>1. OrderInv' /\ NoCrash' /\ BegunInv'
  BY <1>0, OrderInvNext, NoCrashNext, BegunInvNext DEF OrderlyInv
<1>2. SoughtInv'
  BY <1>0, <1>1, SoughtInvNext
<1>3. ASSUME NEW s \in Side, NEW c \in Conns, conn'[s][c].closed
      PROVE  Dead(s, c)'
  <2>1. CASE conn[s][c].closed
    BY <1>0, <2>1, DeadStays DEF OrderlyInv, ToldInv
  <2>2. CASE handleConnectionSocketOnClose(s, c)
    BY <1>0, <2>2, DeadStays DEF handleConnectionSocketOnClose
  <2> QED
    BY <1>0, <1>3, <2>1, <2>2, PhaseSteps
<1>4. ASSUME NEW s \in Side, NEW c \in Conns, conn'[s][c].closed, Live(Peer(s), c)'
      PROVE  \E k \in Session : /\ k = session'[Peer(s)]
                                /\ HasLeft(s, k)' \/ HasClose(Peer(s), k, c)'
  <2>1. PICK k : k = session'[Peer(s)]
    OBVIOUS
  <2>2. k \in Session
    <3>1. Peer(s) \in Side /\ k # 0 /\ k \in 0..MaxSessions
      BY <1>0, <1>1, <1>4, <2>1, PeerType DEF IInv, LiveIsTracked, NoCrash, TypeOK
    <3> QED
      BY <3>1, MaxSessionsAssumption DEF Session
  <2> QED
    BY <1>0, <1>1, <1>4, <2>1, <2>2, LiveIsTold
<1>5. ToldInv'
  <2> SUFFICES ASSUME NEW s \in Side, NEW c \in Conns, conn'[s][c].closed
               PROVE  /\ Dead(s, c)'
                      /\ Live(Peer(s), c)' =>
                           \E k \in Session : /\ k = session'[Peer(s)]
                                              /\ HasLeft(s, k)' \/ HasClose(Peer(s), k, c)'
                      /\ s = "in" => \A k \in Session : \A i \in DOMAIN chan'["out"][k] :
                           IsConnect(chan'["out"][k][i], c) =>
                             \/ HasLeft("out", k)' \/ HasLeft("in", k)'
                             \/ \E j \in DOMAIN chan'["out"][k] :
                                  i < j /\ IsClose(chan'["out"][k][j], c)
    BY DEF ToldInv, HasLeft, HasClose, IsClose, IsConnect
  <2> QED
    BY <1>0, <1>1, <1>3, <1>4, ConnectIsToldOf
<1> QED
  BY <1>1, <1>2, <1>5 DEF OrderlyInv

-----------------------------------------------------------------------------
(* While a node is stopped only after its transport.                       *)

LEMMA OrderlySteps ==
  ASSUME DistinctIds, Orderly
  PROVE  Spec => [](IInv /\ EndInv /\ OrderlyInv)
<1>1. Init => IInv /\ EndInv /\ OrderlyInv
  BY InitIInv, InitEndInv, InitOrderlyInv
<1>2. (IInv /\ EndInv /\ OrderlyInv) /\ [Next]_vars => (IInv /\ EndInv /\ OrderlyInv)'
  BY IInvNext, EndInvNext, OrderlyInvNext
<1> QED
  BY <1>1, <1>2, PTL DEF Spec

(* No late 'close' or 'data' event of a socket finds the multiplexer       *)
(* without its transport socket: no process dies of an exception.          *)
THEOREM NobodyCrashes == ASSUME DistinctIds, Orderly PROVE Spec => []NoCrash
<1>1. IInv /\ EndInv /\ OrderlyInv => NoCrash
  BY DEF OrderlyInv
<1> QED
  BY <1>1, OrderlySteps, PTL

LEMMA QuietMeansAgreement ==
  ASSUME IInv, OrderlyInv
  PROVE  QuiescentAgreement
<1> SUFFICES ASSUME Quiescent, NEW c \in Conns
             PROVE  Live("in", c) <=> Live("out", c)
  BY DEF QuiescentAgreement
<1>0. TypeOK /\ "in" \in Side /\ "out" \in Side
  BY DEF IInv, Side
<1>1. PICK k \in Session : k = session["in"] /\ k = session["out"]
  BY <1>0, SessionValues DEF Quiescent
<1>2. /\ \A s \in Side : chan[s][k] = << >> /\ DOMAIN chan[s][k] = {} /\ ~HasLeft(s, k)
      /\ \A s \in Side : Dead(s, c) => conn[s][c].closed
  BY <1>0, <1>1 DEF Quiescent, Incoming, HasLeft, Side
<1>3. \A s \in Side : conn[s][c].sock = "none" \/ Live(s, c) \/ Dead(s, c)
  BY <1>0 DEF TypeOK, ConnectionObject, Live, Dead
<1>4. ASSUME NEW s \in Side, Live(Peer(s), c)
      PROVE  ~Dead(s, c)
  BY <1>0, <1>1, <1>2, <1>4 DEF OrderlyInv, ToldInv, HasClose, Peer, Side
<1>5. ASSUME Live("in", c) PROVE conn["out"][c].sock # "none"
  BY <1>0, <1>1, <1>2, <1>5 DEF OrderlyInv, SoughtInv, HasConnect
<1>6. ASSUME Live("out", c) PROVE conn["in"][c].sock # "none"
  BY <1>0, <1>6 DEF IInv, ObjectInv, Live, LiveSocket
<1> QED
  BY <1>0, <1>3, <1>4, <1>5, <1>6 DEF Peer

(* Once every message of a session was read and every 'close' event seen,  *)
(* a client's socket lives if and only if its destination's does: no       *)
(* socket is left behind at one end.                                       *)
THEOREM NodesAgreeWhenQuiet ==
  ASSUME DistinctIds, Orderly PROVE Spec => []QuiescentAgreement
<1>1. IInv /\ EndInv /\ OrderlyInv => QuiescentAgreement
  BY QuietMeansAgreement
<1> QED
  BY <1>1, OrderlySteps, PTL

-----------------------------------------------------------------------------
(* The two nodes are the relay of module Relay.  Its variables, as the     *)
(* nodes give them:                                                        *)

Online == [s \in Side |-> mux[s] # 0]
Phase == [s \in Side |-> [c \in Conns |-> conn[s][c].sock]]

LEMMA SameSides ==
  /\ Joined!Ends = Side
  /\ \A s \in Side : Joined!Other(s) = Peer(s)
  /\ Joined!Alive = LiveSocket /\ Joined!Gone = DeadSocket
BY DEF Joined!Ends, Joined!Other, Joined!Alive, Joined!Gone, Side, Peer, LiveSocket, DeadSocket

LEMMA RelayInitially == Init => Joined!RelayInit
<1> SUFFICES ASSUME Init PROVE Joined!RelayInit
  OBVIOUS
<1>1. Online = [s \in Side |-> FALSE]
  BY DEF Init, Online
<1>2. Phase = [s \in Side |-> [c \in Conns |-> "none"]]
  BY DEF Init, Phase, NoConnection
<1> QED
  BY <1>1, <1>2, SameSides DEF Init, Joined!RelayInit, Online, Phase

LEMMA PhaseSame ==
  ASSUME \A s \in Side, c \in Conns : conn'[s][c].sock = conn[s][c].sock
  PROVE  Phase' = Phase
BY DEF Phase

LEMMA OnlineSame ==
  ASSUME \A s \in Side : mux'[s] # 0 <=> mux[s] # 0
  PROVE  Online' = Online
BY DEF Online

LEMMA PhaseUpdate ==
  ASSUME NEW s \in Side, NEW d \in Conns, NEW v, conn'[s][d].sock = v,
         \A t \in Side, c \in Conns :
           ~(t = s /\ c = d) => conn'[t][c].sock = conn[t][c].sock
  PROVE  Phase' = [Phase EXCEPT ![s][d] = v]
<1>1. /\ Phase[s] = [c \in Conns |-> conn[s][c].sock]
      /\ Phase'[s] = [c \in Conns |-> conn'[s][c].sock]
  BY DEF Phase
<1>2. Phase'[s] = [Phase[s] EXCEPT ![d] = v]
  BY <1>1
<1>3. ASSUME NEW t \in Side, t # s
      PROVE  Phase'[t] = Phase[t]
  <2>1. [c \in Conns |-> conn'[t][c].sock] = [c \in Conns |-> conn[t][c].sock]
    BY <1>3
  <2> QED
    BY <2>1 DEF Phase
<1>4. /\ Phase = [t \in Side |-> Phase[t]]
      /\ Phase' = [t \in Side |-> Phase'[t]]
  BY DEF Phase
<1>5. [Phase EXCEPT ![s] = [Phase[s] EXCEPT ![d] = v]] = [t \in Side |-> Phase'[t]]
  BY <1>2, <1>3, <1>4
<1> QED
  BY <1>4, <1>5

(* The steps of the relay, in terms of Online and Phase.                   *)
LEMMA RelayStutters ==
  ASSUME Online' = Online, Phase' = Phase, UNCHANGED <<produced, delivered>>
  PROVE  UNCHANGED Joined!relayVars
BY DEF Joined!relayVars, Online, Phase

LEMMA RelaySteps ==
  ASSUME NEW s \in Side
  PROVE  /\ /\ mux[s] = 0 /\ Online' = [Online EXCEPT ![s] = TRUE]
            /\ Phase' = Phase /\ UNCHANGED <<produced, delivered>>
            => Joined!RelayNext
         /\ /\ mux[s] # 0 /\ Online' = [Online EXCEPT ![s] = FALSE]
            /\ Phase' = [Phase EXCEPT ![s] = [c \in Conns |->
                 IF conn[s][c].sock \in LiveSocket THEN "destroyed" ELSE conn[s][c].sock]]
            /\ UNCHANGED <<produced, delivered>>
            => Joined!RelayNext
<1>1. Joined!GoesOnline(s) => Joined!RelayNext
  BY SameSides DEF Joined!RelayNext
<1>2. Joined!GoesOffline(s) => Joined!RelayNext
  BY SameSides DEF Joined!RelayNext
<1>3. ASSUME mux[s] = 0, Online' = [Online EXCEPT ![s] = TRUE], Phase' = Phase,
             UNCHANGED <<produced, delivered>>
      PROVE  Joined!GoesOnline(s)
  BY <1>3 DEF Joined!GoesOnline, Online, Phase
<1>4. ASSUME mux[s] # 0, Online' = [Online EXCEPT ![s] = FALSE],
             Phase' = [Phase EXCEPT ![s] = [c \in Conns |->
               IF conn[s][c].sock \in LiveSocket THEN "destroyed" ELSE conn[s][c].sock]],
             UNCHANGED <<produced, delivered>>
      PROVE  Joined!GoesOffline(s)
  <2>1. Phase[s] = [c \in Conns |-> conn[s][c].sock] /\ Online[s]
    BY <1>4 DEF Phase, Online
  <2>2. [c \in Conns |-> IF Phase[s][c] \in LiveSocket THEN "destroyed" ELSE Phase[s][c]]
          = [c \in Conns |-> IF conn[s][c].sock \in LiveSocket THEN "destroyed"
                             ELSE conn[s][c].sock]
    BY <2>1
  <2> QED
    BY <1>4, <2>1, <2>2, SameSides DEF Joined!GoesOffline, Online, Phase
<1> QED
  BY <1>1, <1>2, <1>3, <1>4

LEMMA RelayConnectionSteps ==
  ASSUME NEW s \in Side, NEW c \in Conns, Online' = Online
  PROVE  /\ /\ mux["in"] # 0 /\ conn["in"][c].sock = "none"
            /\ Phase' = [Phase EXCEPT !["in"][c] = "open"] /\ UNCHANGED <<produced, delivered>>
            => Joined!RelayNext
         /\ /\ mux["out"] # 0 /\ conn["out"][c].sock = "none" /\ conn["in"][c].sock # "none"
            /\ Phase' = [Phase EXCEPT !["out"][c] = "connecting"]
            /\ UNCHANGED <<produced, delivered>>
            => Joined!RelayNext
         /\ /\ conn[s][c].sock \in LiveSocket /\ Phase' = [Phase EXCEPT ![s][c] = "open"]
            /\ \E n \in Len(delivered[s][c])..produced[Peer(s)][c] :
                 delivered' = [delivered EXCEPT ![s][c] = [k \in 1..n |-> <<c, k>>]]
            /\ UNCHANGED produced
            => Joined!RelayNext
         /\ /\ conn[s][c].sock = "open" /\ Phase' = Phase
            /\ produced' = [produced EXCEPT ![s][c] = @ + 1] /\ UNCHANGED delivered
            => Joined!RelayNext
         /\ /\ conn[s][c].sock \in LiveSocket /\ Phase' = [Phase EXCEPT ![s][c] = "ended"]
            /\ UNCHANGED <<produced, delivered>>
            => Joined!RelayNext
         /\ /\ conn[s][c].sock \in LiveSocket /\ conn[Peer(s)][c].sock \in DeadSocket
            /\ conn[s][c].sock = "open" => Len(delivered[s][c]) = produced[Peer(s)][c]
            /\ Phase' = [Phase EXCEPT ![s][c] = "destroyed"]
            /\ UNCHANGED <<produced, delivered>>
            => Joined!RelayNext
<1>0. /\ \A t \in Side : Phase[t][c] = conn[t][c].sock /\ (Online[t] <=> mux[t] # 0)
      /\ Peer(s) \in Side /\ "in" \in Side /\ "out" \in Side
  BY PeerType DEF Phase, Online, Side
<1>1. ASSUME mux["in"] # 0, conn["in"][c].sock = "none",
             Phase' = [Phase EXCEPT !["in"][c] = "open"], UNCHANGED <<produced, delivered>>
      PROVE  Joined!RelayNext
  <2>1. Joined!ClientComes(c)
    BY <1>0, <1>1 DEF Joined!ClientComes, Phase, Online
  <2> QED
    BY <2>1 DEF Joined!RelayNext
<1>2. ASSUME mux["out"] # 0, conn["out"][c].sock = "none", conn["in"][c].sock # "none",
             Phase' = [Phase EXCEPT !["out"][c] = "connecting"],
             UNCHANGED <<produced, delivered>>
      PROVE  Joined!RelayNext
  <2>1. Joined!DestinationSought(c)
    BY <1>0, <1>2 DEF Joined!DestinationSought, Phase, Online
  <2> QED
    BY <2>1 DEF Joined!RelayNext
<1>3. ASSUME conn[s][c].sock \in LiveSocket, Phase' = [Phase EXCEPT ![s][c] = "open"],
             \E n \in Len(delivered[s][c])..produced[Peer(s)][c] :
               delivered' = [delivered EXCEPT ![s][c] = [k \in 1..n |-> <<c, k>>]],
             UNCHANGED produced
      PROVE  Joined!RelayNext
  <2>1. Joined!Hand(s, c)
    BY <1>0, <1>3, SameSides DEF Joined!Hand, Joined!FirstChunks, Phase, Online
  <2> QED
    BY <2>1, SameSides DEF Joined!RelayNext
<1>4. ASSUME conn[s][c].sock = "open", Phase' = Phase,
             produced' = [produced EXCEPT ![s][c] = @ + 1], UNCHANGED delivered
      PROVE  Joined!RelayNext
  <2>1. Joined!Read(s, c)
    BY <1>0, <1>4 DEF Joined!Read, Phase, Online
  <2> QED
    BY <2>1, SameSides DEF Joined!RelayNext
<1>5. ASSUME conn[s][c].sock \in LiveSocket, Phase' = [Phase EXCEPT ![s][c] = "ended"],
             UNCHANGED <<produced, delivered>>
      PROVE  Joined!RelayNext
  <2>1. Joined!Dies(s, c)
    BY <1>0, <1>5, SameSides DEF Joined!Dies, Phase, Online
  <2> QED
    BY <2>1, SameSides DEF Joined!RelayNext
<1>6. ASSUME conn[s][c].sock \in LiveSocket, conn[Peer(s)][c].sock \in DeadSocket,
             conn[s][c].sock = "open" => Len(delivered[s][c]) = produced[Peer(s)][c],
             Phase' = [Phase EXCEPT ![s][c] = "destroyed"], UNCHANGED <<produced, delivered>>
      PROVE  Joined!RelayNext
  <2>1. Joined!Follows(s, c)
    BY <1>0, <1>6, SameSides DEF Joined!Follows, Phase, Online
  <2> QED
    BY <2>1, SameSides DEF Joined!RelayNext
<1> QED
  BY <1>1, <1>2, <1>3, <1>4, <1>5, <1>6

(* Every step but the two below leaves the nodes online or offline.        *)
LEMMA MostlyOnlineSame ==
  ASSUME IInv, OrderInv, IInv', OrderInv', [Next]_vars,
         ~ClientTransportConnected, ~ServerTransportConnected,
         ~ \E s \in Side : TransportDisconnected(s)
  PROVE  Online' = Online
<1>1. session' = session
  BY DEF Next, vars, linkVars, BufferIgnored, Receives, ServerTransportDrops, ServerDrops,
     handleOnSocksServerListening, handleOnSocksServerClose, Start, Stop, TransportStart,
     LinkStart, TransportStop, LinkStop, handleSocketMultiplexerOnConnect,
     handleSocketMultiplexerOnClose,
     handleSocketMultiplexerOnData, handleConnectionSocketOnData, SocketEnds,
     handleConnectionSocketOnClose, handleOnSocksServerConnection,
     handleConnectionSocketOnReady
<1>2. \A s \in Side : mux[s] = session[s] /\ mux'[s] = session'[s]
  BY DEF IInv, MuxInv, OrderInv
<1> QED
  BY <1>1, <1>2, OnlineSame

LEMMA ConnectsMapped ==
  ASSUME IInv, OrderInv, IInv', OrderInv',
         ClientTransportConnected \/ ServerTransportConnected
  PROVE  Joined!RelayNext
<1>0. TypeOK /\ "in" \in Side /\ "out" \in Side
      /\ \A s \in Side : mux[s] = session[s] /\ mux'[s] = session'[s]
      /\ opened + 1 # 0 /\ accepted + 1 # 0
  <2>1. opened \in 0..MaxSessions /\ accepted \in 0..opened
    BY DEF IInv, TypeOK
  <2>2. opened \in Nat /\ accepted \in Nat
    BY <2>1, MaxSessionsAssumption
  <2> QED
    BY <2>2 DEF IInv, MuxInv, OrderInv, Side
<1>1. UNCHANGED <<conn, produced, delivered>> /\ Phase' = Phase
  BY DEF ClientTransportConnected, ServerTransportConnected, connVars, Phase
<1>2. PICK s \in Side : session[s] = 0 /\ session'[s] # 0
                        /\ \A t \in Side : t # s => session'[t] = session[t]
  BY <1>0 DEF ClientTransportConnected, ServerTransportConnected, ClientConnects,
     ServerAccepts, TypeOK
<1>3. Online' = [Online EXCEPT ![s] = TRUE]
  <2>1. \A t \in Side : Online'[t] = IF t = s THEN TRUE ELSE Online[t]
    BY <1>0, <1>2 DEF Online
  <2>2. Online' = [t \in Side |-> Online'[t]] /\ Online = [t \in Side |-> Online[t]]
    BY DEF Online
  <2> QED
    BY <2>1, <2>2
<1> QED
  BY <1>0, <1>1, <1>2, <1>3, RelaySteps

LEMMA DisconnectMapped ==
  ASSUME IInv, OrderInv, IInv', OrderInv', NEW s \in Side, TransportDisconnected(s)
  PROVE  Joined!RelayNext
<1>0. TypeOK /\ \A t \in Side : mux[t] = session[t] /\ mux'[t] = session'[t]
  BY DEF IInv, MuxInv, OrderInv
<1>1. /\ ~crashed[s] /\ session[s] # 0 /\ session' = [session EXCEPT ![s] = 0]
      /\ UNCHANGED <<produced, delivered>>
  BY DEF TransportDisconnected, LinkLost
<1>2. destroyAllConnections(s)
  BY <1>0, <1>1 DEF TransportDisconnected, handleOnTransportDisconnected, IInv, MuxInv
<1>3. /\ \A c \in Conns : conn'[s][c] = destroy(conn[s][c])
      /\ \A t \in Side : t # s => conn'[t] = conn[t]
  BY <1>1, <1>2, DestroyAllEffect
<1>4. \A c \in Conns : destroy(conn[s][c]).sock =
        IF conn[s][c].sock \in LiveSocket THEN "destroyed" ELSE conn[s][c].sock
  <2> SUFFICES ASSUME NEW c \in Conns
               PROVE  destroy(conn[s][c]).sock =
                        IF conn[s][c].sock \in LiveSocket THEN "destroyed" ELSE conn[s][c].sock
    OBVIOUS
  <2>1. conn[s][c] \in ConnectionObject
    BY <1>0 DEF TypeOK
  <2> QED
    BY <2>1 DEF destroy, ConnectionObject
<1>5. Online' = [Online EXCEPT ![s] = FALSE]
  <2>1. \A t \in Side : Online'[t] = IF t = s THEN FALSE ELSE Online[t]
    BY <1>0, <1>1 DEF Online, TypeOK
  <2>2. Online' = [t \in Side |-> Online'[t]] /\ Online = [t \in Side |-> Online[t]]
    BY DEF Online
  <2> QED
    BY <2>1, <2>2
<1>6. Phase' = [Phase EXCEPT ![s] = [c \in Conns |->
        IF conn[s][c].sock \in LiveSocket THEN "destroyed" ELSE conn[s][c].sock]]
  <2>1. Phase'[s] = [c \in Conns |->
          IF conn[s][c].sock \in LiveSocket THEN "destroyed" ELSE conn[s][c].sock]
    <3>1. Phase'[s] = [c \in Conns |-> conn'[s][c].sock]
      BY DEF Phase
    <3>2. \A c \in Conns : conn'[s][c].sock =
            IF conn[s][c].sock \in LiveSocket THEN "destroyed" ELSE conn[s][c].sock
      BY <1>3, <1>4
    <3> QED
      BY <3>1, <3>2
  <2>2. \A t \in Side : t # s => Phase'[t] = Phase[t]
    BY <1>3 DEF Phase
  <2>3. Phase' = [t \in Side |-> Phase'[t]] /\ Phase = [t \in Side |-> Phase[t]]
    BY DEF Phase
  <2> QED
    BY <2>1, <2>2, <2>3
<1> QED
  BY <1>0, <1>1, <1>5, <1>6, RelaySteps

(* What was written to a socket is always a prefix of what was read.       *)
LEMMA HandMapped ==
  ASSUME IInv, IInv', Online' = Online, NEW s \in Side, NEW c \in Conns, Live(s, c),
         Phase' = [Phase EXCEPT ![s][c] = "open"], UNCHANGED produced,
         NEW q, delivered' = [delivered EXCEPT ![s][c] = q],
         Len(delivered[s][c]) <= Len(q)
  PROVE  Joined!RelayNext
<1>1. /\ delivered'[s][c] = q /\ q \in Seq(Chunk) /\ Len(q) \in Nat
      /\ Len(delivered[s][c]) \in Nat /\ produced[Peer(s)][c] \in Nat
  <2>1. delivered'[s][c] = q /\ delivered'[s][c] \in Seq(Chunk)
    BY DEF IInv, TypeOK
  <2> QED
    BY <2>1, CountTypes, LenProperties DEF IInv
<1>2. /\ Len(q) <= produced[Peer(s)][c]
      /\ \A n \in 1..Len(q) : q[n] = <<c, n>>
  BY <1>1 DEF IInv, InOrder
<1>3. q = [n \in 1..Len(q) |-> <<c, n>>]
  <2>1. q \in [1..Len(q) -> Chunk]
    BY <1>1, LenProperties
  <2> QED
    BY <1>2, <2>1
<1>4. Len(q) \in Len(delivered[s][c])..produced[Peer(s)][c]
  BY <1>1, <1>2
<1>5. \E n \in Len(delivered[s][c])..produced[Peer(s)][c] :
        delivered' = [delivered EXCEPT ![s][c] = [k \in 1..n |-> <<c, k>>]]
  BY <1>3, <1>4
<1> QED
  BY <1>5, RelayConnectionSteps DEF Live

(* Nothing that the relay knows of changes.                                *)
LEMMA HiddenStep ==
  ASSUME IInv, OrderInv, Orderly, TypeOK', Online' = Online,
         \/ handleOnSocksServerListening \/ handleOnSocksServerClose
         \/ ServerTransportDrops \/ UNCHANGED vars
         \/ \E s \in Side : \/ Start(s) \/ Stop(s) \/ TransportStart(s) \/ TransportStop(s)
                            \/ BufferIgnored(s)
  PROVE  UNCHANGED Joined!relayVars
<1>1. UNCHANGED <<produced, delivered>>
  BY NodeStepsKeep
<1>2. CASE UNCHANGED conn
  BY <1>1, <1>2, PhaseSame, RelayStutters
<1>3. ASSUME NEW s \in Side, Stop(s)
      PROVE  \A t \in Side, c \in Conns : conn'[t][c].sock = conn[t][c].sock
  <2>1. ~crashed[s] /\ session[s] = 0 /\ destroyAllConnections(s)
    BY <1>3 DEF Stop
  <2>2. \A c \in Conns : ~Live(s, c)
    BY <2>1, LiveIsOnline
  <2>3. /\ \A c \in Conns : conn'[s][c] = destroy(conn[s][c])
        /\ \A t \in Side : t # s => conn'[t] = conn[t]
    BY <2>1, DestroyAllEffect
  <2>4. \A c \in Conns : destroy(conn[s][c]) = conn[s][c]
    BY <2>2 DEF destroy, Live
  <2> QED
    BY <2>3, <2>4
<1>4. CASE \E s \in Side : Stop(s)
  BY <1>1, <1>3, <1>4, PhaseSame, RelayStutters
<1> QED
  BY <1>2, <1>4 DEF handleOnSocksServerListening, handleOnSocksServerClose,
     ServerTransportDrops, Start, TransportStart, TransportStop, BufferIgnored, vars, connVars

LEMMA SocketStepsMapped ==
  ASSUME IInv, OrderlyInv, IInv', Online' = Online, NEW s \in Side, NEW d \in Conns,
         \/ handleConnectionSocketOnData(s, d)
         \/ SocketEnds(s, d)
         \/ handleConnectionSocketOnClose(s, d)
         \/ s = "in" /\ handleOnSocksServerConnection(d)
         \/ s = "out" /\ handleConnectionSocketOnReady(d)
  PROVE  Joined!RelayNext \/ UNCHANGED Joined!relayVars
<1>0. TypeOK /\ TypeOK' /\ "in" \in Side
  BY DEF IInv, Side
<1>1. \A t \in Side, c \in Conns : ~(t = s /\ c = d) => conn'[t][c] = conn[t][c]
  BY <1>0, SocketStepsPhases
<1>2. \A v : conn'[s][d].sock = v => Phase' = [Phase EXCEPT ![s][d] = v]
  BY <1>1, PhaseUpdate
<1>3. CASE handleConnectionSocketOnData(s, d)
  <2>1. /\ conn[s][d].sock = "open" /\ UNCHANGED <<conn, delivered>>
        /\ produced' = [produced EXCEPT ![s][d] = @ + 1]
    BY <1>3 DEF handleConnectionSocketOnData
  <2>2. Phase' = Phase
    BY <2>1, PhaseSame
  <2> QED
    BY <2>1, <2>2, RelayConnectionSteps
<1>4. CASE SocketEnds(s, d)
  <2>1. /\ Live(s, d) /\ conn'[s][d].sock = "ended" /\ UNCHANGED <<produced, delivered>>
    <3>1. Live(s, d) /\ UNCHANGED <<produced, delivered>>
      BY <1>4 DEF SocketEnds
    <3>2. PICK o : o = [conn[s][d] EXCEPT !.sock = "ended"]
                   /\ conn' = [conn EXCEPT ![s][d] = o]
      BY <1>4 DEF SocketEnds
    <3>3. conn'[s][d] = o /\ conn[s][d] \in ConnectionObject
      BY <1>0, <3>2 DEF TypeOK
    <3> QED
      BY <3>1, <3>2, <3>3 DEF ConnectionObject
  <2>2. Phase' = [Phase EXCEPT ![s][d] = "ended"]
    BY <1>2, <2>1
  <2> QED
    BY <2>1, <2>2, RelayConnectionSteps DEF Live
<1>5. CASE handleConnectionSocketOnClose(s, d)
  <2>1. UNCHANGED <<produced, delivered>>
    BY <1>5 DEF handleConnectionSocketOnClose
  <2>2. conn'[s][d].sock = conn[s][d].sock
    <3>1. PICK o : o = [conn[s][d] EXCEPT !.closed = TRUE, !.connected = FALSE]
                   /\ conn' = [conn EXCEPT ![s][d] = o]
      BY <1>5 DEF handleConnectionSocketOnClose
    <3>2. conn'[s][d] = o /\ conn[s][d] \in ConnectionObject
      BY <1>0, <3>1 DEF TypeOK
    <3> QED
      BY <3>1, <3>2 DEF ConnectionObject
  <2>3. Phase' = Phase
    BY <1>1, <2>2, PhaseSame
  <2> QED
    BY <2>1, <2>3, RelayStutters
<1>6. CASE s = "in" /\ handleOnSocksServerConnection(d)
  <2>1. /\ conn["in"][d].sock = "none" /\ session["in"] # 0 /\ mux["in"] = session["in"]
        /\ UNCHANGED <<produced, delivered>>
    BY <1>0, <1>6, MuxIsSession DEF handleOnSocksServerConnection, OrderlyInv
  <2>2. conn'["in"][d].sock = "open"
    <3>1. PICK o : o = [conn[s][d] EXCEPT !.sock = "open", !.connected = TRUE]
                   /\ conn' = [conn EXCEPT ![s][d] = o]
      BY <1>6 DEF handleOnSocksServerConnection
    <3>2. conn'[s][d] = o /\ conn[s][d] \in ConnectionObject
      BY <1>0, <3>1 DEF TypeOK
    <3> QED
      BY <1>6, <3>1, <3>2 DEF ConnectionObject
  <2>3. Phase' = [Phase EXCEPT !["in"][d] = "open"]
    BY <1>2, <1>6, <2>2
  <2> QED
    BY <2>1, <2>3, RelayConnectionSteps
<1>7. CASE s = "out" /\ handleConnectionSocketOnReady(d)
  <2>1. /\ conn[s][d].sock = "connecting" /\ UNCHANGED produced
        /\ delivered' = [delivered EXCEPT ![s][d] = delivered[s][d] \o conn[s][d].messages]
    BY <1>7 DEF handleConnectionSocketOnReady
  <2>2. conn'[s][d].sock = "open"
    <3>1. PICK o : o = [conn[s][d] EXCEPT !.sock = "open", !.connected = TRUE,
                                          !.messages = << >>]
                   /\ conn' = [conn EXCEPT ![s][d] = o]
      BY <1>7 DEF handleConnectionSocketOnReady
    <3>2. conn'[s][d] = o /\ conn[s][d] \in ConnectionObject
      BY <1>0, <3>1 DEF TypeOK
    <3> QED
      BY <3>1, <3>2 DEF ConnectionObject
  <2>3. Phase' = [Phase EXCEPT ![s][d] = "open"] /\ Live(s, d)
    BY <1>2, <2>1, <2>2 DEF Live, LiveSocket
  <2>4. Len(delivered[s][d]) <= Len(delivered[s][d] \o conn[s][d].messages)
    <3>1. /\ delivered[s][d] \in Seq(Chunk) /\ conn[s][d].messages \in Seq(Chunk)
          /\ Len(delivered[s][d]) \in Nat /\ Len(conn[s][d].messages) \in Nat
      BY <1>0, CountTypes
    <3>2. Len(delivered[s][d] \o conn[s][d].messages)
            = Len(delivered[s][d]) + Len(conn[s][d].messages)
      BY <3>1, ConcatProperties
    <3>3. \A a, b \in Nat : a <= a + b
      OBVIOUS
    <3> QED
      BY <3>1, <3>2, <3>3
  <2> QED
    BY <2>1, <2>3, <2>4, HandMapped
<1> QED
  BY <1>3, <1>4, <1>5, <1>6, <1>7

LEMMA ReadingMapped ==
  ASSUME IInv, EndInv, OrderlyInv, IInv', Online' = Online, NEW s \in Side, Reading(s)
  PROVE  Joined!RelayNext \/ UNCHANGED Joined!relayVars
<1>0. TypeOK /\ TypeOK' /\ "in" \in Side /\ "out" \in Side /\ EntryInv
      /\ \A t \in Side : mux[t] = session[t]
  BY MuxIsSession DEF IInv, Side, EndInv, OrderlyInv
<1>1. CASE s = "out" /\ handleSocketMultiplexerOnConnect
  <2>1. PICK m : m = Head(Incoming("out"))
    OBVIOUS
  <2>2. /\ m.conn \in Conns
        /\ conn["in"][m.conn].sock # "none" /\ conn["out"][m.conn].sock = "none"
        /\ conn'["out"][m.conn].sock = "connecting"
        /\ \A t \in Side, c \in Conns :
             ~(t = "out" /\ c = m.conn) => conn'[t][c] = conn[t][c]
        /\ UNCHANGED <<produced, delivered>>
    BY <1>0, <1>1, <2>1, ConnectKeeps
  <2>3. Phase' = [Phase EXCEPT !["out"][m.conn] = "connecting"]
    BY <1>0, <2>2, PhaseUpdate
  <2>4. mux["out"] # 0
    BY <1>0, <1>1 DEF handleSocketMultiplexerOnConnect, Receives
  <2> QED
    BY <1>0, <2>2, <2>3, <2>4, RelayConnectionSteps
<1>2. CASE handleSocketMultiplexerOnData(s)
  <2>1. PICK m, d : m = Head(Incoming(s)) /\ d = connections[s][m.id]
    OBVIOUS
  <2>2. /\ \A t \in Side, c \in Conns : conn'[t][c].sock = conn[t][c].sock
        /\ UNCHANGED produced
    BY <1>0, <1>2, DataKeeps
  <2>3. \/ UNCHANGED delivered
        \/ /\ d # None /\ conn[s][d].sock = "open"
           /\ delivered' = [delivered EXCEPT ![s][d] = Append(delivered[s][d], m.data)]
    BY <1>2, <2>1 DEF handleSocketMultiplexerOnData
  <2>4. CASE UNCHANGED delivered
    BY <2>2, <2>4, PhaseSame, RelayStutters
  <2>5. CASE /\ d # None /\ conn[s][d].sock = "open"
             /\ delivered' = [delivered EXCEPT ![s][d] = Append(delivered[s][d], m.data)]
    <3>1. d \in Conns
      <4>1. m \in Message /\ m.type = "DATA"
        BY <1>2, <2>1, ReceivesFacts DEF handleSocketMultiplexerOnData
      <4>2. m.id \in Ids
        BY <4>1 DEF Message
      <4>3. d \in Conns \cup {None}
        BY <1>0, <2>1, <4>2 DEF TypeOK
      <4> QED
        BY <2>5, <4>3
    <3>2. Phase' = [Phase EXCEPT ![s][d] = "open"] /\ Live(s, d)
      BY <2>2, <2>5, <3>1, PhaseUpdate DEF Live, LiveSocket
    <3>3. Len(delivered[s][d]) <= Len(Append(delivered[s][d], m.data))
      <4>1. delivered[s][d] \in Seq(Chunk) /\ Len(delivered[s][d]) \in Nat
        BY <1>0, <3>1, CountTypes
      <4> QED
        BY <4>1
    <3> QED
      BY <2>2, <2>5, <3>1, <3>2, <3>3, HandMapped
  <2> QED
    BY <2>3, <2>4, <2>5
<1>3. CASE handleSocketMultiplexerOnClose(s)
  <2>1. PICK m, d : m = Head(Incoming(s)) /\ d = connections[s][m.id]
    OBVIOUS
  <2>2. UNCHANGED <<produced, delivered>>
    BY <1>0, <1>3, <2>1, CloseWordEffect
  <2>3. CASE \A t \in Side, c \in Conns : conn'[t][c].sock = conn[t][c].sock
    BY <2>2, <2>3, PhaseSame, RelayStutters
  <2>4. CASE /\ d \in Conns /\ IdOf[d] = m.id /\ Live(s, d)
             /\ conn'[s][d].sock = "destroyed"
             /\ \A t \in Side, c \in Conns :
                  ~(t = s /\ c = d) => conn'[t][c] = conn[t][c]
    <3>1. Phase' = [Phase EXCEPT ![s][d] = "destroyed"]
      BY <2>4, PhaseUpdate
    <3>2. Dead(Peer(s), d) /\ Received(s, d) = produced[Peer(s)][d]
      <4>1. Receives(s, "CLOSE")
        BY <1>3 DEF handleSocketMultiplexerOnClose
      <4> QED
        BY <2>1, <2>4, <4>1, ClosedSocketHasAll
    <3>3. conn[s][d].sock = "open" => Len(delivered[s][d]) = produced[Peer(s)][d]
      <4>1. conn[s][d].sock = "open" => conn[s][d].messages = << >>
        BY <2>4 DEF IInv, ObjectInv
      <4>2. Len(delivered[s][d]) \in Nat /\ Len(<< >>) = 0
        BY <1>0, <2>4, CountTypes
      <4>3. \A a, b \in Nat : b = 0 => a + b = a
        OBVIOUS
      <4>4. Len(delivered[s][d]) + Len(conn[s][d].messages) = produced[Peer(s)][d]
        BY <3>2 DEF Received
      <4> QED
        BY <4>1, <4>2, <4>3, <4>4
    <3> QED
      BY <2>2, <2>4, <3>1, <3>2, <3>3, RelayConnectionSteps DEF Live, Dead
  <2>5. \/ \A t \in Side, c \in Conns : conn'[t][c].sock = conn[t][c].sock
        \/ /\ d \in Conns /\ IdOf[d] = m.id /\ Live(s, d)
           /\ conn'[s][d].sock = "destroyed"
           /\ \A t \in Side, c \in Conns :
                ~(t = s /\ c = d) => conn'[t][c] = conn[t][c]
    BY <1>0, <1>3, <2>1, CloseWordEffect
  <2> QED
    BY <2>3, <2>4, <2>5
<1> QED
  BY <1>1, <1>2, <1>3 DEF Reading

LEMMA StepRelayed ==
  ASSUME DistinctIds, Orderly, IInv, EndInv, OrderlyInv, [Next]_vars
  PROVE  [Joined!RelayNext]_(Joined!relayVars)
<1>0. /\ IInv' /\ TypeOK' /\ OrderInv /\ OrderInv' /\ "in" \in Side /\ "out" \in Side
  BY IInvNext, TypeOKNext, OrderInvNext DEF IInv, OrderlyInv, Side
<1>1. CASE ClientTransportConnected \/ ServerTransportConnected
  BY <1>0, <1>1, ConnectsMapped
<1>2. CASE \E s \in Side : TransportDisconnected(s)
  BY <1>0, <1>2, DisconnectMapped
<1>3. CASE /\ ~ClientTransportConnected /\ ~ServerTransportConnected
           /\ ~ \E s \in Side : TransportDisconnected(s)
  <2>1. Online' = Online
    BY <1>0, <1>3, MostlyOnlineSame
  <2>2. CASE \/ handleOnSocksServerListening \/ handleOnSocksServerClose
             \/ ServerTransportDrops \/ UNCHANGED vars
             \/ \E s \in Side : \/ Start(s) \/ Stop(s) \/ TransportStart(s)
                                \/ TransportStop(s) \/ BufferIgnored(s)
    BY <1>0, <2>1, <2>2, HiddenStep
  <2>3. CASE \E s \in Side : Reading(s)
    BY <1>0, <2>1, <2>3, ReadingMapped
  <2>4. CASE \E s \in Side, d \in Conns :
               \/ handleConnectionSocketOnData(s, d)
               \/ SocketEnds(s, d)
               \/ handleConnectionSocketOnClose(s, d)
               \/ s = "in" /\ handleOnSocksServerConnection(d)
               \/ s = "out" /\ handleConnectionSocketOnReady(d)
    BY <1>0, <2>1, <2>4, SocketStepsMapped
  <2> QED
    BY <1>0, <1>3, <2>2, <2>3, <2>4 DEF Next, Reading
<1> QED
  BY <1>1, <1>2, <1>3

(* The two nodes, with their tables, messages and sessions, implement the  *)
(* relay: to the programs on its two sides the tunnel is one TCP           *)
(* connection per client, which may break.                                 *)
THEOREM TunnelImplementsRelay == ASSUME DistinctIds, Orderly PROVE Spec => IsRelay
<1>1. (IInv /\ EndInv /\ OrderlyInv) /\ [Next]_vars => [Joined!RelayNext]_(Joined!relayVars)
  BY StepRelayed
<1> QED
  BY <1>1, RelayInitially, OrderlySteps, PTL DEF Spec, IsRelay, Joined!RelaySpec

=============================================================================
