---------------------------- MODULE ConnManager -----------------------------
(***************************************************************************)
(* ConnectionManager of the Go program over its TCP transports.            *)
(*                                                                         *)
(* Each node runs one transport loop (process, handleTransportConn): it    *)
(* gets a connection, shakes hands, puts a multiplexer in m.mux, accepts   *)
(* streams until that fails, and begins again.  Meanwhile goroutines of    *)
(* the SOCKS server call Dial, which reads m.mux with no lock.  The server *)
(* takes connections one after the other, from several clients; whom a     *)
(* node lets connect is a list in its own configuration, so that one end   *)
(* of a connection may refuse what the other accepts.                      *)
(*                                                                         *)
(* The multiplexer is yamux: a session ends when its connection does, of   *)
(* which its keep-alive, and during the handshake that of TCP, tells each  *)
(* node in the end; streams end with their session.  The rate limit, the   *)
(* cipher and what a stream carries after its ConnectMsg are left out.     *)
(* wasConnected, which decides whether the loop sleeps, is in pc.          *)
(***************************************************************************)
EXTENDS Naturals, Sequences

CONSTANTS
  Clients,         \* nodes with a TcpClientTransport
  Server,          \* the node with a TcpServerTransport
  Dialers,         \* calls of Dial
  At,              \* At[d] is the node whose SOCKS server makes the call d
  Outputs,         \* nodes with an output
  Configurations,  \* the lists Allowed of all nodes, as functions
  MaxConns,        \* names of connections, used again
  MaxFailures      \* how often the network or listener.Accept fails

Nodes == Clients \union {Server}
Conns == 1..MaxConns
None == 0

(* A node has an input or an output and never both.                        *)
ASSUME ConnManagerAssumption ==
  /\ Server \notin Clients
  /\ At \in [Dialers -> Nodes]
  /\ Outputs \subseteq Nodes
  /\ \A d \in Dialers : At[d] \notin Outputs
  /\ Configurations \subseteq [Nodes -> SUBSET Nodes]
  /\ MaxConns \in Nat /\ MaxFailures \in Nat

VARIABLES
  allowed,    \* allowed[n]: the nodes which n lets connect
  listening,  \* the server's process lives and its listener is not nil
  backlog,    \* connections which the server's system has completed
  end,        \* end[i][n]: n's end of connection i
  broken,     \* connections the network has cut
  hs,         \* hs[i]: the nodes whose handshake has arrived at the other end
  pc,         \* where the transport loop of a node is; "gone" is a panic
  conn,       \* m.transportConn
  mux,        \* the connection of the session m.mux
  dial,       \* how far a call of Dial has come
  stream,     \* the connection on which it has created its stream
  asked,      \* the calls whose ConnectMsg has arrived at the other end
  exit,       \* what has become of a call's stream at the other end
  failures    \* of the network, and of listener.Accept

links == <<listening, backlog, broken, hs, failures>>
loops == <<pc, conn, mux>>
dials == <<dial, stream, asked, exit>>
vars == <<allowed, links, end, loops, dials>>

(* Outside of handleTransportConn there is no connection and no session,   *)
(* so that the clear() with which it begins finds nothing.                 *)
TypeOK ==
  /\ allowed \in [Nodes -> SUBSET Nodes]
  /\ listening \in BOOLEAN
  /\ backlog \in Seq(Conns)
  /\ end \in [Conns -> [Nodes -> {"none", "open", "dead", "closed"}]]
  /\ broken \subseteq Conns
  /\ hs \in [Conns -> SUBSET Nodes]
  /\ pc \in [Nodes -> {"listen", "transport", "sleep", "write", "read", "accept", "gone"}]
  /\ conn \in [Nodes -> Conns \union {None}]
  /\ mux \in [Nodes -> Conns \union {None}]
  /\ dial \in [Dialers -> {"idle", "tested", "opened", "connected", "failed", "over"}]
  /\ stream \in [Dialers -> Conns \union {None}]
  /\ asked \subseteq Dialers
  /\ exit \in [Dialers -> {"none", "syn", "handled", "served", "over"}]
  /\ failures \in 0..MaxFailures
  /\ \A n \in Nodes : pc[n] \in {"transport", "sleep"} =>
       conn[n] = None /\ mux[n] = None

Init ==
  /\ allowed \in Configurations
  /\ listening = FALSE /\ backlog = << >>
  /\ end = [i \in Conns |-> [n \in Nodes |-> "none"]]
  /\ broken = {} /\ hs = [i \in Conns |-> {}]
  /\ pc = [n \in Nodes |-> IF n = Server THEN "listen" ELSE "transport"]
  /\ conn = [n \in Nodes |-> None] /\ mux = [n \in Nodes |-> None]
  /\ dial = [d \in Dialers |-> "idle"] /\ stream = [d \in Dialers |-> None]
  /\ asked = {} /\ exit = [d \in Dialers |-> "none"]
  /\ failures = 0

-----------------------------------------------------------------------------
(* Connections.                                                            *)

Alive(n) == pc[n] # "gone"

(* What is written to one end arrives at the other.                        *)
Arrives(i) == i \notin broken

(* Nobody has connection i any more, and its name can be used again.       *)
Free(i) ==
  /\ \A n \in Nodes : end[i][n] = "none"
  /\ \A d \in Dialers : stream[d] = i =>
       dial[d] \in {"failed", "over"} /\ exit[d] \in {"none", "over"}

(* n closes its ends of some connections.  One that has been closed at     *)
(* both ends is forgotten.                                                 *)
Close(n, closing) ==
  LET Over(i) == i \in closing /\ \A p \in Nodes \ {n} : end[i][p] \in {"none", "closed"}
  IN  /\ end' = [i \in Conns |->
                   IF Over(i) THEN [p \in Nodes |-> "none"]
                   ELSE IF i \in closing THEN [end[i] EXCEPT ![n] = "closed"]
                   ELSE end[i]]
      /\ broken' = {i \in broken : ~Over(i)}
      /\ hs' = [i \in Conns |-> IF Over(i) THEN {} ELSE hs[i]]

(* Mutant: the multiplexer is closed and not forgotten.                    *)
clear_KeepsMux(n) ==
  /\ Close(n, {conn[n]})
  /\ conn' = [conn EXCEPT ![n] = None]
  /\ UNCHANGED mux

(* Mutant: the connection is forgotten and not closed.                     *)
clear_KeepsConnection(n) ==
  /\ mux' = [mux EXCEPT ![n] = None]
  /\ conn' = [conn EXCEPT ![n] = None]
  /\ UNCHANGED <<end, broken, hs>>

clear(n) ==
  /\ Close(n, {conn[n]})
  /\ mux' = [mux EXCEPT ![n] = None]
  /\ conn' = [conn EXCEPT ![n] = None]

Goto(n, place) == pc' = [pc EXCEPT ![n] = place]

(* handleTransportConn returns before it has set wasConnected.             *)
GiveUp(n) == clear(n) /\ Goto(n, "sleep")

-----------------------------------------------------------------------------
(* The transport loop.                                                     *)

(* Listen is called once; its failure is only logged.                      *)
Listen ==
  /\ pc[Server] = "listen"
  /\ listening' \in BOOLEAN
  /\ Goto(Server, "transport")
  /\ UNCHANGED <<allowed, backlog, broken, hs, failures, end, conn, mux, dials>>

(* TcpClientTransport.Transport, and handleTransportConn up to its         *)
(* handshake.                                                              *)
Connect(c) ==
  /\ pc[c] = "transport" /\ listening
  /\ \E i \in Conns :
       /\ Free(i) /\ \A j \in 1..(i - 1) : ~Free(j)
       /\ end' = [end EXCEPT ![i] =
                    [n \in Nodes |-> IF n \in {c, Server} THEN "open" ELSE "none"]]
       /\ stream' = [d \in Dialers |-> IF stream[d] = i THEN None ELSE stream[d]]
       /\ backlog' = Append(backlog, i)
       /\ conn' = [conn EXCEPT ![c] = i]
  /\ Goto(c, "write")
  /\ UNCHANGED <<allowed, listening, broken, hs, failures, mux, dial, asked, exit>>

(* Nobody listens, or the network fails.                                   *)
ConnectFails(c) ==
  /\ pc[c] = "transport"
  /\ \/ ~listening /\ UNCHANGED failures
     \/ failures < MaxFailures /\ failures' = failures + 1
  /\ Goto(c, "sleep")
  /\ UNCHANGED <<allowed, listening, backlog, broken, hs, end, conn, mux, dials>>

(* TcpServerTransport.Transport, and handleTransportConn likewise.         *)
Accept ==
  /\ pc[Server] = "transport" /\ listening
  /\ backlog # << >>
  /\ backlog' = Tail(backlog)
  /\ conn' = [conn EXCEPT ![Server] = Head(backlog)]
  /\ Goto(Server, "write")
  /\ UNCHANGED <<allowed, listening, broken, hs, failures, end, mux, dials>>

(* listener.Accept fails, and what waits in the backlog goes on waiting.    *)
AcceptErrors ==
  /\ pc[Server] = "transport" /\ listening
  /\ failures < MaxFailures /\ failures' = failures + 1
  /\ Goto(Server, "sleep")
  /\ UNCHANGED <<allowed, listening, backlog, broken, hs, end, conn, mux, dials>>

(* "listener is not started".                                              *)
NotListening ==
  /\ pc[Server] = "transport" /\ ~listening
  /\ Goto(Server, "sleep")
  /\ UNCHANGED <<allowed, links, end, conn, mux, dials>>

(* doTransportHandshake: WriteMsg of one's own handshake.                  *)
WriteHandshake(n) ==
  /\ pc[n] = "write"
  /\ \/ /\ end[conn[n]][n] = "open"
        /\ hs' = IF Arrives(conn[n]) THEN [hs EXCEPT ![conn[n]] = @ \union {n}] ELSE hs
        /\ Goto(n, "read")
        /\ UNCHANGED <<end, broken, conn, mux>>
     \/ end[conn[n]][n] = "dead" /\ GiveUp(n)
  /\ UNCHANGED <<allowed, listening, backlog, failures, dials>>

(* Mutant: an error of ReadMsg is not noticed.                             *)
ReadHandshake_NoError(n) ==
  /\ pc[n] = "read" /\ end[conn[n]][n] = "open"
  /\ \E p \in hs[conn[n]] \ {n} :
       \/ /\ p \in allowed[n]
          /\ mux' = [mux EXCEPT ![n] = conn[n]]
          /\ Goto(n, "accept")
          /\ UNCHANGED <<end, broken, hs, conn>>
       \/ p \notin allowed[n] /\ GiveUp(n)
  /\ UNCHANGED <<allowed, listening, backlog, failures, dials>>

(* ReadMsg of the other one's, without a deadline.  A node that lets the   *)
(* other one connect has its session, whatever the other one decides.      *)
ReadHandshake(n) ==
  /\ pc[n] = "read"
  /\ \/ /\ end[conn[n]][n] = "open"
        /\ \E p \in hs[conn[n]] \ {n} :
             \/ /\ p \in allowed[n]
                /\ mux' = [mux EXCEPT ![n] = conn[n]]
                /\ Goto(n, "accept")
                /\ UNCHANGED <<end, broken, hs, conn>>
             \/ p \notin allowed[n] /\ GiveUp(n)
     \/ end[conn[n]][n] = "dead" /\ GiveUp(n)
  /\ UNCHANGED <<allowed, listening, backlog, failures, dials>>

(* m.mux.Accept fails, and the loop begins again at once.                  *)
AcceptFails(n) ==
  /\ pc[n] = "accept" /\ end[mux[n]][n] = "dead"
  /\ clear(n)
  /\ Goto(n, "transport")
  /\ UNCHANGED <<allowed, listening, backlog, failures, dials>>

(* m.mux.Accept returns a stream: go m.handleMuxConn(conn).                *)
AcceptStream(n, d) ==
  /\ pc[n] = "accept" /\ end[mux[n]][n] = "open"
  /\ At[d] # n /\ stream[d] = mux[n] /\ exit[d] = "syn"
  /\ exit' = [exit EXCEPT ![d] = "handled"]
  /\ UNCHANGED <<allowed, links, end, loops, dial, stream, asked>>

(* time.Sleep(transportRetryingTimeout) has ended.                         *)
Wake(n) ==
  /\ pc[n] = "sleep"
  /\ Goto(n, "transport")
  /\ UNCHANGED <<allowed, links, end, conn, mux, dials>>

-----------------------------------------------------------------------------
(* Dial, and handleMuxConn at the other end.                               *)

(* Mutant: Dial does not test m.mux.                                       *)
TestMux_Never(d) ==
  /\ Alive(At[d]) /\ dial[d] = "idle"
  /\ dial' = [dial EXCEPT ![d] = "tested"]
  /\ UNCHANGED <<allowed, links, end, loops, stream, asked, exit>>

(* if m.mux == nil: ErrTransportNotConnected.                              *)
TestMux(d) ==
  /\ Alive(At[d]) /\ dial[d] = "idle"
  /\ dial' = [dial EXCEPT ![d] = IF mux[At[d]] = None THEN "failed" ELSE "tested"]
  /\ UNCHANGED <<allowed, links, end, loops, stream, asked, exit>>

(* m.mux is read again, for CreateStream.                                  *)
CreateStream(d) ==
  /\ Alive(At[d]) /\ dial[d] = "tested" /\ mux[At[d]] # None
  /\ LET i == mux[At[d]] IN
       \/ /\ end[i][At[d]] = "open"
          /\ stream' = [stream EXCEPT ![d] = i]
          /\ dial' = [dial EXCEPT ![d] = "opened"]
          /\ exit' = IF Arrives(i) THEN [exit EXCEPT ![d] = "syn"] ELSE exit
       \/ /\ end[i][At[d]] # "open"
          /\ dial' = [dial EXCEPT ![d] = "failed"]
          /\ UNCHANGED <<stream, exit>>
  /\ UNCHANGED <<allowed, links, end, loops, asked>>

(* When it has become nil the goroutine panics, which ends the process;    *)
(* its system closes what it had open.                                     *)
CreateStreamPanics(d) ==
  /\ Alive(At[d]) /\ dial[d] = "tested" /\ mux[At[d]] = None
  /\ Goto(At[d], "gone")
  /\ Close(At[d], {i \in Conns : end[i][At[d]] # "none"})
  /\ conn' = [conn EXCEPT ![At[d]] = None]
  /\ dial' = [e \in Dialers |-> IF At[e] = At[d] THEN "over" ELSE dial[e]]
  /\ listening' = (listening /\ At[d] # Server)
  /\ backlog' = IF At[d] = Server THEN << >> ELSE backlog
  /\ UNCHANGED <<allowed, failures, mux, stream, asked, exit>>

(* WriteMsg of the ConnectMsg, after which Dial returns the stream.        *)
SendConnect(d) ==
  /\ Alive(At[d]) /\ dial[d] = "opened"
  /\ \/ /\ end[stream[d]][At[d]] = "open"
        /\ dial' = [dial EXCEPT ![d] = "connected"]
        /\ asked' = IF Arrives(stream[d]) THEN asked \union {d} ELSE asked
     \/ /\ end[stream[d]][At[d]] # "open"
        /\ dial' = [dial EXCEPT ![d] = "failed"]
        /\ UNCHANGED asked
  /\ UNCHANGED <<allowed, links, end, loops, stream, exit>>

(* handleMuxConn has read it.  There is no output, or its Dial fails, and  *)
(* the stream is closed; or it is copied from and to the destination.      *)
HandleConnect(d) ==
  /\ exit[d] = "handled" /\ d \in asked
  /\ \E p \in Nodes \ {At[d]} :
       /\ end[stream[d]][p] = "open"
       /\ \/ exit' = [exit EXCEPT ![d] = "over"]
          \/ p \in Outputs /\ exit' = [exit EXCEPT ![d] = "served"]
  /\ UNCHANGED <<allowed, links, end, loops, dial, stream, asked>>

(* The stream of a call ends with its session, at the end that has dialled *)
(* and at the other.                                                       *)
EntryEnds(d) ==
  /\ dial[d] = "connected" /\ end[stream[d]][At[d]] # "open"
  /\ dial' = [dial EXCEPT ![d] = "over"]
  /\ UNCHANGED <<allowed, links, end, loops, stream, asked, exit>>

ExitEnds(d) ==
  /\ exit[d] \in {"syn", "handled", "served"}
  /\ \A p \in Nodes \ {At[d]} : end[stream[d]][p] # "open"
  /\ exit' = [exit EXCEPT ![d] = "over"]
  /\ UNCHANGED <<allowed, links, end, loops, dial, stream, asked>>

-----------------------------------------------------------------------------
(* The network.                                                            *)

Break(i) ==
  /\ failures < MaxFailures
  /\ i \notin broken
  /\ \E n, p \in Nodes : n # p /\ end[i][n] = "open" /\ end[i][p] = "open"
  /\ broken' = broken \union {i}
  /\ failures' = failures + 1
  /\ UNCHANGED <<allowed, listening, backlog, hs, end, loops, dials>>

(* n's reads and writes fail from now on.  What had arrived and was not    *)
(* read is lost.                                                           *)
Learn(n, i) ==
  /\ end[i][n] = "open"
  /\ i \in broken \/ \E p \in Nodes \ {n} : end[i][p] = "closed"
  /\ end' = [end EXCEPT ![i][n] = "dead"]
  /\ UNCHANGED <<allowed, links, loops, dials>>

-----------------------------------------------------------------------------

Loop(n) ==
  \/ n = Server /\ (Listen \/ Accept \/ AcceptErrors \/ NotListening)
  \/ n # Server /\ (Connect(n) \/ ConnectFails(n))
  \/ WriteHandshake(n) \/ ReadHandshake(n)
  \/ AcceptFails(n) \/ Wake(n)
  \/ \E d \in Dialers : AcceptStream(n, d)

Call(d) ==
  \/ TestMux(d) \/ CreateStream(d) \/ CreateStreamPanics(d) \/ SendConnect(d)
  \/ HandleConnect(d) \/ EntryEnds(d) \/ ExitEnds(d)

Network(i) == Break(i) \/ \E n \in Nodes : Learn(n, i)

Next ==
  \/ \E n \in Nodes : Loop(n)
  \/ \E d \in Dialers : Call(d)
  \/ \E i \in Conns : Network(i)

Spec == Init /\ [][Next]_vars

(* Goroutines run, what the system is asked to do ends, and each node is   *)
(* told in the end that a connection is over.  Nobody has to call Dial.    *)
Fairness ==
  /\ WF_vars(Listen) /\ WF_vars(Accept) /\ WF_vars(NotListening)
  /\ \A n \in Clients : WF_vars(Connect(n)) /\ WF_vars(ConnectFails(n))
  /\ \A n \in Nodes :
       /\ WF_vars(WriteHandshake(n)) /\ WF_vars(ReadHandshake(n))
       /\ WF_vars(AcceptFails(n)) /\ WF_vars(Wake(n))
       /\ \A d \in Dialers : WF_vars(AcceptStream(n, d))
       /\ \A i \in Conns : WF_vars(Learn(n, i))
  /\ \A d \in Dialers :
       /\ WF_vars(CreateStream(d)) /\ WF_vars(CreateStreamPanics(d))
       /\ WF_vars(SendConnect(d)) /\ WF_vars(HandleConnect(d))
       /\ WF_vars(EntryEnds(d)) /\ WF_vars(ExitEnds(d))

FairSpec == Spec /\ Fairness

-----------------------------------------------------------------------------
(* Properties.                                                             *)

(* Neither end of connection i is dead or closed.                          *)
Open(i) == \A n \in Nodes : end[i][n] \in {"none", "open"}

(* A client that has a session, whose connection is open at both ends, is  *)
(* the one whom the server is dealing with: with several clients no two    *)
(* are connected, and streams go to the node the server talks to.          *)
OneAtATime ==
  \A c \in Clients :
    Alive(c) /\ mux[c] # None /\ Open(mux[c]) => conn[Server] = mux[c]

(* The client and the server let each other connect.                       *)
Agreed(c) == c \in allowed[Server] /\ Server \in allowed[c]

(* A process ends, because m.mux has become nil while Dial was using it,   *)
(* only after a session was lost: something has failed, or somebody is     *)
(* refused, who has his session until he is told.                          *)
CrashOnlyAfterLoss ==
  (\E n \in Nodes : ~Alive(n)) => failures > 0 \/ \E c \in Clients : ~Agreed(c)

Linked(c) == mux[c] # None /\ mux[c] = mux[Server] /\ Open(mux[c]) /\ mux[c] \notin broken

(* Once the server listens, one of the clients it agrees with gets a       *)
(* session with it, and again after each failure, whatever old connections *)
(* wait in the backlog and however often others come and are refused;      *)
(* unless a process has ended.                                             *)
Reconnects ==
  (listening /\ \E c \in Clients : Agreed(c))
    ~> ((\E c \in Clients : Linked(c)) \/ \E n \in Nodes : ~Alive(n))

(* A call of Dial that has returned a stream is answered by the output of  *)
(* the other end, or its stream ends: no stream stays open to a node that  *)
(* has refused the connection.                                             *)
DialIsServed ==
  \A d \in Dialers :
    dial[d] = "connected" ~> (exit[d] \in {"served", "over"} \/ dial[d] = "over")
=============================================================================
