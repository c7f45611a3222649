------------------------------ MODULE Transport ------------------------------
(***************************************************************************)
(* The two transports of the Node.js tunnel over TCP or WebSocket          *)
(* (node/src/ntun.js): ClientTransport, which connects, and connects again *)
(* when the connection is lost, and ServerTransport, which takes one       *)
(* connection at a time and destroys the others.                           *)
(*                                                                         *)
(* A socket has an end at the client and an end at the server.  An end     *)
(* that is dead, by itself or by destroy(), has its 'close' event still to *)
(* come; then it is "none" again.                                          *)
(***************************************************************************)
EXTENDS Naturals, Sequences

CONSTANTS
  Socket,       \* names of sockets, used again when both ends are gone
  None,         \* no socket
  MaxFailures,  \* how often the network fails
  MaxStops,     \* how often the transports are stopped
  Overlap       \* a transport may be started again before the 'close' of the
                \* socket that its stop() destroyed

ASSUME TransportAssumption ==
  /\ None \notin Socket
  /\ MaxFailures \in Nat
  /\ MaxStops \in Nat
  /\ Overlap \in BOOLEAN

VARIABLES
  working,     \* the client's workingState: WORKING, or else IDLE
  connecting,  \* ClientTransport.connecting
  timers,      \* calls of attemptToConnect that timers have still to make
  socketDestroyedByStopCalled,
  socket,      \* the client's socket
  transportSocket,  \* the socket of the client's transportSocket
  clientEnd,   \* clientEnd[i]: the state of i at the client
  server,      \* the server's workingState
  backlog,     \* connections made by the server's system, not yet accepted
  serverSocket,     \* the server's socket, and that of its transportSocket
  serverEnd,   \* serverEnd[i]: the state of i at the server
  failures,
  stops

clientVars == <<working, connecting, timers, socketDestroyedByStopCalled,
                socket, transportSocket>>
serverVars == <<server, serverSocket>>
vars == <<clientVars, clientEnd, serverVars, backlog, serverEnd, failures, stops>>

WorkingState == {"idle", "starting", "working", "stopping"}
Pending == {backlog[n] : n \in 1..Len(backlog)}

TypeOK ==
  /\ working \in BOOLEAN /\ connecting \in BOOLEAN
  /\ timers \in 0..1
  /\ socketDestroyedByStopCalled \in BOOLEAN
  /\ socket \in Socket \cup {None}
  /\ transportSocket \in Socket \cup {None}
  /\ clientEnd \in [Socket -> {"none", "connecting", "open", "dead"}]
  /\ server \in WorkingState
  /\ backlog \in Seq(Socket)
  /\ serverSocket \in Socket \cup {None}
  /\ serverEnd \in [Socket -> {"none", "open", "dead"}]
  /\ failures \in 0..MaxFailures
  /\ stops \in 0..MaxStops

Init ==
  /\ working = FALSE /\ connecting = FALSE
  /\ timers = 0
  /\ socketDestroyedByStopCalled = FALSE
  /\ socket = None /\ transportSocket = None
  /\ clientEnd = [i \in Socket |-> "none"]
  /\ server = "idle"
  /\ backlog = << >>
  /\ serverSocket = None
  /\ serverEnd = [i \in Socket |-> "none"]
  /\ failures = 0 /\ stops = 0

-----------------------------------------------------------------------------
(* The client.                                                             *)

start ==
  /\ ~working
  /\ Overlap \/ socket = None
  /\ working' = TRUE
  /\ connecting' = TRUE
  /\ timers' = timers + 1
  /\ UNCHANGED <<socketDestroyedByStopCalled, socket, transportSocket, clientEnd,
                 serverVars, backlog, serverEnd, failures, stops>>

(* Mutant: the timer is left running.                                      *)
stop_KeepsTimer ==
  /\ working /\ stops < MaxStops
  /\ stops' = stops + 1
  /\ working' = FALSE
  /\ connecting' = FALSE
  /\ \/ socket = None /\ UNCHANGED <<socketDestroyedByStopCalled, clientEnd>>
     \/ /\ socket # None
        /\ socketDestroyedByStopCalled' = TRUE
        /\ clientEnd' = [clientEnd EXCEPT ![socket] = "dead"]
  /\ UNCHANGED <<timers, socket, transportSocket, serverVars, backlog, serverEnd, failures>>

(* The timer is cleared while connecting, even if it has fired already.    *)
stop ==
  /\ working /\ stops < MaxStops
  /\ stops' = stops + 1
  /\ working' = FALSE
  /\ connecting' = FALSE
  /\ timers' = IF connecting /\ timers > 0 THEN timers - 1 ELSE timers
  /\ \/ socket = None /\ UNCHANGED <<socketDestroyedByStopCalled, clientEnd>>
     \/ /\ socket # None
        /\ socketDestroyedByStopCalled' = TRUE
        /\ clientEnd' = [clientEnd EXCEPT ![socket] = "dead"]
  /\ UNCHANGED <<socket, transportSocket, serverVars, backlog, serverEnd, failures>>

(* Neither end of i exists: a new socket may have its name.                *)
Free(i) == clientEnd[i] = "none" /\ serverEnd[i] = "none" /\ i \notin Pending

(* The event loop makes the 'close' callbacks of destroyed handles before  *)
(* it comes to its timers again, so no socket that stop() destroyed is     *)
(* still there when the timer of the next start() fires.                   *)
ClosesFirst == socketDestroyedByStopCalled => socket = None

attemptToConnect ==
  /\ timers > 0 /\ ClosesFirst
  /\ timers' = timers - 1
  /\ \/ ~connecting /\ UNCHANGED <<socket, clientEnd>>
     \/ /\ connecting
        /\ \E i \in Socket : Free(i)
        /\ LET i == CHOOSE j \in Socket : Free(j) IN
           /\ socket' = i
           /\ clientEnd' = [clientEnd EXCEPT ![i] = "connecting"]
  /\ UNCHANGED <<working, connecting, socketDestroyedByStopCalled, transportSocket,
                 serverVars, backlog, serverEnd, failures, stops>>

(* A server that listens completes the connection: 'connect'.              *)
handleSocketOnConnect ==
  /\ socket # None
  /\ clientEnd[socket] = "connecting" /\ server = "working"
  /\ clientEnd' = [clientEnd EXCEPT ![socket] = "open"]
  /\ backlog' = Append(backlog, socket)
  /\ socketDestroyedByStopCalled' = FALSE
  /\ transportSocket' = socket
  /\ connecting' = FALSE
  /\ UNCHANGED <<working, timers, socket, serverVars, serverEnd, failures, stops>>

(* An attempt fails without a server, or by the network.                   *)
ConnectFails ==
  /\ socket # None /\ clientEnd[socket] = "connecting"
  /\ \/ server # "working" /\ UNCHANGED failures
     \/ failures < MaxFailures /\ failures' = failures + 1
  /\ clientEnd' = [clientEnd EXCEPT ![socket] = "dead"]
  /\ UNCHANGED <<clientVars, serverVars, backlog, serverEnd, stops>>

(* The client's end of a connection dies with the server's end, or by the  *)
(* network.                                                                *)
ClientEndDies(i) ==
  /\ clientEnd[i] = "open"
  /\ \/ serverEnd[i] # "open" /\ i \notin Pending /\ UNCHANGED failures
     \/ failures < MaxFailures /\ failures' = failures + 1
  /\ clientEnd' = [clientEnd EXCEPT ![i] = "dead"]
  /\ UNCHANGED <<clientVars, serverVars, backlog, serverEnd, stops>>

(* Mutant: the flag is left set.                                           *)
handleSocketOnClose_KeepsFlag ==
  /\ socket # None /\ clientEnd[socket] = "dead"
  /\ clientEnd' = [clientEnd EXCEPT ![socket] = "none"]
  /\ socket' = None /\ transportSocket' = None
  /\ \/ socketDestroyedByStopCalled /\ UNCHANGED <<connecting, timers>>
     \/ ~socketDestroyedByStopCalled /\ connecting' = TRUE /\ timers' = timers + 1
  /\ UNCHANGED <<working, socketDestroyedByStopCalled, serverVars, backlog, serverEnd,
                 failures, stops>>

(* Mutant: an attempt that failed is not repeated.                         *)
handleSocketOnClose_OneAttempt ==
  /\ socket # None /\ clientEnd[socket] = "dead"
  /\ clientEnd' = [clientEnd EXCEPT ![socket] = "none"]
  /\ socket' = None /\ transportSocket' = None
  /\ socketDestroyedByStopCalled' = FALSE
  /\ \/ /\ socketDestroyedByStopCalled \/ connecting
        /\ UNCHANGED <<connecting, timers>>
     \/ /\ ~socketDestroyedByStopCalled /\ ~connecting
        /\ connecting' = TRUE /\ timers' = timers + 1
  /\ UNCHANGED <<working, serverVars, backlog, serverEnd, failures, stops>>

(* Mutant: the nodes are not told that the connection is lost.             *)
handleSocketOnClose_KeepsTransport ==
  /\ socket # None /\ clientEnd[socket] = "dead"
  /\ clientEnd' = [clientEnd EXCEPT ![socket] = "none"]
  /\ socket' = None
  /\ socketDestroyedByStopCalled' = FALSE
  /\ \/ /\ socketDestroyedByStopCalled
        /\ UNCHANGED <<connecting, timers>>
     \/ /\ ~socketDestroyedByStopCalled
        /\ connecting' = TRUE /\ timers' = timers + 1
  /\ UNCHANGED <<working, transportSocket, serverVars, backlog, serverEnd,
                 failures, stops>>

(* 'close': the client tries again, at once or after a while, unless it    *)
(* was stop() that destroyed the socket.                                   *)
handleSocketOnClose ==
  /\ socket # None /\ clientEnd[socket] = "dead"
  /\ clientEnd' = [clientEnd EXCEPT ![socket] = "none"]
  /\ socket' = None /\ transportSocket' = None
  /\ socketDestroyedByStopCalled' = FALSE
  /\ \/ /\ socketDestroyedByStopCalled
        /\ UNCHANGED <<connecting, timers>>
     \/ /\ ~socketDestroyedByStopCalled
        /\ connecting' = TRUE /\ timers' = timers + 1
  /\ UNCHANGED <<working, serverVars, backlog, serverEnd, failures, stops>>

-----------------------------------------------------------------------------
(* The server.                                                             *)

startServer ==
  /\ server = "idle"
  /\ Overlap \/ serverSocket = None
  /\ server' = "starting"
  /\ UNCHANGED <<clientVars, clientEnd, serverSocket, backlog, serverEnd, failures, stops>>

handleServerOnListening ==
  /\ server = "starting"
  /\ server' = "working"
  /\ UNCHANGED <<clientVars, clientEnd, serverSocket, backlog, serverEnd, failures, stops>>

(* Mutant: the connection is left to itself.                               *)
stopServer_KeepsSocket ==
  /\ server = "working" /\ stops < MaxStops
  /\ stops' = stops + 1
  /\ server' = "stopping"
  /\ backlog' = << >>
  /\ UNCHANGED <<clientVars, clientEnd, serverSocket, serverEnd, failures>>

(* ServerTransport.stop(): what its system has not handed over is reset.   *)
stopServer ==
  /\ server = "working" /\ stops < MaxStops
  /\ stops' = stops + 1
  /\ server' = "stopping"
  /\ backlog' = << >>
  /\ serverEnd' = [i \in Socket |-> IF i = serverSocket THEN "dead" ELSE serverEnd[i]]
  /\ UNCHANGED <<clientVars, clientEnd, serverSocket, failures>>

(* The server emits 'close' when it has destroyed its sockets, whose own   *)
(* 'close' may come later.                                                 *)
handleServerOnClose ==
  /\ server = "stopping" /\ \A i \in Socket : serverEnd[i] # "open"
  /\ server' = "idle"
  /\ UNCHANGED <<clientVars, clientEnd, serverSocket, backlog, serverEnd, failures, stops>>

(* Mutant: a second connection is refused but stays open.                  *)
handleServerOnConnection_Keeps ==
  /\ server = "working" /\ backlog # << >>
  /\ backlog' = Tail(backlog)
  /\ serverEnd' = [serverEnd EXCEPT ![Head(backlog)] = "open"]
  /\ serverSocket' = IF serverSocket = None THEN Head(backlog) ELSE serverSocket
  /\ UNCHANGED <<clientVars, clientEnd, server, failures, stops>>

(* The first connection is taken, others are destroyed.                    *)
handleServerOnConnection ==
  /\ server = "working" /\ backlog # << >>
  /\ backlog' = Tail(backlog)
  /\ \/ /\ serverSocket # None
        /\ serverEnd' = [serverEnd EXCEPT ![Head(backlog)] = "dead"]
        /\ UNCHANGED serverSocket
     \/ /\ serverSocket = None
        /\ serverEnd' = [serverEnd EXCEPT ![Head(backlog)] = "open"]
        /\ serverSocket' = Head(backlog)
  /\ UNCHANGED <<clientVars, clientEnd, server, failures, stops>>

ServerEndDies(i) ==
  /\ serverEnd[i] = "open"
  /\ \/ clientEnd[i] # "open" /\ UNCHANGED failures
     \/ failures < MaxFailures /\ failures' = failures + 1
  /\ serverEnd' = [serverEnd EXCEPT ![i] = "dead"]
  /\ UNCHANGED <<clientVars, clientEnd, serverVars, backlog, stops>>

(* 'close'; nobody listens to that of a socket that was dropped.           *)
ServerEndCloses(i) ==
  /\ serverEnd[i] = "dead"
  /\ serverEnd' = [serverEnd EXCEPT ![i] = "none"]
  /\ serverSocket' = IF serverSocket = i THEN None ELSE serverSocket
  /\ UNCHANGED <<clientVars, clientEnd, server, backlog, failures, stops>>

-----------------------------------------------------------------------------
Next ==
  \/ start \/ stop
  \/ attemptToConnect \/ handleSocketOnConnect \/ ConnectFails \/ handleSocketOnClose
  \/ startServer \/ handleServerOnListening \/ stopServer \/ handleServerOnClose
  \/ handleServerOnConnection
  \/ \E i \in Socket : ClientEndDies(i) \/ ServerEndDies(i) \/ ServerEndCloses(i)

Spec == Init /\ [][Next]_vars

(* Timers fire, the events of sockets are emitted, a server listens in the *)
(* end, and TCP tells an end that the other one is gone.                   *)
Fairness ==
  /\ WF_vars(attemptToConnect)
  /\ WF_vars(handleSocketOnConnect \/ ConnectFails)
  /\ WF_vars(handleSocketOnClose)
  /\ WF_vars(handleServerOnListening)
  /\ WF_vars(handleServerOnClose)
  /\ WF_vars(handleServerOnConnection)
  /\ \A i \in Socket :
       /\ WF_vars(serverEnd[i] # "open" /\ i \notin Pending /\ ClientEndDies(i))
       /\ WF_vars(clientEnd[i] # "open" /\ ServerEndDies(i))
       /\ WF_vars(ServerEndCloses(i))

FairSpec == Spec /\ Fairness

-----------------------------------------------------------------------------
(* Properties.                                                             *)

(* A client that works has a socket or a timer that will make one, and a   *)
(* timer only when its socket is dead: it neither gives up nor connects    *)
(* twice, however stop() and start() fall among the events of its sockets. *)
(* One that was stopped has no timer, and what it had is dead.             *)
AlwaysTrying ==
  /\ working => timers = 1 \/ socket # None
  /\ ~working => timers = 0 /\ (socket # None => clientEnd[socket] = "dead")
  /\ timers = 1 => connecting /\ (socket # None => clientEnd[socket] = "dead")
  /\ \A i \in Socket : clientEnd[i] # "none" => i = socket

(* A connection open at both ends is the transport socket of both, so the  *)
(* nodes never speak past each other.                                      *)
OpenIsShared ==
  \A i \in Socket :
    clientEnd[i] = "open" /\ serverEnd[i] = "open" =>
      transportSocket = i /\ serverSocket = i

Joined ==
  /\ transportSocket # None /\ serverSocket = transportSocket
  /\ clientEnd[transportSocket] = "open" /\ serverEnd[transportSocket] = "open"

(* When both work for good and the network fails no more, they end up      *)
(* connected to each other, and stay so.                                   *)
Reconnects == <>[](working /\ server = "working") => <>[]Joined

(* A server that is stopped becomes idle, whatever connections it has.     *)
ServerStops == server = "stopping" ~> server = "idle"

=============================================================================
