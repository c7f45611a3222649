--------------------------- MODULE TransportProofs ---------------------------
(***************************************************************************)
(* The safety properties of Transport, for any number of sockets, failures *)
(* and stops; and that it implements Link, for any number of sessions too, *)
(* if a transport is started again only after the 'close' of its old       *)
(* socket.                                                                 *)
(***************************************************************************)
EXTENDS TransportLink, TLAPS

(* The client.  socketDestroyedByStopCalled is set exactly between stop()  *)
(* and the 'close' of the socket it destroyed, and a client that was       *)
(* started meanwhile has the timer that will make the next socket.         *)
ClientInv ==
  /\ timers = 1 => connecting
  /\ ~working => ~connecting
  /\ working => timers = 1 \/ socket # None
  /\ socketDestroyedByStopCalled => socket # None /\ clientEnd[socket] = "dead"
  /\ socketDestroyedByStopCalled /\ working => timers = 1
  /\ socket # None /\ (~working \/ timers = 1) => socketDestroyedByStopCalled
  /\ \A i \in Socket : clientEnd[i] # "none" <=> i = socket
  /\ \A i \in Socket : clientEnd[i] = "open" => i = transportSocket

(* The server: only its own socket is open.                                *)
ServerInv == \A i \in Socket : serverEnd[i] = "open" => i = serverSocket

IInv == TypeOK /\ ClientInv /\ ServerInv

-----------------------------------------------------------------------------
LEMMA InitIInv == Init => IInv
<1> SUFFICES ASSUME Init PROVE IInv
  OBVIOUS
<1>1. failures \in 0..MaxFailures /\ stops \in 0..MaxStops /\ timers \in 0..1
  BY TransportAssumption DEF Init
<1>2. backlog \in Seq(Socket)
  BY DEF Init
<1>3. TypeOK
  BY <1>1, <1>2 DEF Init, TypeOK, WorkingState
<1>4. ClientInv /\ ServerInv
  BY TransportAssumption DEF Init, ClientInv, ServerInv
<1> QED BY <1>3, <1>4 DEF IInv

(* The steps of the client.                                                *)
LEMMA ClientSteps ==
  ASSUME IInv,
         start \/ stop \/ attemptToConnect \/ handleSocketOnConnect
           \/ ConnectFails \/ handleSocketOnClose
  PROVE  IInv'
<1> USE TransportAssumption DEF IInv, TypeOK, ClientInv, ServerInv, WorkingState
<1>1. CASE start
  BY <1>1 DEF start, serverVars
<1>2. CASE stop
  <2>1. TypeOK'
    <3>1. timers' \in 0..1 /\ stops' \in 0..MaxStops
      BY <1>2 DEF stop
    <3>2. /\ clientEnd' \in [Socket -> {"none", "connecting", "open", "dead"}]
          /\ socketDestroyedByStopCalled' \in BOOLEAN
      BY <1>2 DEF stop
    <3> QED BY <1>2, <3>1, <3>2 DEF stop, serverVars
  <2>2. ClientInv'
    BY <1>2 DEF stop, serverVars
  <2>3. ServerInv'
    BY <1>2 DEF stop, serverVars
  <2> QED BY <2>1, <2>2, <2>3
<1>3. CASE attemptToConnect
  <2>1. CASE ~connecting
    BY <1>3, <2>1 DEF attemptToConnect, serverVars
  <2>2. CASE connecting
    <3> DEFINE i == CHOOSE j \in Socket : Free(j)
    <3>1. /\ i \in Socket /\ Free(i)
          /\ socket' = i /\ clientEnd' = [clientEnd EXCEPT ![i] = "connecting"]
      BY <1>3, <2>2 DEF attemptToConnect
    <3>2. socket = None /\ timers = 1 /\ timers' = 0 /\ ~socketDestroyedByStopCalled
      BY <1>3 DEF attemptToConnect, ClosesFirst
    <3> QED BY <1>3, <2>2, <3>1, <3>2 DEF attemptToConnect, serverVars
  <2> QED BY <2>1, <2>2
<1>4. CASE handleSocketOnConnect
  <2>1. /\ socket \in Socket /\ backlog' = Append(backlog, socket)
        /\ clientEnd' = [clientEnd EXCEPT ![socket] = "open"]
    BY <1>4 DEF handleSocketOnConnect
  <2>2. backlog' \in Seq(Socket)
    BY <2>1
  <2>3. TypeOK'
    BY <1>4, <2>1, <2>2 DEF handleSocketOnConnect, serverVars
  <2>4. ClientInv' /\ ServerInv'
    BY <1>4, <2>1 DEF handleSocketOnConnect, serverVars
  <2> QED BY <2>3, <2>4
<1>5. CASE ConnectFails
  BY <1>5 DEF ConnectFails, clientVars, serverVars
<1>6. CASE handleSocketOnClose
  <2>1. /\ socket \in Socket /\ socket' = None /\ transportSocket' = None
        /\ clientEnd' = [clientEnd EXCEPT ![socket] = "none"]
        /\ UNCHANGED <<working, serverVars, backlog, serverEnd, failures, stops>>
    BY <1>6 DEF handleSocketOnClose
  <2>2. CASE socketDestroyedByStopCalled
    <3>1. socketDestroyedByStopCalled' = FALSE /\ UNCHANGED <<connecting, timers>>
      BY <1>6, <2>2 DEF handleSocketOnClose
    <3>2. TypeOK' /\ ServerInv'
      BY <2>1, <3>1 DEF serverVars
    <3>3. ClientInv'
      BY <2>1, <2>2, <3>1
    <3> QED BY <3>2, <3>3
  <2>3. CASE ~socketDestroyedByStopCalled
    <3>1. /\ socketDestroyedByStopCalled' = FALSE
          /\ connecting' = TRUE /\ timers' = timers + 1
      BY <1>6, <2>3 DEF handleSocketOnClose
    <3>2. working /\ timers' = 1 /\ timers' \in 0..1
      BY <2>1, <2>3, <3>1
    <3>3. TypeOK' /\ ServerInv'
      BY <2>1, <3>1, <3>2 DEF serverVars
    <3>4. ClientInv'
      BY <2>1, <3>1, <3>2
    <3> QED BY <3>3, <3>4
  <2> QED BY <2>2, <2>3
<1> QED BY <1>1, <1>2, <1>3, <1>4, <1>5, <1>6

(* The steps of the server.                                                *)
LEMMA ServerSteps ==
  ASSUME IInv,
         startServer \/ handleServerOnListening \/ stopServer
           \/ handleServerOnClose \/ handleServerOnConnection
  PROVE  IInv'
<1> USE TransportAssumption DEF IInv, TypeOK, ClientInv, ServerInv, WorkingState
<1>1. CASE startServer
  BY <1>1 DEF startServer, clientVars
<1>2. CASE handleServerOnListening
  BY <1>2 DEF handleServerOnListening, clientVars
<1>3. CASE stopServer
  BY <1>3 DEF stopServer, clientVars
<1>4. CASE handleServerOnClose
  BY <1>4 DEF handleServerOnClose, clientVars
<1>5. CASE handleServerOnConnection
  BY <1>5 DEF handleServerOnConnection, clientVars
<1> QED BY <1>1, <1>2, <1>3, <1>4, <1>5

(* The network, and the 'close' events of the server's sockets.            *)
LEMMA NetworkSteps ==
  ASSUME IInv,
         NEW i \in Socket, ClientEndDies(i) \/ ServerEndDies(i) \/ ServerEndCloses(i)
  PROVE  IInv'
<1> USE TransportAssumption DEF IInv, TypeOK, ClientInv, ServerInv, WorkingState
<1>1. CASE ClientEndDies(i)
  BY <1>1 DEF ClientEndDies, clientVars, serverVars
<1>2. CASE ServerEndDies(i)
  BY <1>2 DEF ServerEndDies, clientVars, serverVars
<1>3. CASE ServerEndCloses(i)
  BY <1>3 DEF ServerEndCloses, clientVars
<1> QED BY <1>1, <1>2, <1>3

LEMMA NextIInv == IInv /\ [Next]_vars => IInv'
<1> SUFFICES ASSUME IInv, [Next]_vars PROVE IInv'
  OBVIOUS
<1>1. CASE UNCHANGED vars
  BY <1>1 DEF IInv, TypeOK, ClientInv, ServerInv, vars, clientVars, serverVars
<1>2. CASE Next
  BY <1>2, ClientSteps, ServerSteps, NetworkSteps DEF Next
<1> QED BY <1>1, <1>2

(* The inductive invariant holds in every reachable state.                 *)
THEOREM InvariantHolds == Spec => []IInv
  BY InitIInv, NextIInv, PTL DEF Spec

(* Every variable keeps its type; in particular there is at most one timer *)
(* that will call attemptToConnect.                                        *)
THEOREM TypeCorrect == Spec => []TypeOK
  BY InvariantHolds, PTL DEF IInv

(* However stop() and start() fall among the events of its sockets, a      *)
(* working client has a socket or a timer, and never two of either, and a  *)
(* client that was stopped has no timer and no living socket.              *)
THEOREM ClientKeepsTrying == Spec => []AlwaysTrying
<1>1. IInv => AlwaysTrying
  BY DEF IInv, TypeOK, ClientInv, AlwaysTrying
<1> QED BY <1>1, InvariantHolds, PTL

(* A connection that is open at both ends is the one both transports use.  *)
THEOREM OpenConnectionIsShared == Spec => []OpenIsShared
<1>1. IInv => OpenIsShared
  BY DEF IInv, ClientInv, ServerInv, OpenIsShared
<1> QED BY <1>1, InvariantHolds, PTL

-----------------------------------------------------------------------------
(* Transport implements Link.                                              *)

(* Sockets that wait to be accepted have the last numbers, in their order. *)
BacklogInv ==
  /\ Len(backlog) <= opened
  /\ \A n \in 1..Len(backlog) :
       /\ number[backlog[n]] = opened - Len(backlog) + n
       /\ clientEnd[backlog[n]] # "connecting"

(* A transport socket has a number, which no socket still to connect has a *)
(* reason to change, and it is gone before the transport starts again.     *)
SocketInv ==
  /\ transportSocket # None =>
       /\ transportSocket = socket
       /\ clientEnd[socket] # "connecting"
       /\ number[socket] # 0
  /\ serverSocket # None =>
       /\ clientEnd[serverSocket] # "connecting"
       /\ serverEnd[serverSocket] # "none"
       /\ number[serverSocket] # 0
  /\ \A i \in Socket : clientEnd[i] = "connecting" => serverEnd[i] = "none"
  /\ server = "starting" => serverSocket = None

NumberInv ==
  /\ opened \in Nat
  /\ number \in [Socket -> Nat]
  /\ IInv
  /\ BacklogInv
  /\ SocketInv

-----------------------------------------------------------------------------
LEMMA InitNumberInv == NumberedInit => NumberInv
<1> SUFFICES ASSUME NumberedInit PROVE NumberInv
  OBVIOUS
<1>1. IInv
  BY InitIInv DEF NumberedInit
<1>2. BacklogInv /\ SocketInv
  BY DEF NumberedInit, Init, BacklogInv, SocketInv
<1> QED BY <1>1, <1>2 DEF NumberedInit, NumberInv

(* A step takes a number when it is the client's 'connect'.                *)
LEMMA StepCases ==
  ASSUME NumberInv, NumberedNext
  PROVE  \/ /\ handleSocketOnConnect
            /\ opened < MaxSessions
            /\ opened' = opened + 1
            /\ number' = [number EXCEPT ![socket] = opened + 1]
         \/ Next /\ ~handleSocketOnConnect /\ UNCHANGED <<opened, number>>
<1>1. CASE handleSocketOnConnect
  <2>1. /\ transportSocket = None /\ transportSocket' = socket /\ socket # None
    BY <1>1 DEF handleSocketOnConnect, NumberInv, SocketInv
  <2> QED BY <1>1, <2>1 DEF NumberedNext
<1>2. CASE ~handleSocketOnConnect
  <2>1. Next
    BY DEF NumberedNext
  <2>2. transportSocket' \in {transportSocket, None}
    BY <1>2, <2>1 DEF Next, start, stop, attemptToConnect, ConnectFails,
      handleSocketOnClose, startServer, handleServerOnListening, stopServer,
      handleServerOnClose, handleServerOnConnection, ClientEndDies, ServerEndDies,
      ServerEndCloses, clientVars
  <2> QED BY <1>2, <2>1, <2>2 DEF NumberedNext
<1> QED BY <1>1, <1>2

(* 'connect' appends the socket to the backlog, with the next number.      *)
LEMMA ConnectNumbered ==
  ASSUME NumberInv, handleSocketOnConnect,
         opened' = opened + 1,
         number' = [number EXCEPT ![socket] = opened + 1]
  PROVE  BacklogInv' /\ SocketInv'
<1>1. /\ socket \in Socket /\ clientEnd[socket] = "connecting"
      /\ backlog \in Seq(Socket) /\ opened \in Nat /\ number \in [Socket -> Nat]
      /\ clientEnd \in [Socket -> {"none", "connecting", "open", "dead"}]
  BY DEF handleSocketOnConnect, NumberInv, IInv, TypeOK
<1>2. /\ backlog' = Append(backlog, socket)
      /\ clientEnd' = [clientEnd EXCEPT ![socket] = "open"]
      /\ transportSocket' = socket
      /\ UNCHANGED <<socket, server, serverSocket, serverEnd>>
  BY DEF handleSocketOnConnect, serverVars
<1>3. BacklogInv'
  <2>1. /\ Len(backlog') = Len(backlog) + 1 /\ Len(backlog) \in Nat
        /\ \A n \in 1..Len(backlog) : backlog'[n] = backlog[n]
        /\ backlog'[Len(backlog) + 1] = socket
    BY <1>1, <1>2
  <2>2. ASSUME NEW n \in 1..Len(backlog)
        PROVE  /\ backlog[n] \in Socket /\ backlog[n] # socket
               /\ number[backlog[n]] = opened - Len(backlog) + n
    BY <1>1 DEF NumberInv, BacklogInv
  <2>3. ASSUME NEW n \in 1..Len(backlog')
        PROVE  /\ number'[backlog'[n]] = opened' - Len(backlog') + n
               /\ clientEnd'[backlog'[n]] # "connecting"
    <3>1. CASE n = Len(backlog) + 1
      BY <1>1, <1>2, <2>1, <3>1
    <3>2. CASE n # Len(backlog) + 1
      <4>1. n \in 1..Len(backlog)
        BY <2>1, <3>2
      <4>2. /\ number'[backlog'[n]] = number[backlog[n]]
            /\ clientEnd'[backlog'[n]] = clientEnd[backlog[n]]
        BY <1>1, <1>2, <2>1, <2>2, <4>1
      <4>3. clientEnd[backlog[n]] # "connecting"
        BY <4>1 DEF NumberInv, BacklogInv
      <4> QED BY <1>1, <2>1, <2>2, <4>1, <4>2, <4>3
    <3> QED BY <3>1, <3>2
  <2>4. Len(backlog') <= opened'
    BY <1>1, <2>1 DEF NumberInv, BacklogInv
  <2> QED BY <2>3, <2>4 DEF BacklogInv
<1>4. SocketInv'
  BY <1>1, <1>2, TransportAssumption DEF NumberInv, SocketInv, IInv, TypeOK
<1> QED BY <1>3, <1>4

(* The other steps leave the numbers alone.                                *)
LEMMA ClientNumbered ==
  ASSUME NumberInv,
         start \/ stop \/ attemptToConnect \/ ConnectFails \/ handleSocketOnClose,
         UNCHANGED <<opened, number>>
  PROVE  BacklogInv' /\ SocketInv'
<1> USE DEF BacklogInv, SocketInv
<1>0. /\ backlog \in Seq(Socket) /\ None \notin Socket
      /\ \A n \in 1..Len(backlog) : backlog[n] \in Socket
      /\ socket \in Socket \cup {None} /\ serverSocket \in Socket \cup {None}
      /\ clientEnd \in [Socket -> {"none", "connecting", "open", "dead"}]
      /\ serverEnd \in [Socket -> {"none", "open", "dead"}]
  BY TransportAssumption DEF NumberInv, IInv, TypeOK
<1>1. CASE start
  BY <1>1 DEF start, serverVars, NumberInv
<1>2. CASE stop
  BY <1>0, <1>2 DEF stop, serverVars, NumberInv
<1>3. CASE attemptToConnect
  <2>1. CASE ~connecting
    BY <1>3, <2>1 DEF attemptToConnect, serverVars, NumberInv
  <2>2. CASE connecting
    <3> DEFINE i == CHOOSE j \in Socket : Free(j)
    <3>1. /\ i \in Socket /\ Free(i)
          /\ socket' = i /\ clientEnd' = [clientEnd EXCEPT ![i] = "connecting"]
      BY <1>3, <2>2 DEF attemptToConnect
    <3>2. socket = None
      BY <1>3 DEF attemptToConnect, ClosesFirst, NumberInv, IInv, ClientInv, TypeOK
    <3>3. transportSocket = None /\ transportSocket' = None
      BY <1>3, <3>2 DEF attemptToConnect, NumberInv
    <3>4. UNCHANGED <<server, serverSocket, backlog, serverEnd>>
      BY <1>3 DEF attemptToConnect, serverVars
    <3>5. serverEnd[i] = "none" /\ \A n \in 1..Len(backlog) : backlog[n] # i
      BY <3>1 DEF Free, Pending
    <3> HIDE DEF i
    <3>6. BacklogInv'
      BY <1>0, <3>1, <3>4, <3>5 DEF NumberInv
    <3>7. SocketInv'
      BY <1>0, <3>1, <3>3, <3>4, <3>5 DEF NumberInv
    <3> QED BY <3>6, <3>7
  <2> QED BY <2>1, <2>2
<1>4. CASE ConnectFails
  BY <1>0, <1>4 DEF ConnectFails, clientVars, serverVars, NumberInv
<1>5. CASE handleSocketOnClose
  BY <1>0, <1>5 DEF handleSocketOnClose, serverVars, NumberInv
<1> QED BY <1>1, <1>2, <1>3, <1>4, <1>5

LEMMA ServerNumbered ==
  ASSUME NumberInv, ~Overlap,
         startServer \/ handleServerOnListening \/ stopServer
           \/ handleServerOnClose \/ handleServerOnConnection,
         UNCHANGED <<opened, number>>
  PROVE  BacklogInv' /\ SocketInv'
<1> USE DEF BacklogInv, SocketInv
<1>0. /\ backlog \in Seq(Socket) /\ None \notin Socket
      /\ \A n \in 1..Len(backlog) : backlog[n] \in Socket
      /\ serverSocket \in Socket \cup {None} /\ opened \in Nat
      /\ clientEnd \in [Socket -> {"none", "connecting", "open", "dead"}]
      /\ serverEnd \in [Socket -> {"none", "open", "dead"}]
  BY TransportAssumption DEF NumberInv, IInv, TypeOK
<1>1. CASE startServer
  BY <1>1 DEF startServer, clientVars, NumberInv
<1>2. CASE handleServerOnListening
  BY <1>2 DEF handleServerOnListening, clientVars, NumberInv
<1>3. CASE stopServer
  BY <1>0, <1>3 DEF stopServer, clientVars, NumberInv
<1>4. CASE handleServerOnClose
  BY <1>4 DEF handleServerOnClose, clientVars, NumberInv
<1>5. CASE handleServerOnConnection
  <2>1. /\ backlog # << >> /\ backlog' = Tail(backlog) /\ server = "working"
        /\ UNCHANGED <<socket, transportSocket, clientEnd, server>>
    BY <1>5 DEF handleServerOnConnection, clientVars
  <2>2. /\ Len(backlog') = Len(backlog) - 1 /\ Len(backlog) \in Nat \ {0}
        /\ \A n \in 1..Len(backlog') : backlog'[n] = backlog[n + 1]
        /\ Head(backlog) = backlog[1]
    BY <1>0, <2>1
  <2>3. BacklogInv'
    <3>1. ASSUME NEW n \in 1..Len(backlog')
          PROVE  /\ number[backlog'[n]] = opened - Len(backlog') + n
                 /\ clientEnd[backlog'[n]] # "connecting"
      <4>1. n + 1 \in 1..Len(backlog) /\ backlog'[n] = backlog[n + 1]
        BY <2>2
      <4>2. /\ number[backlog[n + 1]] = opened - Len(backlog) + (n + 1)
            /\ clientEnd[backlog[n + 1]] # "connecting"
        BY <4>1 DEF NumberInv
      <4> QED BY <1>0, <2>2, <4>1, <4>2
    <3> QED BY <1>0, <2>1, <2>2, <3>1 DEF NumberInv
  <2>4. /\ Head(backlog) \in Socket /\ clientEnd[Head(backlog)] # "connecting"
        /\ number[Head(backlog)] # 0
    BY <1>0, <2>2 DEF NumberInv
  <2>5. SocketInv'
    BY <1>0, <1>5, <2>1, <2>4 DEF handleServerOnConnection, NumberInv
  <2> QED BY <2>3, <2>5
<1> QED BY <1>1, <1>2, <1>3, <1>4, <1>5

LEMMA NetworkNumbered ==
  ASSUME NumberInv,
         NEW i \in Socket, ClientEndDies(i) \/ ServerEndDies(i) \/ ServerEndCloses(i),
         UNCHANGED <<opened, number>>
  PROVE  BacklogInv' /\ SocketInv'
<1> USE DEF BacklogInv, SocketInv
<1>0. /\ backlog \in Seq(Socket) /\ None \notin Socket
      /\ \A n \in 1..Len(backlog) : backlog[n] \in Socket
      /\ socket \in Socket \cup {None} /\ serverSocket \in Socket \cup {None}
      /\ clientEnd \in [Socket -> {"none", "connecting", "open", "dead"}]
      /\ serverEnd \in [Socket -> {"none", "open", "dead"}]
  BY TransportAssumption DEF NumberInv, IInv, TypeOK
<1>1. CASE ClientEndDies(i)
  BY <1>0, <1>1 DEF ClientEndDies, clientVars, serverVars, NumberInv
<1>2. CASE ServerEndDies(i)
  BY <1>0, <1>2 DEF ServerEndDies, clientVars, serverVars, NumberInv
<1>3. CASE ServerEndCloses(i)
  BY <1>0, <1>3 DEF ServerEndCloses, clientVars, NumberInv
<1> QED BY <1>1, <1>2, <1>3

LEMMA NextNumberInv ==
  ~Overlap /\ NumberInv /\ [NumberedNext]_numberedVars => NumberInv'
<1> SUFFICES ASSUME ~Overlap, NumberInv, [NumberedNext]_numberedVars PROVE NumberInv'
  OBVIOUS
<1>1. CASE UNCHANGED numberedVars
  <2>1. IInv'
    BY <1>1, NextIInv DEF NumberInv, numberedVars
  <2>2. BacklogInv' /\ SocketInv'
    BY <1>1 DEF NumberInv, BacklogInv, SocketInv, numberedVars, vars, clientVars, serverVars
  <2> QED BY <1>1, <2>1, <2>2 DEF NumberInv, numberedVars
<1>2. CASE NumberedNext
  <2>1. IInv'
    BY <1>2, NextIInv DEF NumberInv, NumberedNext
  <2>2. opened' \in Nat /\ number' \in [Socket -> Nat]
    BY <1>2, StepCases DEF NumberInv
  <2>3. BacklogInv' /\ SocketInv'
    BY <1>2, StepCases, ConnectNumbered, ClientNumbered, ServerNumbered,
       NetworkNumbered DEF Next
  <2> QED BY <2>1, <2>2, <2>3 DEF NumberInv
<1> QED BY <1>1, <1>2

(* The numbers are as NumberInv says in every reachable state.             *)
THEOREM NumbersHold ==
  ASSUME ~Overlap
  PROVE  NumberedSpec => []NumberInv
<1>1. NumberInv /\ [NumberedNext]_numberedVars => NumberInv'
  BY NextNumberInv
<1> QED BY <1>1, InitNumberInv, PTL DEF NumberedSpec

-----------------------------------------------------------------------------
(* Every step is a step of Link, or none.                                  *)

LEMMA EndsFacts ==
  ASSUME NEW a, NEW b, NEW c
  PROVE  /\ Ends(a, b)["in"] = a /\ Ends(a, b)["out"] = b
         /\ [Ends(a, b) EXCEPT !["in"] = c] = Ends(c, b)
         /\ [Ends(a, b) EXCEPT !["out"] = c] = Ends(a, c)
  BY DEF Ends

LEMMA InitMapped == NumberedInit => Sessions!LinkInit
<1> SUFFICES ASSUME NumberedInit PROVE Sessions!LinkInit
  OBVIOUS
<1>1. /\ working = FALSE /\ (server = "working") = FALSE
      /\ Number(transportSocket) = 0 /\ Number(serverSocket) = 0
  BY DEF NumberedInit, Init, Number
<1>3. opened = 0
  BY DEF NumberedInit
<1>4. Len(backlog) = 0
  BY DEF NumberedInit, Init
<1>5. opened - Len(backlog) = 0
  BY <1>3, <1>4
<1>2. /\ Ends(FALSE, FALSE) = [s \in Sessions!Side |-> FALSE]
      /\ Ends(0, 0) = [s \in Sessions!Side |-> 0]
      /\ Ends(NoMessages, NoMessages) =
           [s \in Sessions!Side |-> [k \in Sessions!Session |-> << >>]]
  BY DEF Ends, NoMessages, Sessions!Side, Sessions!Session
<1> QED BY <1>1, <1>2, <1>3, <1>5 DEF Sessions!LinkInit

(* What the mapping depends on.                                            *)
LEMMA Stutters ==
  ASSUME UNCHANGED <<working, transportSocket, serverSocket, backlog, opened, number>>,
         (server' = "working") = (server = "working")
  PROVE  UNCHANGED Sessions!linkVars
  BY DEF Sessions!linkVars, Number, NoMessages

LEMMA ConnectMapped ==
  ASSUME NumberInv, handleSocketOnConnect, opened < MaxSessions,
         opened' = opened + 1,
         number' = [number EXCEPT ![socket] = opened + 1]
  PROVE  Sessions!ClientConnects
<1>1. /\ socket \in Socket /\ clientEnd[socket] = "connecting" /\ server = "working"
      /\ transportSocket' = socket /\ backlog' = Append(backlog, socket)
      /\ UNCHANGED <<working, server, serverSocket>>
  BY DEF handleSocketOnConnect, serverVars, NumberInv, IInv, TypeOK
<1>2. working /\ transportSocket = None /\ serverSocket # socket /\ None \notin Socket
  BY <1>1, TransportAssumption DEF NumberInv, SocketInv, IInv, ClientInv
<1>3. opened' - Len(backlog') = opened - Len(backlog)
  BY <1>1 DEF NumberInv, IInv, TypeOK
<1>4. Number(transportSocket) = 0 /\ Number(transportSocket)' = opened + 1
  BY <1>1, <1>2 DEF Number, NumberInv
<1>5. Number(serverSocket)' = Number(serverSocket)
  BY <1>1, <1>2 DEF Number, NumberInv
<1>6. /\ Ends(working, server = "working")["in"]
      /\ Ends(working, server = "working")["out"]
  BY <1>1, <1>2, EndsFacts
<1>7. Ends(working, server = "working")' = Ends(working, server = "working")
  BY <1>1
<1>8. Ends(Number(transportSocket), Number(serverSocket))["in"] = 0
  BY <1>4, EndsFacts
<1>9. Ends(Number(transportSocket), Number(serverSocket))'
        = [Ends(Number(transportSocket), Number(serverSocket)) EXCEPT !["in"] = opened + 1]
  BY <1>4, <1>5, EndsFacts
<1> QED BY <1>3, <1>6, <1>7, <1>8, <1>9 DEF Sessions!ClientConnects, NoMessages

LEMMA StartMapped ==
  ASSUME NumberInv, ~Overlap, start, UNCHANGED <<opened, number>>
  PROVE  Sessions!LinkStart("in")
<1>1. /\ working = FALSE /\ working' = TRUE /\ socket = None
      /\ UNCHANGED <<transportSocket, server, serverSocket, backlog>>
  BY DEF start, serverVars, NumberInv, IInv, TypeOK
<1>2. transportSocket = None
  BY <1>1 DEF NumberInv, SocketInv
<1>3. Number(transportSocket) = 0
  BY <1>2 DEF Number
<1>4. /\ Number(transportSocket)' = Number(transportSocket)
      /\ Number(serverSocket)' = Number(serverSocket)
  BY <1>1 DEF Number
<1>5. ~Ends(working, server = "working")["in"]
  BY <1>1, EndsFacts
<1>6. Ends(working, server = "working")'
        = [Ends(working, server = "working") EXCEPT !["in"] = TRUE]
  <2>1. Ends(working, server = "working")' = Ends(TRUE, server = "working")
    BY <1>1
  <2>2. [Ends(working, server = "working") EXCEPT !["in"] = TRUE]
          = Ends(TRUE, server = "working")
    BY DEF Ends
  <2> QED BY <2>1, <2>2
<1>7. /\ Ends(Number(transportSocket), Number(serverSocket))["in"] = 0
      /\ UNCHANGED Ends(Number(transportSocket), Number(serverSocket))
  BY <1>3, <1>4, EndsFacts
<1> QED BY <1>1, <1>5, <1>6, <1>7 DEF Sessions!LinkStart, NoMessages

LEMMA StopMapped ==
  ASSUME NumberInv, stop, UNCHANGED <<opened, number>>
  PROVE  Sessions!LinkStop("in")
<1>1. /\ working = TRUE /\ working' = FALSE
      /\ UNCHANGED <<transportSocket, server, serverSocket, backlog>>
  BY DEF stop, serverVars, NumberInv, IInv, TypeOK
<1>2. /\ Number(transportSocket)' = Number(transportSocket)
      /\ Number(serverSocket)' = Number(serverSocket)
  BY <1>1 DEF Number
<1>3. Ends(working, server = "working")["in"]
  BY <1>1, EndsFacts
<1>4. Ends(working, server = "working")'
        = [Ends(working, server = "working") EXCEPT !["in"] = FALSE]
  <2>1. Ends(working, server = "working")' = Ends(FALSE, server = "working")
    BY <1>1
  <2>2. [Ends(working, server = "working") EXCEPT !["in"] = FALSE]
          = Ends(FALSE, server = "working")
    BY DEF Ends
  <2> QED BY <2>1, <2>2
<1>5. UNCHANGED Ends(Number(transportSocket), Number(serverSocket))
  BY <1>2
<1> QED BY <1>1, <1>3, <1>4, <1>5 DEF Sessions!LinkStop, NoMessages

(* There are no messages to lose.                                          *)
LEMMA NothingLost ==
  ASSUME NEW k
  PROVE  /\ [Ends(NoMessages, NoMessages) EXCEPT !["in"][k] = << >>]
              = Ends(NoMessages, NoMessages)
         /\ [Ends(NoMessages, NoMessages) EXCEPT !["out"][k] = << >>]
              = Ends(NoMessages, NoMessages)
<1>1. [NoMessages EXCEPT ![k] = << >>] = NoMessages
  BY DEF NoMessages
<1> QED BY <1>1, EndsFacts

LEMMA CloseMapped ==
  ASSUME NumberInv, handleSocketOnClose, UNCHANGED <<opened, number>>
  PROVE  Sessions!LinkLost("in") \/ UNCHANGED Sessions!linkVars
<1>1. /\ transportSocket' = None
      /\ UNCHANGED <<working, server, serverSocket, backlog>>
  BY DEF handleSocketOnClose, serverVars
<1>2. CASE transportSocket = None
  BY <1>1, <1>2, Stutters
<1>3. CASE transportSocket # None
  <2>1. Number(transportSocket) # 0 /\ Number(transportSocket)' = 0
    BY <1>1, <1>3 DEF Number, NumberInv, SocketInv
  <2>2. Number(serverSocket)' = Number(serverSocket)
    BY <1>1 DEF Number
  <2>3. Ends(Number(transportSocket), Number(serverSocket))["in"] # 0
    BY <2>1, EndsFacts
  <2>4. Ends(Number(transportSocket), Number(serverSocket))'
          = [Ends(Number(transportSocket), Number(serverSocket)) EXCEPT !["in"] = 0]
    BY <2>1, <2>2, EndsFacts
  <2>5. UNCHANGED Ends(working, server = "working")
    BY <1>1
  <2> QED BY <1>1, <2>3, <2>4, <2>5, NothingLost DEF Sessions!LinkLost, NoMessages
<1> QED BY <1>2, <1>3

LEMMA ListensMapped ==
  ASSUME NumberInv, handleServerOnListening, UNCHANGED <<opened, number>>
  PROVE  Sessions!LinkStart("out")
<1>1. /\ server = "starting" /\ server' = "working"
      /\ UNCHANGED <<working, transportSocket, serverSocket, backlog>>
  BY DEF handleServerOnListening, clientVars
<1>2. Number(serverSocket) = 0
  BY <1>1 DEF NumberInv, SocketInv, Number
<1>3. /\ Number(transportSocket)' = Number(transportSocket)
      /\ Number(serverSocket)' = Number(serverSocket)
  BY <1>1 DEF Number
<1>4. ~Ends(working, server = "working")["out"]
  BY <1>1, EndsFacts
<1>5. Ends(working, server = "working")'
        = [Ends(working, server = "working") EXCEPT !["out"] = TRUE]
  <2>1. Ends(working, server = "working")' = Ends(working, TRUE)
    BY <1>1
  <2>2. [Ends(working, server = "working") EXCEPT !["out"] = TRUE] = Ends(working, TRUE)
    BY DEF Ends
  <2> QED BY <2>1, <2>2
<1>6. /\ Ends(Number(transportSocket), Number(serverSocket))["out"] = 0
      /\ UNCHANGED Ends(Number(transportSocket), Number(serverSocket))
  BY <1>2, <1>3, EndsFacts
<1> QED BY <1>1, <1>4, <1>5, <1>6 DEF Sessions!LinkStart, NoMessages

LEMMA StopServerMapped ==
  ASSUME NumberInv, stopServer, UNCHANGED <<opened, number>>
  PROVE  Sessions!LinkStop("out")
<1>1. /\ server = "working" /\ server' = "stopping" /\ backlog' = << >>
      /\ UNCHANGED <<working, transportSocket, serverSocket>>
  BY DEF stopServer, clientVars
<1>2. /\ Number(transportSocket)' = Number(transportSocket)
      /\ Number(serverSocket)' = Number(serverSocket)
  BY <1>1 DEF Number
<1>3. Ends(working, server = "working")["out"]
  BY <1>1, EndsFacts
<1>4. Ends(working, server = "working")'
        = [Ends(working, server = "working") EXCEPT !["out"] = FALSE]
  <2>1. Ends(working, server = "working")' = Ends(working, FALSE)
    BY <1>1
  <2>2. [Ends(working, server = "working") EXCEPT !["out"] = FALSE] = Ends(working, FALSE)
    BY DEF Ends
  <2> QED BY <2>1, <2>2
<1>5. UNCHANGED Ends(Number(transportSocket), Number(serverSocket))
  BY <1>2
<1>6. opened' - Len(backlog') = opened
  <2>1. Len(backlog') = 0
    BY <1>1
  <2> QED BY <2>1 DEF NumberInv
<1> QED BY <1>1, <1>3, <1>4, <1>5, <1>6 DEF Sessions!LinkStop, NoMessages

LEMMA AcceptMapped ==
  ASSUME NumberInv, handleServerOnConnection, UNCHANGED <<opened, number>>
  PROVE  Sessions!ServerAccepts \/ Sessions!ServerDrops
<1>1. /\ server = "working" /\ backlog # << >> /\ backlog' = Tail(backlog)
      /\ UNCHANGED <<working, transportSocket, server>>
  BY DEF handleServerOnConnection, clientVars
<1>2. /\ backlog \in Seq(Socket) /\ None \notin Socket /\ opened \in Nat
  BY TransportAssumption DEF NumberInv, IInv, TypeOK
<1>3. /\ Len(backlog) \in Nat \ {0} /\ Len(backlog') = Len(backlog) - 1
      /\ Head(backlog) = backlog[1] /\ backlog[1] \in Socket
  BY <1>1, <1>2
<1>4. /\ opened - Len(backlog) < opened
      /\ opened' - Len(backlog') = (opened - Len(backlog)) + 1
      /\ number[Head(backlog)] = (opened - Len(backlog)) + 1
  BY <1>2, <1>3 DEF NumberInv, BacklogInv
<1>5. Number(transportSocket)' = Number(transportSocket)
  BY <1>1 DEF Number
<1>6. /\ Ends(working, server = "working")["out"]
      /\ UNCHANGED Ends(working, server = "working")
  BY <1>1, EndsFacts
<1>7. CASE serverSocket = None
  <2>1. serverSocket' = Head(backlog)
    BY <1>7 DEF handleServerOnConnection
  <2>2. Number(serverSocket) = 0 /\ Number(serverSocket)' = (opened - Len(backlog)) + 1
    BY <1>2, <1>3, <1>4, <1>7, <2>1 DEF Number
  <2>3. Ends(Number(transportSocket), Number(serverSocket))["out"] = 0
    BY <2>2, EndsFacts
  <2>4. Ends(Number(transportSocket), Number(serverSocket))'
          = [Ends(Number(transportSocket), Number(serverSocket)) EXCEPT
               !["out"] = (opened - Len(backlog)) + 1]
    BY <1>5, <2>2, EndsFacts
  <2> QED BY <1>4, <1>6, <2>3, <2>4 DEF Sessions!ServerAccepts, NoMessages
<1>8. CASE serverSocket # None
  <2>1. serverSocket' = serverSocket
    BY <1>8 DEF handleServerOnConnection
  <2>2. Number(serverSocket) # 0 /\ Number(serverSocket)' = Number(serverSocket)
    BY <1>8, <2>1 DEF Number, NumberInv, SocketInv
  <2>3. /\ Ends(Number(transportSocket), Number(serverSocket))["out"] # 0
        /\ UNCHANGED Ends(Number(transportSocket), Number(serverSocket))
    BY <1>5, <2>2, EndsFacts
  <2> QED BY <1>4, <1>6, <2>3 DEF Sessions!ServerDrops, NoMessages
<1> QED BY <1>7, <1>8

LEMMA ServerCloseMapped ==
  ASSUME NumberInv, NEW i \in Socket, ServerEndCloses(i), UNCHANGED <<opened, number>>
  PROVE  Sessions!LinkLost("out") \/ UNCHANGED Sessions!linkVars
<1>1. UNCHANGED <<working, transportSocket, server, backlog>>
  BY DEF ServerEndCloses, clientVars
<1>2. CASE serverSocket # i
  BY <1>1, <1>2, Stutters DEF ServerEndCloses
<1>3. CASE serverSocket = i
  <2>1. serverSocket # None /\ serverSocket' = None
    BY <1>3, TransportAssumption DEF ServerEndCloses
  <2>2. Number(serverSocket) # 0 /\ Number(serverSocket)' = 0
    BY <2>1 DEF Number, NumberInv, SocketInv
  <2>3. Number(transportSocket)' = Number(transportSocket)
    BY <1>1 DEF Number
  <2>4. Ends(Number(transportSocket), Number(serverSocket))["out"] # 0
    BY <2>2, EndsFacts
  <2>5. Ends(Number(transportSocket), Number(serverSocket))'
          = [Ends(Number(transportSocket), Number(serverSocket)) EXCEPT !["out"] = 0]
    BY <2>2, <2>3, EndsFacts
  <2>6. UNCHANGED Ends(working, server = "working")
    BY <1>1
  <2> QED BY <1>1, <2>4, <2>5, <2>6, NothingLost DEF Sessions!LinkLost, NoMessages
<1> QED BY <1>2, <1>3

(* What Link does not see.                                                 *)
LEMMA HiddenSteps ==
  ASSUME NumberInv, UNCHANGED <<opened, number>>,
         \/ attemptToConnect \/ ConnectFails \/ startServer \/ handleServerOnClose
         \/ \E i \in Socket : ClientEndDies(i) \/ ServerEndDies(i)
  PROVE  UNCHANGED Sessions!linkVars
<1>1. /\ UNCHANGED <<working, transportSocket, serverSocket, backlog>>
      /\ (server' = "working") = (server = "working")
  BY DEF attemptToConnect, ConnectFails, startServer, handleServerOnClose,
     ClientEndDies, ServerEndDies, clientVars, serverVars
<1> QED BY <1>1, Stutters

LEMMA StepMapped ==
  ~Overlap /\ NumberInv /\ [NumberedNext]_numberedVars
    => [Sessions!LinkNext]_(Sessions!linkVars)
<1> SUFFICES ASSUME ~Overlap, NumberInv, [NumberedNext]_numberedVars
             PROVE  Sessions!LinkNext \/ UNCHANGED Sessions!linkVars
  OBVIOUS
<1>1. CASE UNCHANGED numberedVars
  BY <1>1, Stutters DEF numberedVars, vars, clientVars, serverVars
<1>2. CASE NumberedNext /\ handleSocketOnConnect
  <2>1. Sessions!ClientConnects
    BY <1>2, StepCases, ConnectMapped
  <2> QED BY <2>1 DEF Sessions!LinkNext
<1>3. CASE NumberedNext /\ ~handleSocketOnConnect
  <2>1. Next /\ UNCHANGED <<opened, number>>
    BY <1>3, StepCases
  <2>2. CASE \/ start \/ stop \/ handleSocketOnClose
             \/ handleServerOnListening \/ stopServer \/ handleServerOnConnection
    BY <2>1, <2>2, StartMapped, StopMapped, CloseMapped, ListensMapped,
       StopServerMapped, AcceptMapped DEF Sessions!LinkNext, Sessions!Side
  <2>3. CASE \E i \in Socket : ServerEndCloses(i)
    BY <2>1, <2>3, ServerCloseMapped DEF Sessions!LinkNext, Sessions!Side
  <2>4. CASE \/ attemptToConnect \/ ConnectFails \/ startServer \/ handleServerOnClose
             \/ \E i \in Socket : ClientEndDies(i) \/ ServerEndDies(i)
    BY <2>1, <2>4, HiddenSteps
  <2> QED BY <1>3, <2>1, <2>2, <2>3, <2>4 DEF Next
<1> QED BY <1>1, <1>2, <1>3

(* The two transports, with their flags and timers, implement the sessions *)
(* over which the nodes are modelled, if nobody starts one again before    *)
(* the 'close' of its old socket.                                          *)
THEOREM TransportImplementsLink ==
  ASSUME ~Overlap
  PROVE  NumberedSpec => IsLink
<1>1. NumberedSpec => []NumberInv
  BY NumbersHold
<1>2. NumberInv /\ [NumberedNext]_numberedVars => [Sessions!LinkNext]_(Sessions!linkVars)
  BY StepMapped
<1> QED BY <1>1, <1>2, InitMapped, PTL DEF NumberedSpec, IsLink, Sessions!LinkSpec

=============================================================================
