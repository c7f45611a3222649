-------------------------------- MODULE VkCall --------------------------------
(***************************************************************************)
(* transport/vk-calls/VkCallSignalServerTransport.js: a transport that     *)
(* sends its data through the signal server of a VK call.  Whoever has     *)
(* joined says CONNECT to all others; who is not yet connected answers     *)
(* with ACCEPT.  Afterwards buffers go to the opponent, until the server   *)
(* reports that the opponent has hung up.                                  *)
(***************************************************************************)
EXTENDS VkSignal, FiniteSets

CONSTANTS
  MaxLosses,  \* transports around which something fails, once each
  MaxStops,   \* calls of stop()
  MaxWrites   \* buffers written to each transport socket

ASSUME CallAssumption == MaxLosses \in Nat /\ MaxStops \in Nat /\ MaxWrites \in Nat

VARIABLES
  working,       \* workingState
  state,         \* of the negotiation; "none" while it is undefined
  opponent,      \* opponentParticipantId
  participants,  \* the others in the call, as far as the transport knows
  socket,        \* is there a transportSocket?
  written,       \* buffers written to it
  got,           \* buffers pushed to it: sender and number
  crashed,       \* the process has ended
  lost,          \* transports around which something has failed
  stops          \* how often stop() was called

peerVars == <<state, opponent, participants>>
socketVars == <<socket, written, got>>
vars == <<signalVars, working, peerVars, socketVars, crashed, lost, stops>>

TypeOK ==
  /\ SignalTypeOK
  /\ working \in [Transports -> {"idle", "starting", "working", "stopping"}]
  /\ state \in [Transports -> {"none", "CONNECTING", "CONNECTED"}]
  /\ opponent \in [Transports -> Participant \cup {None}]
  /\ participants \in [Transports -> SUBSET Participant]
  /\ socket \in [Transports -> BOOLEAN]
  /\ written \in [Transports -> 0..MaxWrites]
  /\ got \in [Transports -> Seq(Participant \X Nat)]
  /\ crashed \in [Transports -> BOOLEAN]
  /\ lost \subseteq Transports /\ Cardinality(lost) <= MaxLosses
  /\ stops \in 0..MaxStops
  /\ \A t \in Transports : opponent[t] # None <=> state[t] = "CONNECTED"
  /\ \A t \in Transports : socket[t] => state[t] = "CONNECTED"

Init ==
  /\ SignalInit
  /\ working = [t \in Transports |-> "idle"]
  /\ state = [t \in Transports |-> "none"]
  /\ opponent = [t \in Transports |-> None]
  /\ participants = [t \in Transports |-> {}]
  /\ socket = [t \in Transports |-> FALSE]
  /\ written = [t \in Transports |-> 0]
  /\ got = [t \in Transports |-> << >>]
  /\ crashed = [t \in Transports |-> FALSE]
  /\ lost = {}
  /\ stops = 0

-----------------------------------------------------------------------------
(* The transport socket.                                                   *)

CanFail(t) == ~crashed[t] /\ t \notin lost /\ Cardinality(lost) < MaxLosses

createTransportSocket(t) ==
  /\ socket' = [socket EXCEPT ![t] = TRUE]
  /\ written' = [written EXCEPT ![t] = 0]
  /\ got' = [got EXCEPT ![t] = << >>]

destroyTransportSocket(t) ==
  /\ socket' = [socket EXCEPT ![t] = FALSE]
  /\ written' = [written EXCEPT ![t] = 0]
  /\ got' = [got EXCEPT ![t] = << >>]

(* The multiplexer writes to the transport socket.  Without a websocket to *)
(* send on, send throws where nobody catches it.                           *)
sendMessageToParticipant(t) ==
  /\ socket[t] /\ ~crashed[t] /\ written[t] < MaxWrites
  /\ \/ /\ ws[t] = "open"
        /\ written' = [written EXCEPT ![t] = @ + 1]
        /\ inbox' = Posted(inbox, {opponent[t]},
                           CustomData("BUFFER", self[t], <<written[t] + 1, 0>>))
        /\ UNCHANGED crashed
     \/ /\ ws[t] # "open"
        /\ crashed' = [crashed EXCEPT ![t] = TRUE]
        /\ UNCHANGED <<written, inbox>>
  /\ UNCHANGED <<fetching, ws, self, members, owner, working, peerVars, socket,
                 got, lost, stops>>

(* A frame that cannot be handled destroys the socket and nothing else.    *)
handleTransportSocketOnError(t) ==
  /\ socket[t] /\ CanFail(t)
  /\ destroyTransportSocket(t)
  /\ lost' = lost \cup {t}
  /\ UNCHANGED <<signalVars, working, peerVars, crashed, stops>>
-----------------------------------------------------------------------------
(* Starting and stopping.                                                  *)

start(t) ==
  /\ working[t] = "idle" /\ ~crashed[t]
  /\ working' = [working EXCEPT ![t] = "starting"]
  /\ FetchUrl(t)
  /\ UNCHANGED <<peerVars, socketVars, crashed, lost, stops>>

startSignalServerConnection(t) ==
  /\ SignalStart(t) /\ ~crashed[t]
  /\ UNCHANGED <<working, peerVars, socketVars, crashed, lost, stops>>

(* getVkWebSocketSignalServerUrlByJoinId throws in an asynchronous         *)
(* function nobody waits for, and the process ends.                        *)
UrlFails(t) ==
  /\ fetching[t] /\ CanFail(t)
  /\ fetching' = [fetching EXCEPT ![t] = FALSE]
  /\ lost' = lost \cup {t}
  /\ crashed' = [crashed EXCEPT ![t] = TRUE]
  /\ UNCHANGED <<ws, self, inbox, members, owner, working, peerVars, socketVars, stops>>

handleVkWebSocketSignalServerOnStarted(t) ==
  /\ WebSocketOpens(t) /\ ~crashed[t]
  /\ working' = [working EXCEPT ![t] = "working"]
  /\ UNCHANGED <<peerVars, socketVars, crashed, lost, stops>>

(* Mutant: stop() leaves the transport socket as it is.                    *)
stop_KeepsSocket(t) ==
  /\ working[t] = "working" /\ ~crashed[t] /\ stops < MaxStops
  /\ stops' = stops + 1
  /\ working' = [working EXCEPT ![t] = "stopping"]
  /\ SignalLeaves(t, "closing")
  /\ UNCHANGED <<fetching, peerVars, socketVars, crashed, lost>>

stop(t) ==
  /\ working[t] = "working" /\ ~crashed[t] /\ stops < MaxStops
  /\ stops' = stops + 1
  /\ working' = [working EXCEPT ![t] = "stopping"]
  /\ destroyTransportSocket(t)
  /\ SignalLeaves(t, "closing")
  /\ UNCHANGED <<fetching, peerVars, crashed, lost>>

(* 'close' of the websocket, which stop() or a failure has closed.  The    *)
(* negotiation and the transport socket stay as they are.                  *)
handleVkWebSocketSignalServerOnStopped(t) ==
  /\ ~crashed[t]
  /\ \/ ws[t] = "closing" /\ UNCHANGED lost
     \/ /\ ws[t] \in {"opening", "open"} /\ CanFail(t)
        /\ lost' = lost \cup {t}
  /\ SignalLeaves(t, "none")
  /\ working' = [working EXCEPT ![t] = "idle"]
  /\ UNCHANGED <<fetching, peerVars, socketVars, crashed, stops>>

(* The end of a process closes its websocket too.                          *)
CrashedWebSocketCloses(t) ==
  /\ crashed[t] /\ ws[t] # "none"
  /\ SignalLeaves(t, "none")
  /\ UNCHANGED <<fetching, working, peerVars, socketVars, crashed, lost, stops>>

ParticipantHungup ==
  /\ \E p \in members : Hungup(p)
  /\ UNCHANGED <<working, peerVars, socketVars, crashed, lost, stops>>
-----------------------------------------------------------------------------
(* The negotiation.                                                        *)

(* Mutant: the opponent is not forgotten.                                  *)
setStateConnecting_KeepsOpponent(t, others, box) ==
  /\ state' = [state EXCEPT ![t] = "CONNECTING"]
  /\ participants' = [participants EXCEPT ![t] = others]
  /\ destroyTransportSocket(t)
  /\ inbox' = Posted(box, others, CustomData("CONNECT", self[t], <<0, 0>>))
  /\ UNCHANGED opponent

(* Mutant: nobody is told.                                                 *)
setStateConnecting_Silent(t, others, box) ==
  /\ state' = [state EXCEPT ![t] = "CONNECTING"]
  /\ opponent' = [opponent EXCEPT ![t] = None]
  /\ participants' = [participants EXCEPT ![t] = others]
  /\ destroyTransportSocket(t)
  /\ inbox' = box

(* Says CONNECT to all others; box are the queues without the notification *)
(* that is being handled.                                                  *)
setStateConnecting(t, others, box) ==
  /\ state' = [state EXCEPT ![t] = "CONNECTING"]
  /\ opponent' = [opponent EXCEPT ![t] = None]
  /\ participants' = [participants EXCEPT ![t] = others]
  /\ destroyTransportSocket(t)
  /\ inbox' = Posted(box, others, CustomData("CONNECT", self[t], <<0, 0>>))

setStateConnected(t, p, sendAccept) ==
  /\ state' = [state EXCEPT ![t] = "CONNECTED"]
  /\ opponent' = [opponent EXCEPT ![t] = p]
  /\ UNCHANGED participants
  /\ createTransportSocket(t)
  /\ inbox' = Posted(Received(t), IF sendAccept THEN {p} ELSE {},
                     CustomData("ACCEPT", self[t], <<0, 0>>))

(* The next notification is of this type, about p.                         *)
IsNext(t, type, p) ==
  /\ inbox[t] # << >> /\ ~crashed[t]
  /\ Head(inbox[t]).type = type /\ p \in Head(inbox[t]).about

Ignores(t) ==
  /\ inbox' = Received(t)
  /\ UNCHANGED <<peerVars, socketVars>>

handleVkWebSocketSignalServerOnReady(t) ==
  /\ IsNext(t, "connection", self[t])
  /\ setStateConnecting(t, Head(inbox[t]).about \ {self[t]}, Received(t))

OnRegisteredPeer(t, p) ==
  /\ IsNext(t, "registered-peer", p)
  /\ participants' = [participants EXCEPT ![t] = @ \cup {p}]
  /\ inbox' = Received(t)
  /\ UNCHANGED <<state, opponent, socketVars>>

OnHungup(t, p) ==
  /\ IsNext(t, "hungup", p)
  /\ \/ /\ state[t] = "CONNECTED" /\ opponent[t] = p
        /\ setStateConnecting(t, participants[t] \ {p}, Received(t))
     \/ /\ ~(state[t] = "CONNECTED" /\ opponent[t] = p)
        /\ participants' = [participants EXCEPT ![t] = @ \ {p}]
        /\ inbox' = Received(t)
        /\ UNCHANGED <<state, opponent, socketVars>>

OnConnectMessage(t, p) ==
  /\ IsNext(t, "CONNECT", p)
  /\ \/ state[t] = "CONNECTING" /\ setStateConnected(t, p, TRUE)
     \/ state[t] # "CONNECTING" /\ Ignores(t)

(* Mutant: an ACCEPT that crossed the own one makes another socket.        *)
OnAcceptMessage_Again(t, p) ==
  /\ IsNext(t, "ACCEPT", p)
  /\ \/ state[t] # "none" /\ setStateConnected(t, p, FALSE)
     \/ state[t] = "none" /\ Ignores(t)

OnAcceptMessage(t, p) ==
  /\ IsNext(t, "ACCEPT", p)
  /\ \/ state[t] = "CONNECTING" /\ setStateConnected(t, p, FALSE)
     \/ state[t] # "CONNECTING" /\ Ignores(t)

(* Whoever has sent it.  Without a socket, push throws, and the handler of *)
(* notifications catches it.                                               *)
OnBufferMessage(t, p) ==
  /\ IsNext(t, "BUFFER", p)
  /\ \/ /\ state[t] = "CONNECTED" /\ socket[t]
        /\ got' = [got EXCEPT ![t] = Append(@, <<p, Head(inbox[t]).data[1]>>)]
        /\ inbox' = Received(t)
        /\ UNCHANGED <<peerVars, socket, written>>
     \/ ~socket[t] /\ Ignores(t)

handleVkWebSocketSignalServerOnNotification(t) ==
  /\ \/ handleVkWebSocketSignalServerOnReady(t)
     \/ \E p \in Participant :
          \/ OnRegisteredPeer(t, p) \/ OnHungup(t, p)
          \/ OnConnectMessage(t, p) \/ OnAcceptMessage(t, p) \/ OnBufferMessage(t, p)
  /\ UNCHANGED <<fetching, ws, self, members, owner, working, crashed, lost, stops>>

Next ==
  \/ \E t \in Transports :
       \/ start(t) \/ startSignalServerConnection(t) \/ UrlFails(t)
       \/ handleVkWebSocketSignalServerOnStarted(t)
       \/ stop(t) \/ handleVkWebSocketSignalServerOnStopped(t)
       \/ CrashedWebSocketCloses(t)
       \/ handleVkWebSocketSignalServerOnNotification(t)
       \/ sendMessageToParticipant(t) \/ handleTransportSocketOnError(t)
  \/ ParticipantHungup

Spec == Init /\ [][Next]_vars

(* The address is fetched, websockets open and close, notifications are    *)
(* handled, and the server notices who has gone.  Nobody has to start,     *)
(* stop or write, and nothing has to fail.                                 *)
Fairness ==
  /\ \A t \in Transports :
       /\ WF_vars(startSignalServerConnection(t))
       /\ WF_vars(handleVkWebSocketSignalServerOnStarted(t))
       /\ WF_vars(ws[t] = "closing" /\ handleVkWebSocketSignalServerOnStopped(t))
       /\ WF_vars(CrashedWebSocketCloses(t))
       /\ WF_vars(handleVkWebSocketSignalServerOnNotification(t))
  /\ WF_vars(ParticipantHungup)

FairSpec == Spec /\ Fairness

-----------------------------------------------------------------------------
(* What a transport socket is given by its opponent are the buffers which  *)
(* that one has written, from the first on, in order and none left out, so *)
(* that frames can be read from them, whatever was written to sockets that *)
(* were replaced and under names that are gone.                            *)
StreamIntact ==
  \A t \in Transports : socket[t] =>
    LET Mine(i) == got[t][i][1] = opponent[t]
        Before(i) == {got[t][j][2] : j \in {k \in 1..(i - 1) : Mine(k)}}
    IN  \A i \in DOMAIN got[t] :
          Mine(i) => got[t][i][2] > 0 /\ Before(i) = 1..(got[t][i][2] - 1)

(* BUFFER is pushed to the socket whoever has sent it.  Between two        *)
(* transports, buffers of another than the opponent get there only when    *)
(* that one's websocket was lost and it has started again with the socket  *)
(* it had.  A third transport can write to one that is not its opponent.   *)
StrangersHaveLost ==
  \A t \in Transports : socket[t] =>
    \A i \in DOMAIN got[t] :
      got[t][i][1] = opponent[t] \/ owner[got[t][i][1]] \in lost

InCall(t) == ws[t] = "open" /\ ~crashed[t]

Paired == \A t, u \in Transports : t # u =>
            /\ state[t] = "CONNECTED" /\ opponent[t] = self[u]
            /\ socket[t] \/ t \in lost

(* The process of a transport ends only when something around it has       *)
(* failed; stop() and start() at any moment do not end it.                 *)
CrashOnlyAfterLoss ==
  \A t \in Transports : crashed[t] => t \in lost

(* Two transports that stay in the call find each other: no order of       *)
(* joining, of CONNECTs that cross, of ACCEPTs that come late and of       *)
(* CONNECTs ignored by whoever is still connected to a participant that    *)
(* has left keeps one waiting or connected to somebody who has gone.       *)
PairsUp == <>[](\A t \in Transports : InCall(t)) => <>[]Paired
===============================================================================
