------------------------------- MODULE VkWebRTC -------------------------------
(***************************************************************************)
(* transport/vk-calls/VkWebRTCTransport.js: the signal server of a VK call *)
(* serves to find the opponent and to exchange SDPs, and a data channel    *)
(* over the call's TURN servers carries the data.  CONNECT and ACCEPT are  *)
(* those of VkCall.  Whoever answers CONNECT makes the offer; whoever is   *)
(* answered with ACCEPT takes a new peer for the answer.  When the peer    *)
(* disconnects, the transport leaves the call and joins it anew.           *)
(*                                                                         *)
(* A rejection or an exception that nobody handles ends the process, as    *)
(* does 'error' of the transport, to which no script listens.  As in the   *)
(* scripts, nobody starts a transport again.                               *)
(***************************************************************************)
EXTENDS VkSignal, WebRTC, FiniteSets

CONSTANT MaxFaults  \* failures, once for each transport, and calls of stop()

ASSUME WebRTCAssumption == MaxFaults \in Nat

VARIABLES
  working,       \* workingState
  state,         \* of the negotiation; "none" while it is undefined
  opponent,      \* opponentParticipantId
  participants,  \* the others in the call, as far as the transport knows
  role,          \* isOfferPeer, isAnswerPeer
  crashed,       \* the process has ended
  lost,          \* transports around which something has failed
  stopped        \* transports whose stop() was called by their user

peerVars == <<state, opponent, participants, role>>
faultVars == <<crashed, lost, stopped>>
vars == <<signalVars, webRTCVars, working, peerVars, faultVars>>

TypeOK ==
  /\ SignalTypeOK
  /\ WebRTCTypeOK(Transports)
  /\ working \in [Transports -> {"idle", "starting", "working", "stopping"}]
  /\ state \in [Transports -> {"none", "CONNECTING", "CONNECTED"}]
  /\ opponent \in [Transports -> Participant \cup {None}]
  /\ participants \in [Transports -> SUBSET Participant]
  /\ role \in [Transports -> {"none", "offer", "answer"}]
  /\ crashed \in [Transports -> BOOLEAN]
  /\ lost \subseteq Transports /\ stopped \subseteq Transports
  /\ Cardinality(lost) + Cardinality(stopped) <= MaxFaults
  /\ \A t \in Transports : opponent[t] # None <=> state[t] = "CONNECTED"
  /\ \A t \in Transports : state[t] # "none" => turnServerConnectionSuccess[t]

Init ==
  /\ SignalInit
  /\ WebRTCInit(Transports)
  /\ working = [t \in Transports |-> "idle"]
  /\ state = [t \in Transports |-> "none"]
  /\ opponent = [t \in Transports |-> None]
  /\ participants = [t \in Transports |-> {}]
  /\ role = [t \in Transports |-> "none"]
  /\ crashed = [t \in Transports |-> FALSE]
  /\ lost = {} /\ stopped = {}

-----------------------------------------------------------------------------
(* Starting and stopping.                                                  *)

FaultsLeft == Cardinality(lost) + Cardinality(stopped) < MaxFaults
CanFail(t) == ~crashed[t] /\ t \notin lost /\ FaultsLeft

Crashes(t) == crashed' = [crashed EXCEPT ![t] = TRUE]

Becomes(t, next) == working' = [working EXCEPT ![t] = next]

start(t) ==
  /\ working[t] = "idle" /\ \A i \in DOMAIN peers : peers[i].of # t
  /\ ~crashed[t]
  /\ Becomes(t, "starting")
  /\ FetchUrl(t)
  /\ UNCHANGED <<webRTCVars, peerVars, faultVars>>

startSignalServerConnection(t) ==
  /\ SignalStart(t) /\ ~crashed[t]
  /\ UNCHANGED <<webRTCVars, working, peerVars, faultVars>>

UrlFails(t) ==
  /\ fetching[t] /\ CanFail(t)
  /\ fetching' = [fetching EXCEPT ![t] = FALSE]
  /\ lost' = lost \cup {t}
  /\ Crashes(t)
  /\ UNCHANGED <<ws, self, inbox, members, owner, webRTCVars, working, peerVars, stopped>>

handleVkWebSocketSignalServerOnStarted(t) ==
  /\ WebSocketOpens(t) /\ ~crashed[t]
  /\ UNCHANGED <<webRTCVars, working, peerVars, faultVars>>

(* stop() by the user.  A websocket that is not open yet reports an error  *)
(* to which nobody listens any more.                                       *)
stop(t) ==
  /\ working[t] = "working" /\ ~crashed[t]
  /\ t \notin stopped /\ FaultsLeft
  /\ stopped' = stopped \cup {t}
  /\ Becomes(t, "stopping")
  /\ stopWebRTC(t)
  /\ SignalLeaves(t, IF ws[t] = "none" THEN "none" ELSE "closing")
  /\ IF ws[t] = "opening" THEN Crashes(t) ELSE UNCHANGED crashed
  /\ UNCHANGED <<fetching, peerVars, lost>>

(* 'error' of the websocket calls stop(), which throws unless the          *)
(* transport is working.                                                   *)
handleVkWebSocketSignalServerOnError(t) ==
  /\ ws[t] \in {"opening", "open"} /\ CanFail(t)
  /\ lost' = lost \cup {t}
  /\ \/ /\ working[t] = "working"
        /\ Becomes(t, "stopping")
        /\ stopWebRTC(t)
        /\ SignalLeaves(t, "closing")
        /\ UNCHANGED crashed
     \/ /\ working[t] # "working"
        /\ Crashes(t)
        /\ UNCHANGED <<webRTCVars, working, ws, self, inbox, members, owner>>
  /\ UNCHANGED <<fetching, peerVars, stopped>>

(* 'close' of the websocket, which stop() has closed or which is lost.     *)
handleVkWebSocketSignalServerOnStopped(t) ==
  /\ ~crashed[t]
  /\ \/ ws[t] = "closing" /\ UNCHANGED lost
     \/ ws[t] = "open" /\ CanFail(t) /\ lost' = lost \cup {t}
  /\ SignalLeaves(t, "none")
  /\ \/ working[t] = "working" /\ Becomes(t, "stopping") /\ stopWebRTC(t)
     \/ working[t] # "working" /\ UNCHANGED <<working, webRTCVars>>
  /\ UNCHANGED <<fetching, peerVars, crashed, stopped>>

(* The end of a process closes its websocket, its peers and its socket.    *)
CrashedProcessEnds(t) ==
  /\ crashed[t]
  /\ ws[t] # "none" \/ \E i \in DOMAIN peers : peers[i].of = t /\ ~peers[i].closed
  /\ SignalLeaves(t, "none")
  /\ peers' = [i \in DOMAIN peers |->
                 IF peers[i].of = t THEN [peers[i] EXCEPT !.closed = TRUE] ELSE peers[i]]
  /\ destroyTransportSocket(t)
  /\ UNCHANGED <<fetching, peer, sdpOffer, turnServerConnectionSuccess,
                 working, peerVars, faultVars>>

ParticipantHungup ==
  /\ \E p \in members : Hungup(p)
  /\ UNCHANGED <<webRTCVars, working, peerVars, faultVars>>
-----------------------------------------------------------------------------
(* The negotiation.                                                        *)

IsNext(t, type, p) ==
  /\ inbox[t] # << >> /\ ~crashed[t]
  /\ Head(inbox[t]).type = type /\ p \in Head(inbox[t]).about

(* Mutant: the opponent is not forgotten.                                  *)
setStateConnecting_KeepsOpponent(t, others, box) ==
  /\ state' = [state EXCEPT ![t] = "CONNECTING"]
  /\ participants' = [participants EXCEPT ![t] = others]
  /\ destroyTransportSocket(t)
  /\ inbox' = Posted(box, others, CustomData("CONNECT", self[t], <<0, 0>>))
  /\ UNCHANGED opponent

(* Says CONNECT to all others; box are the queues without the notification *)
(* that is being handled.                                                  *)
setStateConnecting(t, others, box) ==
  /\ state' = [state EXCEPT ![t] = "CONNECTING"]
  /\ opponent' = [opponent EXCEPT ![t] = None]
  /\ participants' = [participants EXCEPT ![t] = others]
  /\ destroyTransportSocket(t)
  /\ inbox' = Posted(box, others, CustomData("CONNECT", self[t], <<0, 0>>))

(* CONNECT is answered with ACCEPT and the offer that was remembered,      *)
(* ACCEPT by taking a new peer.                                            *)
setStateConnected(t, p, sendAccept) ==
  /\ state' = [state EXCEPT ![t] = "CONNECTED"]
  /\ opponent' = [opponent EXCEPT ![t] = p]
  /\ role' = [role EXCEPT ![t] = IF sendAccept THEN "offer" ELSE "answer"]
  /\ IF sendAccept
       THEN /\ inbox' = Posted(Posted(Received(t),
                                 {p}, CustomData("ACCEPT", self[t], <<0, 0>>)),
                               {p}, CustomData("SDP_OFFER", self[t], <<sdpOffer[t], 0>>))
            /\ UNCHANGED webRTCVars
       ELSE inbox' = Received(t) /\ startAnswerConnection(t)
  /\ UNCHANGED <<participants, crashed>>

(* Up to the await; the participants are those of the notification.        *)
handleVkWebSocketSignalServerOnReady(t) ==
  /\ IsNext(t, "connection", self[t])
  /\ participants' = [participants EXCEPT ![t] = Head(inbox[t]).about \ {self[t]}]
  /\ startWebRTCConnection(t)
  /\ Becomes(t, "working")
  /\ inbox' = Received(t)
  /\ UNCHANGED <<state, opponent, role, crashed>>

(* After it.                                                               *)
TurnIsThere(t) ==
  /\ ~crashed[t]
  /\ \E i \in DOMAIN peers : checkTurnServerConnection(t, i)
  /\ setStateConnecting(t, participants[t], inbox)
  /\ UNCHANGED <<fetching, ws, self, members, owner, working, role, faultVars>>

(* The offer or the answer cannot be made: there is no TURN server.        *)
GatheringFails(t) ==
  /\ CanFail(t) /\ lost' = lost \cup {t}
  /\ Awaited(t, "offer") \cup Awaited(t, "answer") # {}
  /\ Crashes(t)
  /\ UNCHANGED <<signalVars, webRTCVars, working, peerVars, stopped>>

(* The peer was destroyed while the code was waiting for it.  The timeout  *)
(* of waitForIceGathering may also find nothing to reject.                 *)
AwaitRejects(t) ==
  /\ ~crashed[t]
  /\ Destroyed(t, "offer") \cup Destroyed(t, "answer") # {}
  /\ Crashes(t)
  /\ UNCHANGED <<signalVars, webRTCVars, working, peerVars, lost, stopped>>

handleOnSdpAnswer(t) ==
  /\ ~crashed[t]
  /\ \E i \in DOMAIN peers :
       /\ AnswerCreated(t, i)
       /\ inbox' = Posted(inbox, {opponent[t]},
                          CustomData("SDP_ANSWER", self[t], <<peers[i].remote, i>>))
  /\ UNCHANGED <<fetching, ws, self, members, owner, working, peerVars, faultVars>>

Ignores(t) ==
  /\ inbox' = Received(t)
  /\ UNCHANGED <<webRTCVars, peerVars, crashed>>

OnRegisteredPeer(t, p) ==
  /\ IsNext(t, "registered-peer", p)
  /\ participants' = [participants EXCEPT ![t] = @ \cup {p}]
  /\ inbox' = Received(t)
  /\ UNCHANGED <<webRTCVars, state, opponent, role, crashed>>

(* Mutant: the opponent's leaving is noted and has no consequence.         *)
OnHungup_Ignored(t, p) ==
  /\ IsNext(t, "hungup", p)
  /\ participants' = [participants EXCEPT ![t] = @ \ {p}]
  /\ inbox' = Received(t)
  /\ UNCHANGED <<webRTCVars, state, opponent, role, crashed>>

OnHungup(t, p) ==
  /\ IsNext(t, "hungup", p)
  /\ \/ /\ state[t] = "CONNECTED" /\ opponent[t] = p
        /\ setStateConnecting(t, participants[t] \ {p}, Received(t))
        /\ UNCHANGED <<peers, peer, sdpOffer, turnServerConnectionSuccess>>
     \/ /\ ~(state[t] = "CONNECTED" /\ opponent[t] = p)
        /\ participants' = [participants EXCEPT ![t] = @ \ {p}]
        /\ inbox' = Received(t)
        /\ UNCHANGED <<webRTCVars, state, opponent>>
  /\ UNCHANGED <<role, crashed>>

OnConnectMessage(t, p) ==
  /\ IsNext(t, "CONNECT", p)
  /\ \/ state[t] = "CONNECTING" /\ setStateConnected(t, p, TRUE)
     \/ state[t] # "CONNECTING" /\ Ignores(t)

OnAcceptMessage(t, p) ==
  /\ IsNext(t, "ACCEPT", p)
  /\ \/ state[t] = "CONNECTING" /\ setStateConnected(t, p, FALSE)
     \/ state[t] # "CONNECTING" /\ Ignores(t)

HasRole(t, r, p) == state[t] = "CONNECTED" /\ role[t] = r /\ opponent[t] = p

(* A peer that is in the wrong state rejects the offer or the answer.      *)
OnSdpOffer(t, p) ==
  /\ IsNext(t, "SDP_OFFER", p)
  /\ \/ ~HasRole(t, "answer", p) /\ Ignores(t)
     \/ /\ HasRole(t, "answer", p)
        /\ \/ createAnswer(t, Head(inbox[t]).data[1]) /\ UNCHANGED crashed
           \/ ~CanAnswer(t) /\ Crashes(t) /\ UNCHANGED webRTCVars
        /\ inbox' = Received(t)
        /\ UNCHANGED peerVars

OnSdpAnswer(t, p) ==
  /\ IsNext(t, "SDP_ANSWER", p)
  /\ \/ ~HasRole(t, "offer", p) /\ Ignores(t)
     \/ /\ HasRole(t, "offer", p)
        /\ \/ /\ setAnswer(t, Head(inbox[t]).data[1], Head(inbox[t]).data[2])
              /\ UNCHANGED crashed
           \/ ~InSig(t, "offer") /\ Crashes(t) /\ UNCHANGED webRTCVars
        /\ inbox' = Received(t)
        /\ UNCHANGED peerVars

handleVkWebSocketSignalServerOnNotification(t) ==
  /\ \/ handleVkWebSocketSignalServerOnReady(t)
     \/ /\ \E p \in Participant :
             \/ OnRegisteredPeer(t, p) \/ OnHungup(t, p)
             \/ OnConnectMessage(t, p) \/ OnAcceptMessage(t, p)
             \/ OnSdpOffer(t, p) \/ OnSdpAnswer(t, p)
        /\ UNCHANGED working
  /\ UNCHANGED <<fetching, ws, self, members, owner, lost, stopped>>
-----------------------------------------------------------------------------
(* The data channel.                                                       *)

ChannelOpens(t) ==
  /\ ~crashed[t]
  /\ \E i \in DOMAIN peers : peers[i].of = t /\ handlePeerOnDataChannelOpened(i)
  /\ UNCHANGED <<signalVars, working, peerVars, faultVars>>

ChannelCloses(t) ==
  /\ ~crashed[t]
  /\ \E i \in DOMAIN peers : peers[i].of = t /\ handlePeerOnDataChannelClosed(i)
  /\ UNCHANGED <<signalVars, working, peerVars, faultVars>>

ConnectionFails(t) ==
  /\ CanFail(t) /\ lost' = lost \cup {t}
  /\ \E i \in DOMAIN peers : peers[i].of = t /\ NetworkFails(i)
  /\ UNCHANGED <<signalVars, working, peerVars, crashed, stopped>>

(* A 'disconnected' that was passing.                                      *)
ConnectionRecovers(t) ==
  /\ ~crashed[t]
  /\ \E i \in DOMAIN peers : peers[i].of = t /\ NetworkRecovers(i)
  /\ UNCHANGED <<signalVars, working, peerVars, faultVars>>

(* sendDataChannelMessage is called on null, or send on what is not open.  *)
WriteWithoutChannel(t) ==
  /\ ~crashed[t] /\ socket[t] /\ ~CanSend(t)
  /\ Crashes(t)
  /\ UNCHANGED <<signalVars, webRTCVars, working, peerVars, lost, stopped>>

(* Data arrives over a channel when there is no transport socket.          *)
DataWithoutSocket(t) ==
  /\ ~crashed[t] /\ ~socket[t]
  /\ \E i \in DOMAIN peers :
       LET j == peers[i].remote
           u == peers[j].of
       IN  /\ peers[i].of = t /\ Hears(i)
           /\ peer[u] = j /\ CanSend(u) /\ socket[u] /\ ~crashed[u]
  /\ Crashes(t)
  /\ UNCHANGED <<signalVars, webRTCVars, working, peerVars, lost, stopped>>

(* The answer of peer i is on its way to the transport of peer j.          *)
AnswerIsDue(i, j) ==
  \E k \in DOMAIN inbox[peers[j].of] :
    LET n == inbox[peers[j].of][k] IN n.type = "SDP_ANSWER" /\ n.data = <<j, i>>

(* The library gives the peer i up.  It tries to reach the other end for   *)
(* longer than it gathers candidates.                                      *)
Unreachable(i) ==
  \/ peers[i].closed \/ peers[i].link = "broken"
  \/ LET j == peers[i].remote
     IN  /\ peers[i].sig = "stable" /\ peers[i].awaited = "none"
         /\ j # NoPeer => peers[j].closed \/ ~(peers[j].remote = i \/ AnswerIsDue(i, j))

(* The peer disconnects, also after stop().  Without a signal server to    *)
(* stop, stopSignalServerConnection throws.                                *)
handlePeerOnDisconnected(t) ==
  /\ ~crashed[t] /\ peer[t] # NoPeer /\ Unreachable(peer[t])
  /\ forgetPeer(t)
  /\ IF working[t] = "stopping" THEN Becomes(t, "idle") ELSE UNCHANGED working
  /\ \/ /\ turnServerConnectionSuccess[t] /\ ws[t] # "none"
        /\ SignalLeaves(t, "none")
        /\ fetching' = [fetching EXCEPT ![t] = TRUE]
        /\ UNCHANGED crashed
     \/ /\ turnServerConnectionSuccess[t] /\ ws[t] = "none"
        /\ Crashes(t)
        /\ UNCHANGED signalVars
     \/ ~turnServerConnectionSuccess[t] /\ UNCHANGED <<signalVars, crashed>>
  /\ UNCHANGED <<peerVars, lost, stopped>>

Next ==
  \/ \E t \in Transports :
       \/ start(t) \/ startSignalServerConnection(t) \/ UrlFails(t)
       \/ handleVkWebSocketSignalServerOnStarted(t)
       \/ handleVkWebSocketSignalServerOnError(t)
       \/ stop(t) \/ handleVkWebSocketSignalServerOnStopped(t)
       \/ CrashedProcessEnds(t)
       \/ handleVkWebSocketSignalServerOnNotification(t)
       \/ TurnIsThere(t) \/ GatheringFails(t) \/ AwaitRejects(t)
       \/ handleOnSdpAnswer(t)
       \/ ChannelOpens(t) \/ ChannelCloses(t)
       \/ ConnectionFails(t) \/ ConnectionRecovers(t)
       \/ WriteWithoutChannel(t) \/ DataWithoutSocket(t)
       \/ handlePeerOnDisconnected(t)
  \/ ParticipantHungup

Spec == Init /\ [][Next]_vars

(* The address is fetched, websockets open and close, notifications are    *)
(* handled, candidates are gathered, channels open and close, and who has  *)
(* gone is noticed.  Nobody has to start or stop, nothing has to fail or   *)
(* to recover, and an await of a peer that was destroyed may never end.    *)
Progress(t) ==
  \/ startSignalServerConnection(t) \/ handleVkWebSocketSignalServerOnStarted(t)
  \/ ws[t] = "closing" /\ handleVkWebSocketSignalServerOnStopped(t)
  \/ CrashedProcessEnds(t)
  \/ handleVkWebSocketSignalServerOnNotification(t)
  \/ TurnIsThere(t) \/ handleOnSdpAnswer(t)
  \/ ChannelOpens(t) \/ ChannelCloses(t) \/ handlePeerOnDisconnected(t)

(* Something of this happens as long as anything of it can.                *)
Fairness == WF_vars(ParticipantHungup \/ \E t \in Transports : Progress(t))

-----------------------------------------------------------------------------
InCall(t) == ws[t] = "open" /\ ~crashed[t]
NothingFailed == lost = {} /\ stopped = {}

(* The channel of a peer of t, held or not, whose connection has failed.   *)
Escaped(t) ==
  \E i \in DOMAIN peers :
    peers[i].of = t /\ peers[i].channel = "open" /\ peers[i].link # "sound"

(* The writes of a transport socket meet this.peer and its open channel,   *)
(* whatever becomes of the peers that were replaced or forgotten; except   *)
(* when the socket was made by a peer whose connection had failed, and     *)
(* which opened its channel all the same, for the forgotten peer is not    *)
(* destroyed.  Then a write may throw.                                     *)
SocketHasPeer ==
  \A t \in Transports : socket[t] => CanSend(t) \/ Escaped(t)

(* "Failed to set remote offer sdp: Called in wrong state:                 *)
(* kHaveLocalOffer" is prevented, as a comment in startAnswerConnection    *)
(* claims: every offer that comes from the opponent finds a peer that has  *)
(* made no offer itself and is not closed, also after the opponent has     *)
(* changed, and while the TURN check of a new membership in the call is    *)
(* pending and the state is still that of the last one.                    *)
OffersNeverMeet ==
  \A t \in Transports, p \in Participant :
    IsNext(t, "SDP_OFFER", p) /\ HasRole(t, "answer", p)
      => InSig(t, "new") \/ InSig(t, "stable")

Paired == \A t, u \in Transports : t # u =>
            state[t] = "CONNECTED" /\ opponent[t] = self[u]
Connected == Paired /\ \A t \in Transports : socket[t]
Crossed == Paired /\ \A t \in Transports : role[t] = "offer"

(* The transport t waits, and all others are still to join.                *)
WaitsAlone(t) ==
  /\ InCall(t) /\ state[t] = "CONNECTING" /\ members = {self[t]}
  /\ \A u \in Transports \ {t} : fetching[u] /\ ~crashed[u]

(* Whatever has failed, who remains alone in the call is waiting for       *)
(* somebody to connect to, and not for a participant that has gone.        *)
AloneWaits ==
  \A t \in Transports :
    <>[](InCall(t) /\ members = {self[t]}) => <>[](state[t] = "CONNECTING")

(* The script development/vk-calls/VkWebRTC.development.js stops the       *)
(* transports five seconds apart and waits until both are idle, so a       *)
(* transport that has become idle must remain so.                          *)
IdleLasts ==
  [][\A t \in stopped : working[t] = "idle" => working'[t] = "idle"]_vars
===============================================================================
