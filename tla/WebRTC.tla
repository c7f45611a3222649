-------------------------------- MODULE WebRTC --------------------------------
(***************************************************************************)
(* transport/webrtc: the peer connections with a data channel of           *)
(* WebRTCPeer.js, and what WebRTCTransport.js does with the one it holds.  *)
(*                                                                         *)
(* An SDP stands for the peer it describes.  The descriptions of a peer    *)
(* are set at once, and then candidates are gathered, which the code       *)
(* awaits.  The library reports that a connection is gone some time after  *)
(* that, also to the side that has closed it.                              *)
(***************************************************************************)
EXTENDS Naturals, Sequences

VARIABLES
  peers,     \* all peers ever created
  peer,      \* this.peer of each transport; NoPeer if it is null
  sdpOffer,  \* the peer behind the offer that the TURN check has left
  turnServerConnectionSuccess,
  socket     \* is there a transportSocket?

webRTCVars == <<peers, peer, sdpOffer, turnServerConnectionSuccess, socket>>

NoPeer == 0

(* offers: it is the one that makes the offer, and the data channel.  sig   *)
(* is the state of the negotiation; remote the peer whose SDP was set;     *)
(* awaited what has been created and is waiting for its candidates.        *)
(* closed: destroyed by its owner, or its process has ended.  link: the    *)
(* network between it and the remote, as this end sees it; what is broken  *)
(* ("disconnected") may recover.                                           *)
Peer(owners) ==
  [of : owners, offers : BOOLEAN, sig : {"new", "offer", "stable"}, remote : Nat,
   awaited : {"none", "offer", "answer"}, channel : {"none", "open", "closed"}, closed : BOOLEAN,
   link : {"sound", "broken", "recovered"}]

WebRTCTypeOK(owners) ==
  /\ peers \in Seq(Peer(owners))
  /\ peer \in [owners -> 0..Len(peers)]
  /\ sdpOffer \in [owners -> 0..Len(peers)]
  /\ turnServerConnectionSuccess \in [owners -> BOOLEAN]
  /\ socket \in [owners -> BOOLEAN]
  /\ \A i \in DOMAIN peers : peers[i].remote \in 0..Len(peers)
  /\ \A t \in owners : peer[t] # NoPeer => peers[peer[t]].of = t
  /\ \A t \in owners : turnServerConnectionSuccess[t] <=> sdpOffer[t] # NoPeer

WebRTCInit(owners) ==
  /\ peers = << >>
  /\ peer = [t \in owners |-> NoPeer]
  /\ sdpOffer = [t \in owners |-> NoPeer]
  /\ turnServerConnectionSuccess = [t \in owners |-> FALSE]
  /\ socket = [t \in owners |-> FALSE]

NewPeer(t) ==
  [of |-> t, offers |-> FALSE, sig |-> "new", remote |-> NoPeer, awaited |-> "none", channel |-> "none",
   closed |-> FALSE, link |-> "sound"]

createTransportSocket(t) == socket' = [socket EXCEPT ![t] = TRUE]
destroyTransportSocket(t) == socket' = [socket EXCEPT ![t] = FALSE]

-----------------------------------------------------------------------------
(* What the connection does.                                               *)

(* Peer i and its remote have each other's SDP.                            *)
Matched(i) ==
  LET j == peers[i].remote
  IN  /\ j # NoPeer /\ peers[j].remote = i
      /\ \A k \in {i, j} : peers[k].sig = "stable" /\ ~peers[k].closed

(* While only one end sees a failure, what the other sends still arrives.  *)
Reaches(i) == ~(peers[i].link = "broken" /\ peers[peers[i].remote].link = "broken")

(* A peer that the transport has forgotten is still listened to.           *)
handlePeerOnDataChannelOpened(i) ==
  /\ Matched(i) /\ Reaches(i) /\ peers[i].channel = "none"
  /\ peers' = [peers EXCEPT ![i].channel = "open"]
  /\ createTransportSocket(peers[i].of)
  /\ UNCHANGED <<peer, sdpOffer, turnServerConnectionSuccess>>

(* Something that the other end sends, or its closing, arrives at peer i.  *)
Hears(i) == peers[i].channel = "open" /\ ~peers[i].closed /\ Reaches(i)

handlePeerOnDataChannelClosed(i) ==
  /\ Hears(i) /\ peers[peers[i].remote].closed
  /\ peers' = [peers EXCEPT ![i].channel = "closed"]
  /\ destroyTransportSocket(peers[i].of)
  /\ UNCHANGED <<peer, sdpOffer, turnServerConnectionSuccess>>

(* 'disconnected' at both ends.                                            *)
NetworkFails(i) ==
  /\ Matched(i)
  /\ peers' = [peers EXCEPT ![i].link = "broken", ![peers[i].remote].link = "broken"]
  /\ UNCHANGED <<peer, sdpOffer, turnServerConnectionSuccess, socket>>

(* Each end sees by itself that the other answers again, maybe before it   *)
(* has noticed that it did not.                                            *)
NetworkRecovers(i) ==
  /\ Matched(i) /\ peers[i].link = "broken"
  /\ peers' = [peers EXCEPT ![i].link = "recovered"]
  /\ UNCHANGED <<peer, sdpOffer, turnServerConnectionSuccess, socket>>
-----------------------------------------------------------------------------
(* WebRTCTransport.                                                        *)

(* destroyPeer: the peers afterwards.                                      *)
WithoutPeer(t) ==
  IF peer[t] = NoPeer THEN peers ELSE [peers EXCEPT ![peer[t]].closed = TRUE]

stopWebRTC(t) ==
  /\ destroyTransportSocket(t)
  /\ peers' = WithoutPeer(t)
  /\ UNCHANGED <<peer, sdpOffer, turnServerConnectionSuccess>>

(* Up to the await in checkTurnServerConnection.                           *)
startWebRTCConnection(t) ==
  /\ peers' = Append(peers, [NewPeer(t) EXCEPT !.offers = TRUE, !.sig = "offer",
                                               !.awaited = "offer"])
  /\ peer' = [peer EXCEPT ![t] = Len(peers) + 1]
  /\ UNCHANGED <<sdpOffer, turnServerConnectionSuccess, socket>>

(* The awaits, and those whose peer has been destroyed, which never end or *)
(* fail.                                                                   *)
Awaited(t, what) == {i \in DOMAIN peers : peers[i].of = t /\ peers[i].awaited = what}
Destroyed(t, what) == {i \in Awaited(t, what) : peers[i].closed}

(* ... and after it: the offer is remembered.                              *)
checkTurnServerConnection(t, i) ==
  /\ i \in Awaited(t, "offer") \ Destroyed(t, "offer")
  /\ peers' = [peers EXCEPT ![i].awaited = "none"]
  /\ sdpOffer' = [sdpOffer EXCEPT ![t] = i]
  /\ turnServerConnectionSuccess' = [turnServerConnectionSuccess EXCEPT ![t] = TRUE]
  /\ UNCHANGED peer

(* Mutant: the peer that was checked is used for the answer.               *)
startAnswerConnection_KeepsPeer(t) == UNCHANGED webRTCVars

(* startOfferConnection changes nothing: it emits the remembered offer.    *)
startAnswerConnection(t) ==
  /\ peers' = Append(WithoutPeer(t), NewPeer(t))
  /\ peer' = [peer EXCEPT ![t] = Len(peers) + 1]
  /\ UNCHANGED <<sdpOffer, turnServerConnectionSuccess, socket>>

InSig(t, sig) == peer[t] # NoPeer /\ peers[peer[t]].sig = sig /\ ~peers[peer[t]].closed

(* A peer may answer again, once the candidates of its last answer are     *)
(* gathered; one that has made an offer cannot.                            *)
CanAnswer(t) ==
  /\ InSig(t, "new") \/ InSig(t, "stable")
  /\ peers[peer[t]].awaited = "none"

(* The offer of peer i is set; the answer is awaited.                      *)
createAnswer(t, i) ==
  /\ CanAnswer(t)
  /\ peers' = [peers EXCEPT ![peer[t]].sig = "stable", ![peer[t]].remote = i,
                            ![peer[t]].awaited = "answer"]
  /\ UNCHANGED <<peer, sdpOffer, turnServerConnectionSuccess, socket>>

AnswerCreated(t, i) ==
  /\ i \in Awaited(t, "answer") \ Destroyed(t, "answer")
  /\ peers' = [peers EXCEPT ![i].awaited = "none"]
  /\ UNCHANGED <<peer, sdpOffer, turnServerConnectionSuccess, socket>>

(* The answer of peer j to the offer of peer i.  Nobody is reached with an *)
(* answer to the offer of another peer.                                    *)
setAnswer(t, i, j) ==
  /\ InSig(t, "offer")
  /\ peers' = [peers EXCEPT ![peer[t]].sig = "stable",
                            ![peer[t]].remote = IF i = peer[t] THEN j ELSE NoPeer]
  /\ UNCHANGED <<peer, sdpOffer, turnServerConnectionSuccess, socket>>

(* The write of the transport socket can be carried out: this.peer has a   *)
(* channel, and it is open.                                                *)
CanSend(t) ==
  peer[t] # NoPeer /\ peers[peer[t]].channel = "open" /\ ~peers[peer[t]].closed

(* Mutant: the transport socket is kept.                                   *)
forgetPeer_KeepsSocket(t) ==
  /\ peer' = [peer EXCEPT ![t] = NoPeer]
  /\ UNCHANGED <<peers, sdpOffer, turnServerConnectionSuccess, socket>>

(* WebRTCTransport.handlePeerOnDisconnected: the peer is forgotten, and    *)
(* not destroyed.                                                          *)
forgetPeer(t) ==
  /\ peer' = [peer EXCEPT ![t] = NoPeer]
  /\ destroyTransportSocket(t)
  /\ UNCHANGED <<peers, sdpOffer, turnServerConnectionSuccess>>
===============================================================================
