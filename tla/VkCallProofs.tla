---------------------------- MODULE VkCallProofs ----------------------------
(***************************************************************************)
(* TypeOK, CrashOnlyAfterLoss and StreamIntact of VkCall, for any number   *)
(* of transports, joins, losses, stops and writes, and StrangersHaveLost   *)
(* for at most two transports.                                             *)
(*                                                                         *)
(* A process ends when its multiplexer writes to a transport socket while  *)
(* there is no websocket.  A socket is made only when a notification is    *)
(* handled, which comes over an open websocket, and stop() destroys it     *)
(* before it closes the websocket (IInv).                                  *)
(*                                                                         *)
(* Behind a CONNECT or an ACCEPT in a queue are all buffers that its       *)
(* sender has written for the queue's transport under the name it has, so  *)
(* whoever takes the sender for its opponent then gets all of them         *)
(* (FlowInv).                                                              *)
(*                                                                         *)
(* Of two transports, whoever is connected to the other's name has been    *)
(* called or answered by it, and the other is connected to it or still has *)
(* its ACCEPT or CONNECT to read, before any buffer (TrustInv).            *)
(***************************************************************************)
EXTENDS VkCall, VkSignalProofs, FiniteSetTheorems

(* The address is fetched, and a transport is idle, only without a         *)
(* websocket.                                                              *)
FetchInv ==
  \A t \in Transports :
    /\ fetching[t] => ws[t] = "none" /\ working[t] = "starting"
    /\ working[t] = "idle" => ws[t] = "none"

(* Without a failure, a transport socket has a websocket to write to.      *)
SocketInv == \A t \in Transports : socket[t] /\ t \notin lost => ws[t] = "open"

IInv ==
  /\ TypeOK /\ IsFiniteSet(lost)
  /\ FetchInv /\ InboxInv /\ SocketInv /\ CrashOnlyAfterLoss

USE DEF None

-----------------------------------------------------------------------------
(* The transports.                                                         *)

LEMMA LostMayGrow ==
  ASSUME IInv, NEW t \in Transports, CanFail(t), lost' = lost \cup {t}
  PROVE  /\ IsFiniteSet(lost)' /\ lost' \subseteq Transports
         /\ Cardinality(lost)' <= MaxLosses
<1>1. /\ IsFiniteSet(lost) /\ t \notin lost /\ Cardinality(lost) < MaxLosses
      /\ lost \subseteq Transports
  BY DEF IInv, TypeOK, CanFail
<1>2. /\ IsFiniteSet(lost \cup {t})
      /\ Cardinality(lost \cup {t}) = Cardinality(lost) + 1
      /\ Cardinality(lost) \in Nat
  BY <1>1, FS_AddElement, FS_CardinalityType
<1>3. Cardinality(lost \cup {t}) <= MaxLosses
  BY <1>1, <1>2, CallAssumption
<1> QED  BY <1>1, <1>2, <1>3

LEMMA InitInv == Init => IInv
<1> SUFFICES ASSUME Init PROVE IInv
  OBVIOUS
<1>1. /\ << >> \in Seq(Notification) /\ << >> \in Seq(Transports)
      /\ << >> \in Seq(Participant \X Nat) /\ Len(<< >>) = 0
  BY EmptySeq
<1>2. /\ MaxJoins \in Nat /\ MaxLosses \in Nat /\ MaxStops \in Nat /\ MaxWrites \in Nat
  BY SignalAssumption, CallAssumption
<1>3. IsFiniteSet(lost) /\ Cardinality(lost) = 0
  BY FS_EmptySet DEF Init
<1>4. SignalTypeOK /\ FetchInv /\ InboxInv
  BY <1>1, <1>2 DEF Init, SignalInit, SignalTypeOK, FetchInv, InboxInv
<1>5. Cardinality(lost) <= MaxLosses /\ 0 \in 0..MaxStops /\ 0 \in 0..MaxWrites
  BY <1>2, <1>3
<1>6. TypeOK
  BY <1>1, <1>3, <1>4, <1>5 DEF Init, TypeOK
<1> QED
  BY <1>3, <1>4, <1>6 DEF Init, IInv, SocketInv, CrashOnlyAfterLoss

LEMMA StartStep ==
  ASSUME IInv, NEW t \in Transports, start(t) \/ startSignalServerConnection(t)
  PROVE  IInv'
<1>1. SignalTypeOK /\ FetchInv /\ InboxInv /\ SocketInv
  BY DEF IInv, TypeOK
<1>2. CASE start(t)
  <2>1. SignalTypeOK' /\ InboxInv'
    BY <1>1, <1>2 DEF start, FetchUrl, SignalTypeOK, InboxInv
  <2>2. /\ working' = [working EXCEPT ![t] = "starting"] /\ ws' = ws
        /\ fetching' = [fetching EXCEPT ![t] = TRUE] /\ working[t] = "idle"
        /\ UNCHANGED <<peerVars, socketVars, crashed, lost, stops>>
    BY <1>2 DEF start, FetchUrl
  <2>3. TypeOK'
    BY <2>1, <2>2 DEF IInv, TypeOK, peerVars, socketVars
  <2>4. FetchInv'
    BY <1>1, <2>2 DEF IInv, TypeOK, SignalTypeOK, FetchInv
  <2>5. SocketInv' /\ CrashOnlyAfterLoss'
    BY <1>1, <2>2 DEF IInv, SocketInv, CrashOnlyAfterLoss, socketVars
  <2>6. IsFiniteSet(lost)'
    BY <2>2 DEF IInv
  <2> QED  BY <2>1, <2>3, <2>4, <2>5, <2>6 DEF IInv
<1>3. CASE startSignalServerConnection(t)
  <2>1. SignalTypeOK' /\ InboxInv'
    BY <1>1, <1>3 DEF startSignalServerConnection, SignalStart, SignalTypeOK, InboxInv, FetchInv
  <2>2. /\ fetching[t] /\ fetching' = [fetching EXCEPT ![t] = FALSE]
        /\ ws' = [ws EXCEPT ![t] = "opening"]
        /\ UNCHANGED <<working, peerVars, socketVars, crashed, lost, stops>>
    BY <1>3 DEF startSignalServerConnection, SignalStart
  <2>3. TypeOK'
    BY <2>1, <2>2 DEF IInv, TypeOK, peerVars, socketVars
  <2>4. FetchInv'
    BY <1>1, <2>2 DEF IInv, TypeOK, SignalTypeOK, FetchInv
  <2>5. SocketInv' /\ CrashOnlyAfterLoss'
    BY <1>1, <2>2 DEF IInv, SignalTypeOK, FetchInv, SocketInv, CrashOnlyAfterLoss, socketVars
  <2>6. IsFiniteSet(lost)'
    BY <2>2 DEF IInv
  <2> QED  BY <2>1, <2>3, <2>4, <2>5, <2>6 DEF IInv
<1> QED  BY <1>2, <1>3

LEMMA UrlFailsStep ==
  ASSUME IInv, NEW t \in Transports, UrlFails(t)
  PROVE  IInv'
<1>1. SignalTypeOK /\ FetchInv /\ InboxInv /\ SocketInv
  BY DEF IInv, TypeOK
<1>2. /\ IsFiniteSet(lost)' /\ lost' \subseteq Transports
      /\ Cardinality(lost)' <= MaxLosses
  BY LostMayGrow DEF UrlFails
<1>3. SignalTypeOK' /\ InboxInv'
  BY <1>1 DEF UrlFails, SignalTypeOK, InboxInv
<1>4. /\ working' = working /\ ws' = ws
      /\ fetching' = [fetching EXCEPT ![t] = FALSE]
      /\ lost' = lost \cup {t} /\ crashed' = [crashed EXCEPT ![t] = TRUE]
      /\ UNCHANGED <<peerVars, socketVars, stops>>
  BY DEF UrlFails
<1>5. TypeOK'
  BY <1>2, <1>3, <1>4 DEF IInv, TypeOK, peerVars, socketVars
<1>6. FetchInv' /\ SocketInv'
  BY <1>1, <1>4 DEF SignalTypeOK, FetchInv, SocketInv, socketVars
<1>7. CrashOnlyAfterLoss'
  BY <1>4 DEF IInv, TypeOK, CrashOnlyAfterLoss
<1> QED  BY <1>2, <1>3, <1>5, <1>6, <1>7 DEF IInv

LEMMA OpensStep ==
  ASSUME IInv, NEW t \in Transports, handleVkWebSocketSignalServerOnStarted(t)
  PROVE  IInv'
<1>1. SignalTypeOK /\ FetchInv /\ InboxInv /\ SocketInv
  BY DEF IInv, TypeOK
<1>2. SignalTypeOK' /\ InboxInv'
  BY <1>1, OpensTypes DEF handleVkWebSocketSignalServerOnStarted
<1>3. /\ ws[t] = "opening" /\ ws' = [ws EXCEPT ![t] = "open"] /\ fetching' = fetching
      /\ working' = [working EXCEPT ![t] = "working"]
      /\ UNCHANGED <<peerVars, socketVars, crashed, lost, stops>>
  BY DEF handleVkWebSocketSignalServerOnStarted, WebSocketOpens
<1>4. TypeOK'
  BY <1>2, <1>3 DEF IInv, TypeOK, peerVars, socketVars
<1>5. FetchInv'
  BY <1>1, <1>3 DEF IInv, TypeOK, SignalTypeOK, FetchInv
<1>6. SocketInv' /\ CrashOnlyAfterLoss'
  BY <1>1, <1>3 DEF IInv, SignalTypeOK, SocketInv, CrashOnlyAfterLoss, socketVars
<1>7. IsFiniteSet(lost)'
  BY <1>3 DEF IInv
<1> QED  BY <1>2, <1>4, <1>5, <1>6, <1>7 DEF IInv

LEMMA StopStep ==
  ASSUME IInv, NEW t \in Transports, stop(t)
  PROVE  IInv'
<1>1. SignalTypeOK /\ FetchInv /\ InboxInv /\ SocketInv
  BY DEF IInv, TypeOK
<1>2. SignalTypeOK' /\ InboxInv'
  BY <1>1, LeavesTypes DEF stop
<1>3. stops' \in 0..MaxStops
  BY CallAssumption DEF stop, IInv, TypeOK
<1>4. << >> \in Seq(Participant \X Nat) /\ 0 \in 0..MaxWrites
  BY EmptySeq, CallAssumption
<1>5. /\ working[t] = "working" /\ ws' = [ws EXCEPT ![t] = "closing"] /\ fetching' = fetching
      /\ working' = [working EXCEPT ![t] = "stopping"]
      /\ socket' = [socket EXCEPT ![t] = FALSE]
      /\ written' = [written EXCEPT ![t] = 0]
      /\ got' = [got EXCEPT ![t] = << >>]
      /\ UNCHANGED <<peerVars, crashed, lost>>
  BY DEF stop, SignalLeaves, destroyTransportSocket
<1>6. TypeOK'
  BY <1>2, <1>3, <1>4, <1>5 DEF IInv, TypeOK, peerVars
<1>7. FetchInv'
  BY <1>1, <1>5 DEF IInv, TypeOK, SignalTypeOK, FetchInv
<1>8. SocketInv' /\ CrashOnlyAfterLoss'
  BY <1>1, <1>5 DEF IInv, TypeOK, SignalTypeOK, SocketInv, CrashOnlyAfterLoss
<1>9. IsFiniteSet(lost)'
  BY <1>5 DEF IInv
<1> QED  BY <1>2, <1>6, <1>7, <1>8, <1>9 DEF IInv

LEMMA ClosedStep ==
  ASSUME IInv, NEW t \in Transports,
         handleVkWebSocketSignalServerOnStopped(t) \/ CrashedWebSocketCloses(t)
  PROVE  IInv'
<1>1. /\ SignalTypeOK /\ FetchInv /\ InboxInv /\ SocketInv /\ CrashOnlyAfterLoss
      /\ IsFiniteSet(lost)
  BY DEF IInv, TypeOK
<1>2. SignalTypeOK' /\ InboxInv'
  BY <1>1, LeavesTypes DEF handleVkWebSocketSignalServerOnStopped, CrashedWebSocketCloses
<1>3. /\ ws[t] # "none" /\ ws' = [ws EXCEPT ![t] = "none"] /\ fetching' = fetching
      /\ UNCHANGED <<peerVars, socketVars, crashed, stops>>
  BY DEF handleVkWebSocketSignalServerOnStopped, CrashedWebSocketCloses, SignalLeaves
<1>4. /\ IsFiniteSet(lost)' /\ lost' \subseteq Transports
      /\ Cardinality(lost)' <= MaxLosses /\ lost \subseteq lost'
  BY <1>1, LostMayGrow DEF handleVkWebSocketSignalServerOnStopped, CrashedWebSocketCloses,
       IInv, TypeOK
<1>5. working' \in {working, [working EXCEPT ![t] = "idle"]}
  BY DEF handleVkWebSocketSignalServerOnStopped, CrashedWebSocketCloses
<1>6. TypeOK'
  BY <1>2, <1>3, <1>4, <1>5 DEF IInv, TypeOK, peerVars, socketVars
<1>7. FetchInv'
  BY <1>1, <1>3, <1>5 DEF IInv, TypeOK, SignalTypeOK, FetchInv
<1>8. socket[t] => t \in lost'
  BY <1>1 DEF handleVkWebSocketSignalServerOnStopped, CrashedWebSocketCloses, SocketInv,
       CrashOnlyAfterLoss
<1>9. SocketInv'
  BY <1>1, <1>3, <1>4, <1>8 DEF SocketInv, SignalTypeOK, socketVars
<1> QED
  BY <1>1, <1>2, <1>3, <1>4, <1>6, <1>7, <1>9 DEF IInv, CrashOnlyAfterLoss


(* The server notices that a participant has gone, or a handler runs that  *)
(* changes nothing but the queues and the transport sockets.               *)
LEMMA HungupStep ==
  ASSUME IInv, ParticipantHungup
  PROVE  IInv'
<1>1. SignalTypeOK' /\ InboxInv'
  BY HungupTypes DEF ParticipantHungup, IInv, TypeOK
<1>2. /\ UNCHANGED <<fetching, ws, working, peerVars, socketVars, crashed, lost, stops>>
  BY DEF ParticipantHungup, Hungup
<1>3. TypeOK'
  BY <1>1, <1>2 DEF IInv, TypeOK, peerVars, socketVars
<1>4. FetchInv' /\ SocketInv' /\ CrashOnlyAfterLoss'
  BY <1>2 DEF IInv, FetchInv, SocketInv, CrashOnlyAfterLoss, socketVars
<1>5. IsFiniteSet(lost)'
  BY <1>2 DEF IInv
<1> QED  BY <1>1, <1>3, <1>4, <1>5 DEF IInv

LEMMA SendStep ==
  ASSUME IInv, NEW t \in Transports, sendMessageToParticipant(t)
  PROVE  IInv'
<1>1. /\ SignalTypeOK /\ FetchInv /\ InboxInv /\ SocketInv /\ CrashOnlyAfterLoss
      /\ inbox \in Queues
  BY DEF IInv, TypeOK, SignalTypeOK, Queues
<1>2. /\ socket[t] /\ written[t] \in 0..MaxWrites /\ written[t] < MaxWrites
      /\ UNCHANGED <<fetching, ws, self, members, owner, working, peerVars, socket,
                     got, lost, stops>>
  BY DEF sendMessageToParticipant, IInv, TypeOK
<1>3. CASE /\ ws[t] = "open"
           /\ written' = [written EXCEPT ![t] = @ + 1]
           /\ inbox' = Posted(inbox, {opponent[t]},
                              CustomData("BUFFER", self[t], <<written[t] + 1, 0>>))
           /\ UNCHANGED crashed
  <2>1. self[t] \in Participant /\ <<written[t] + 1, 0>> \in Nat \X Nat
    BY <1>1, <1>2, <1>3 DEF SignalTypeOK
  <2>2. CustomData("BUFFER", self[t], <<written[t] + 1, 0>>) \in Notification
    BY <2>1, NoticeTypes DEF MessageType
  <2>3. /\ inbox' \in Queues
        /\ \A u \in Transports : inbox'[u] # << >> => inbox[u] # << >> \/ self[u] # None
    BY <1>1, <1>3, <2>2, PostedType
  <2>4. SignalTypeOK' /\ InboxInv'
    BY <1>1, <1>2, <2>3, QueueTypes
  <2>5. written[t] + 1 \in 0..MaxWrites
    BY <1>2, CallAssumption
  <2>6. TypeOK'
    BY <1>2, <1>3, <2>4, <2>5 DEF IInv, TypeOK, peerVars
  <2>7. FetchInv' /\ SocketInv' /\ CrashOnlyAfterLoss'
    BY <1>1, <1>2, <1>3 DEF FetchInv, SocketInv, CrashOnlyAfterLoss
  <2>8. IsFiniteSet(lost)'
    BY <1>2 DEF IInv
  <2> QED  BY <2>4, <2>6, <2>7, <2>8 DEF IInv
<1>4. CASE /\ ws[t] # "open"
           /\ crashed' = [crashed EXCEPT ![t] = TRUE]
           /\ UNCHANGED <<written, inbox>>
  <2>1. SignalTypeOK' /\ InboxInv'
    BY <1>1, <1>2, <1>4 DEF SignalTypeOK, InboxInv
  <2>2. t \in lost
    BY <1>1, <1>2, <1>4 DEF SocketInv
  <2>3. TypeOK'
    BY <1>2, <1>4, <2>1 DEF IInv, TypeOK, peerVars
  <2>4. FetchInv' /\ SocketInv' /\ CrashOnlyAfterLoss'
    BY <1>1, <1>2, <1>4, <2>2 DEF FetchInv, SocketInv, CrashOnlyAfterLoss, IInv, TypeOK
  <2>5. IsFiniteSet(lost)'
    BY <1>2 DEF IInv
  <2> QED  BY <2>1, <2>3, <2>4, <2>5 DEF IInv
<1> QED  BY <1>3, <1>4 DEF sendMessageToParticipant

LEMMA SocketErrorStep ==
  ASSUME IInv, NEW t \in Transports, handleTransportSocketOnError(t)
  PROVE  IInv'
<1>1. SignalTypeOK /\ FetchInv /\ InboxInv /\ SocketInv /\ CrashOnlyAfterLoss
  BY DEF IInv, TypeOK
<1>2. /\ IsFiniteSet(lost)' /\ lost' \subseteq Transports
      /\ Cardinality(lost)' <= MaxLosses
  BY LostMayGrow DEF handleTransportSocketOnError
<1>3. /\ socket' = [socket EXCEPT ![t] = FALSE]
      /\ written' = [written EXCEPT ![t] = 0]
      /\ got' = [got EXCEPT ![t] = << >>]
      /\ lost' = lost \cup {t}
      /\ UNCHANGED <<signalVars, working, peerVars, crashed, stops>>
  BY DEF handleTransportSocketOnError, destroyTransportSocket
<1>4. SignalTypeOK' /\ InboxInv'
  BY <1>1, <1>3 DEF SignalTypeOK, InboxInv, signalVars
<1>5. << >> \in Seq(Participant \X Nat) /\ 0 \in 0..MaxWrites
  BY EmptySeq, CallAssumption
<1>6. TypeOK'
  BY <1>2, <1>3, <1>4, <1>5 DEF IInv, TypeOK, peerVars
<1>7. FetchInv' /\ SocketInv' /\ CrashOnlyAfterLoss'
  BY <1>1, <1>3 DEF FetchInv, SocketInv, CrashOnlyAfterLoss, signalVars, IInv, TypeOK
<1> QED  BY <1>2, <1>4, <1>6, <1>7 DEF IInv


-----------------------------------------------------------------------------
(* The notifications.                                                      *)

(* A handler changes nothing but the queues, the negotiation and the       *)
(* transport socket, which it can make because the websocket is open.      *)
LEMMA HandlerStep ==
  ASSUME IInv, NEW t \in Transports, self[t] # None,
         NEW box, inbox' = box, box \in Queues,
         \A u \in Transports : box[u] # << >> => inbox[u] # << >> \/ self[u] # None,
         UNCHANGED <<fetching, ws, self, members, owner, working, crashed, lost, stops>>,
         state' \in [Transports -> {"none", "CONNECTING", "CONNECTED"}],
         opponent' \in [Transports -> Participant \cup {None}],
         participants' \in [Transports -> SUBSET Participant],
         socket' \in [Transports -> BOOLEAN],
         written' \in [Transports -> 0..MaxWrites],
         got' \in [Transports -> Seq(Participant \X Nat)],
         \A u \in Transports : opponent'[u] # None <=> state'[u] = "CONNECTED",
         \A u \in Transports : socket'[u] => state'[u] = "CONNECTED",
         \A u \in Transports \ {t} : socket'[u] = socket[u]
  PROVE  IInv'
<1>1. SignalTypeOK /\ FetchInv /\ InboxInv /\ SocketInv /\ CrashOnlyAfterLoss
  BY DEF IInv, TypeOK
<1>2. SignalTypeOK' /\ InboxInv'
  BY <1>1, QueueTypes
<1>3. TypeOK'
  BY <1>2 DEF IInv, TypeOK
<1>4. ws[t] = "open"
  BY <1>1 DEF SignalTypeOK
<1>5. SocketInv'
  BY <1>1, <1>4 DEF SocketInv
<1>6. FetchInv' /\ CrashOnlyAfterLoss'
  BY <1>1 DEF FetchInv, CrashOnlyAfterLoss
<1>7. IsFiniteSet(lost)'
  BY DEF IInv
<1> QED  BY <1>2, <1>3, <1>5, <1>6, <1>7 DEF IInv

LEMMA ConnectingStep ==
  ASSUME IInv, NEW t \in Transports, self[t] # None,
         NEW others \in SUBSET Participant, NEW box \in Queues,
         \A u \in Transports : box[u] # << >> => inbox[u] # << >>,
         setStateConnecting(t, others, box),
         UNCHANGED <<fetching, ws, self, members, owner, working, crashed, lost, stops>>
  PROVE  IInv'
<1>1. /\ state' = [state EXCEPT ![t] = "CONNECTING"]
      /\ opponent' = [opponent EXCEPT ![t] = None]
      /\ participants' = [participants EXCEPT ![t] = others]
      /\ socket' = [socket EXCEPT ![t] = FALSE]
      /\ written' = [written EXCEPT ![t] = 0]
      /\ got' = [got EXCEPT ![t] = << >>]
      /\ inbox' = Posted(box, others, CustomData("CONNECT", self[t], <<0, 0>>))
  BY DEF setStateConnecting, destroyTransportSocket
<1>2. CustomData("CONNECT", self[t], <<0, 0>>) \in Notification
  <2>1. self[t] \in Participant
    BY DEF IInv, TypeOK, SignalTypeOK
  <2> QED  BY <2>1, NoticeTypes DEF MessageType
<1>3. /\ inbox' \in Queues
      /\ \A u \in Transports : inbox'[u] # << >> => inbox[u] # << >> \/ self[u] # None
  BY <1>1, <1>2, PostedType
<1>4. << >> \in Seq(Participant \X Nat) /\ 0 \in 0..MaxWrites
  BY EmptySeq, CallAssumption
<1>5. /\ state' \in [Transports -> {"none", "CONNECTING", "CONNECTED"}]
      /\ opponent' \in [Transports -> Participant \cup {None}]
      /\ participants' \in [Transports -> SUBSET Participant]
      /\ socket' \in [Transports -> BOOLEAN]
      /\ written' \in [Transports -> 0..MaxWrites]
      /\ got' \in [Transports -> Seq(Participant \X Nat)]
      /\ \A u \in Transports : opponent'[u] # None <=> state'[u] = "CONNECTED"
      /\ \A u \in Transports : socket'[u] => state'[u] = "CONNECTED"
      /\ \A u \in Transports \ {t} : socket'[u] = socket[u]
  BY <1>1, <1>4 DEF IInv, TypeOK
<1>6. PICK after : after = inbox'
  OBVIOUS
<1> QED  BY <1>3, <1>5, <1>6, HandlerStep

LEMMA ConnectedStep ==
  ASSUME IInv, NEW t \in Transports, self[t] # None, inbox[t] # << >>,
         NEW p \in Participant, NEW sendAccept \in BOOLEAN,
         setStateConnected(t, p, sendAccept),
         UNCHANGED <<fetching, ws, self, members, owner, working, crashed, lost, stops>>
  PROVE  IInv'
<1> DEFINE to == IF sendAccept THEN {p} ELSE {}
<1>1. /\ state' = [state EXCEPT ![t] = "CONNECTED"]
      /\ opponent' = [opponent EXCEPT ![t] = p]
      /\ participants' = participants
      /\ socket' = [socket EXCEPT ![t] = TRUE]
      /\ written' = [written EXCEPT ![t] = 0]
      /\ got' = [got EXCEPT ![t] = << >>]
      /\ inbox' = Posted(Received(t), to, CustomData("ACCEPT", self[t], <<0, 0>>))
  BY DEF setStateConnected, createTransportSocket
<1> HIDE DEF to
<1>2. CustomData("ACCEPT", self[t], <<0, 0>>) \in Notification
  <2>1. self[t] \in Participant
    BY DEF IInv, TypeOK, SignalTypeOK
  <2> QED  BY <2>1, NoticeTypes DEF MessageType
<1>3. /\ Received(t) \in Queues
      /\ \A u \in Transports : Received(t)[u] # << >> => inbox[u] # << >>
  BY ReceivedType DEF IInv, TypeOK, SignalTypeOK, Queues
<1>4. PICK box : box = Received(t)
  OBVIOUS
<1>5. /\ inbox' \in Queues
      /\ \A u \in Transports : inbox'[u] # << >> => inbox[u] # << >> \/ self[u] # None
  BY <1>1, <1>2, <1>3, <1>4, PostedType
<1>6. << >> \in Seq(Participant \X Nat) /\ 0 \in 0..MaxWrites /\ p # None
  BY EmptySeq, CallAssumption, SignalAssumption DEF Participant
<1>7. /\ state' \in [Transports -> {"none", "CONNECTING", "CONNECTED"}]
      /\ opponent' \in [Transports -> Participant \cup {None}]
      /\ participants' \in [Transports -> SUBSET Participant]
      /\ socket' \in [Transports -> BOOLEAN]
      /\ written' \in [Transports -> 0..MaxWrites]
      /\ got' \in [Transports -> Seq(Participant \X Nat)]
      /\ \A u \in Transports : opponent'[u] # None <=> state'[u] = "CONNECTED"
      /\ \A u \in Transports : socket'[u] => state'[u] = "CONNECTED"
      /\ \A u \in Transports \ {t} : socket'[u] = socket[u]
  BY <1>1, <1>6 DEF IInv, TypeOK
<1>8. PICK after : after = inbox'
  OBVIOUS
<1> QED  BY <1>5, <1>7, <1>8, HandlerStep


LEMMA NotificationStep ==
  ASSUME IInv, NEW t \in Transports, handleVkWebSocketSignalServerOnNotification(t)
  PROVE  IInv'
<1>1. /\ UNCHANGED <<fetching, ws, self, members, owner, working, crashed, lost, stops>>
      /\ inbox[t] # << >>
  BY DEF handleVkWebSocketSignalServerOnNotification, handleVkWebSocketSignalServerOnReady,
       OnRegisteredPeer, OnHungup, OnConnectMessage, OnAcceptMessage, OnBufferMessage, IsNext
<1>2. self[t] # None
  BY <1>1 DEF IInv, InboxInv
<1>3. /\ Received(t) \in Queues /\ Head(inbox[t]) \in Notification
      /\ \A u \in Transports : Received(t)[u] # << >> => inbox[u] # << >>
  BY <1>1, ReceivedType DEF IInv, TypeOK, SignalTypeOK, Queues
<1>4. /\ Head(inbox[t]).about \in SUBSET Participant
      /\ Head(inbox[t]).data \in Nat \X Nat
  BY <1>3 DEF Notification
<1>5. participants[t] \in SUBSET Participant
  BY DEF IInv, TypeOK
<1>6. PICK box : box = Received(t)
  OBVIOUS
<1>7. CASE handleVkWebSocketSignalServerOnReady(t)
  <2>1. Head(inbox[t]).about \ {self[t]} \in SUBSET Participant
    BY <1>4
  <2> QED
    BY <1>1, <1>2, <1>3, <1>7, <2>1, ConnectingStep DEF handleVkWebSocketSignalServerOnReady
<1>8. ASSUME NEW p \in Participant, OnHungup(t, p),
             setStateConnecting(t, participants[t] \ {p}, Received(t))
      PROVE  IInv'
  <2>1. participants[t] \ {p} \in SUBSET Participant
    BY <1>5
  <2> QED  BY <1>1, <1>2, <1>3, <1>8, <2>1, ConnectingStep
<1>9. ASSUME NEW p \in Participant, NEW sendAccept \in BOOLEAN,
             setStateConnected(t, p, sendAccept)
      PROVE  IInv'
  BY <1>1, <1>2, <1>9, ConnectedStep
<1>10. ASSUME inbox' = Received(t), UNCHANGED <<state, opponent, socketVars>>,
              participants' \in [Transports -> SUBSET Participant]
       PROVE  IInv'
  <2>1. /\ state' \in [Transports -> {"none", "CONNECTING", "CONNECTED"}]
        /\ opponent' \in [Transports -> Participant \cup {None}]
        /\ socket' \in [Transports -> BOOLEAN]
        /\ written' \in [Transports -> 0..MaxWrites]
        /\ got' \in [Transports -> Seq(Participant \X Nat)]
        /\ \A u \in Transports : opponent'[u] # None <=> state'[u] = "CONNECTED"
        /\ \A u \in Transports : socket'[u] => state'[u] = "CONNECTED"
        /\ \A u \in Transports \ {t} : socket'[u] = socket[u]
    BY <1>10 DEF IInv, TypeOK, socketVars
  <2> QED  BY <1>1, <1>2, <1>3, <1>6, <1>10, <2>1, HandlerStep
<1>11. ASSUME NEW p \in Participant, NEW others \in SUBSET Participant,
              participants' = [participants EXCEPT ![t] = others],
              inbox' = Received(t), UNCHANGED <<state, opponent, socketVars>>
       PROVE  IInv'
  <2>1. participants' \in [Transports -> SUBSET Participant]
    BY <1>11 DEF IInv, TypeOK
  <2> QED  BY <1>10, <1>11, <2>1
<1>12. ASSUME Ignores(t)
       PROVE  IInv'
  <2>1. participants' \in [Transports -> SUBSET Participant]
    BY <1>12 DEF Ignores, peerVars, IInv, TypeOK
  <2> QED  BY <1>10, <1>12, <2>1 DEF Ignores, peerVars
<1>13. ASSUME NEW p \in Participant, OnRegisteredPeer(t, p)
       PROVE  IInv'
  <2>1. participants[t] \cup {p} \in SUBSET Participant
    BY <1>5
  <2> QED  BY <1>11, <1>13, <2>1 DEF OnRegisteredPeer
<1>14. ASSUME NEW p \in Participant, OnHungup(t, p)
       PROVE  IInv'
  <2>1. participants[t] \ {p} \in SUBSET Participant
    BY <1>5
  <2>2. CASE setStateConnecting(t, participants[t] \ {p}, Received(t))
    BY <1>8, <1>14, <2>2
  <2>3. CASE /\ participants' = [participants EXCEPT ![t] = @ \ {p}]
             /\ inbox' = Received(t)
             /\ UNCHANGED <<state, opponent, socketVars>>
    BY <1>11, <2>1, <2>3
  <2> QED  BY <1>14, <2>2, <2>3 DEF OnHungup
<1>15. ASSUME NEW p \in Participant, OnConnectMessage(t, p) \/ OnAcceptMessage(t, p)
       PROVE  IInv'
  BY <1>9, <1>12, <1>15 DEF OnConnectMessage, OnAcceptMessage
<1>16. ASSUME NEW p \in Participant, OnBufferMessage(t, p)
       PROVE  IInv'
  <2>1. CASE Ignores(t)
    BY <1>12, <2>1
  <2>2. CASE /\ state[t] = "CONNECTED" /\ socket[t]
             /\ got' = [got EXCEPT ![t] = Append(@, <<p, Head(inbox[t]).data[1]>>)]
             /\ inbox' = Received(t)
             /\ UNCHANGED <<peerVars, socket, written>>
    <3>1. <<p, Head(inbox[t]).data[1]>> \in Participant \X Nat
      BY <1>4
    <3>2. Append(got[t], <<p, Head(inbox[t]).data[1]>>) \in Seq(Participant \X Nat)
      BY <3>1 DEF IInv, TypeOK
    <3>3. got' \in [Transports -> Seq(Participant \X Nat)]
      BY <2>2, <3>2 DEF IInv, TypeOK
    <3>4. /\ state' \in [Transports -> {"none", "CONNECTING", "CONNECTED"}]
          /\ opponent' \in [Transports -> Participant \cup {None}]
          /\ participants' \in [Transports -> SUBSET Participant]
          /\ socket' \in [Transports -> BOOLEAN]
          /\ written' \in [Transports -> 0..MaxWrites]
          /\ \A u \in Transports : opponent'[u] # None <=> state'[u] = "CONNECTED"
          /\ \A u \in Transports : socket'[u] => state'[u] = "CONNECTED"
          /\ \A u \in Transports \ {t} : socket'[u] = socket[u]
      BY <2>2 DEF IInv, TypeOK, peerVars
    <3>5. /\ inbox' = box /\ box \in Queues
          /\ \A u \in Transports : box[u] # << >> => inbox[u] # << >> \/ self[u] # None
      BY <1>3, <1>6, <2>2
    <3>6. UNCHANGED <<fetching, ws, self, members, owner, working, crashed, lost, stops>>
      BY <1>1
    <3> QED  BY <1>2, <3>3, <3>4, <3>5, <3>6, HandlerStep
  <2> QED  BY <1>16, <2>1, <2>2 DEF OnBufferMessage
<1> QED
  BY <1>7, <1>13, <1>14, <1>15, <1>16 DEF handleVkWebSocketSignalServerOnNotification

LEMMA StutterStep ==
  ASSUME IInv, UNCHANGED vars
  PROVE  IInv'
<1>1. SignalTypeOK' /\ InboxInv'
  BY DEF vars, signalVars, IInv, TypeOK, SignalTypeOK, InboxInv
<1>2. TypeOK'
  BY <1>1 DEF vars, peerVars, socketVars, IInv, TypeOK
<1>3. FetchInv' /\ SocketInv' /\ CrashOnlyAfterLoss' /\ IsFiniteSet(lost)'
  BY DEF vars, signalVars, socketVars, IInv, FetchInv, SocketInv, CrashOnlyAfterLoss
<1> QED  BY <1>1, <1>2, <1>3 DEF IInv

LEMMA NextInv == IInv /\ [Next]_vars => IInv'
<1> SUFFICES ASSUME IInv, [Next]_vars PROVE IInv'
  OBVIOUS
<1> QED
  BY StartStep, UrlFailsStep, OpensStep, StopStep, ClosedStep, NotificationStep, SendStep,
     SocketErrorStep, HungupStep, StutterStep DEF Next

LEMMA AlwaysInv == Spec => []IInv
  BY InitInv, NextInv, PTL DEF Spec

(* The state has its type: an opponent is remembered exactly while the     *)
(* negotiation is over, a transport socket exists only then, and a         *)
(* websocket stands for one participant that its transport owns.           *)
THEOREM CallTypes == Spec => []TypeOK
  BY AlwaysInv, PTL DEF IInv

(* A process ends only if something around its transport has failed:       *)
(* neither stop() nor start(), in whatever state of the negotiation, leads *)
(* to a write to a transport socket without a websocket to send it on.     *)
THEOREM CallCrashNeedsLoss == Spec => []CrashOnlyAfterLoss
  BY AlwaysInv, PTL DEF IInv

-----------------------------------------------------------------------------
(* The buffers of a call.                                                  *)

(* A CONNECT or an ACCEPT from p, and a buffer from p.                     *)
IsHello(n, p) == n.type \in {"CONNECT", "ACCEPT"} /\ n.about = {p}
IsBuffer(n, p) == n.type = "BUFFER" /\ n.about = {p}

(* The buffers from p behind place i of a queue are number b + 1 to number *)
(* w, in order and none left out.                                          *)
Numbers(queue, p, i, b, w) ==
  /\ \A j \in (i + 1)..Len(queue) :
       IsBuffer(queue[j], p) => b < queue[j].data[1] /\ queue[j].data[1] <= w
  /\ \A j, k \in (i + 1)..Len(queue) :
       j < k /\ IsBuffer(queue[j], p) /\ IsBuffer(queue[k], p) =>
         queue[j].data[1] < queue[k].data[1]
  /\ \A n \in (b + 1)..w : \E j \in (i + 1)..Len(queue) :
       IsBuffer(queue[j], p) /\ queue[j].data[1] = n

(* Those which a transport socket was given are number 1 to number b.      *)
Given(buffers, p, b) ==
  /\ \A i \in DOMAIN buffers : buffers[i][1] = p => 0 < buffers[i][2] /\ buffers[i][2] <= b
  /\ \A i, j \in DOMAIN buffers :
       i < j /\ buffers[i][1] = p /\ buffers[j][1] = p => buffers[i][2] < buffers[j][2]
  /\ \A n \in 1..b : \E i \in DOMAIN buffers : buffers[i][1] = p /\ buffers[i][2] = n

-----------------------------------------------------------------------------
(* Queues.                                                                 *)

LEMMA AppendParts ==
  ASSUME NEW S, NEW s \in Seq(S), NEW e \in S
  PROVE  /\ Append(s, e) \in Seq(S) /\ Len(Append(s, e)) = Len(s) + 1
         /\ \A i \in 1..Len(s) : Append(s, e)[i] = s[i]
         /\ Append(s, e)[Len(s) + 1] = e
         /\ Append(s, e) # << >> /\ Len(s) \in Nat
         /\ s # << >> => Head(Append(s, e)) = Head(s)
         /\ s = << >> => Head(Append(s, e)) = e
<1> DEFINE longer == Append(s, e)
<1>1. /\ longer \in Seq(S) /\ Len(longer) = Len(s) + 1 /\ Len(s) \in Nat
      /\ \A i \in 1..Len(s) : longer[i] = s[i]
      /\ longer[Len(s) + 1] = e
  BY AppendProperties
<1> HIDE DEF longer
<1>2. longer # << >> /\ Head(longer) = longer[1]
  BY <1>1
<1>3. s # << >> => Head(s) = s[1] /\ 1 \in 1..Len(s)
  OBVIOUS
<1>4. s = << >> => Len(s) = 0
  OBVIOUS
<1> QED  BY <1>1, <1>2, <1>3, <1>4 DEF longer

LEMMA NumberType ==
  ASSUME NEW n \in Notification
  PROVE  n.data[1] \in Nat
<1>1. n.data \in Nat \X Nat
  BY DEF Notification
<1> QED  BY <1>1

LEMMA TailParts ==
  ASSUME NEW S, NEW s \in Seq(S), s # << >>
  PROVE  /\ Tail(s) \in Seq(S) /\ Len(Tail(s)) + 1 = Len(s) /\ Len(Tail(s)) \in Nat
         /\ \A i \in 1..Len(Tail(s)) : Tail(s)[i] = s[i + 1]
         /\ Head(s) = s[1] /\ Head(s) \in S /\ Len(s) \in Nat
         /\ Tail(s) # << >> => Head(Tail(s)) = s[2] /\ 2 \in 1..Len(s)
  OBVIOUS

LEMMA NumbersNone ==
  ASSUME NEW queue \in Seq(Notification), NEW p, NEW i \in Nat, i >= Len(queue), NEW b \in Nat
  PROVE  Numbers(queue, p, i, b, b)
<1>1. (i + 1)..Len(queue) = {} /\ (b + 1)..b = {}
  OBVIOUS
<1> QED  BY <1>1 DEF Numbers

LEMMA NumbersAppend ==
  ASSUME NEW queue \in Seq(Notification), NEW n \in Notification, NEW p, NEW i \in 0..Len(queue),
         NEW b \in Nat, NEW w \in Nat, Numbers(queue, p, i, b, w)
  PROVE  /\ ~IsBuffer(n, p) => Numbers(Append(queue, n), p, i, b, w)
         /\ IsBuffer(n, p) /\ n.data[1] = w + 1 /\ b <= w =>
              Numbers(Append(queue, n), p, i, b, w + 1)
<1> DEFINE longer == Append(queue, n)
<1>1. /\ longer \in Seq(Notification) /\ Len(longer) = Len(queue) + 1 /\ Len(queue) \in Nat
      /\ \A j \in 1..Len(queue) : longer[j] = queue[j]
      /\ longer[Len(queue) + 1] = n
  BY AppendParts
<1>2. \A j \in 1..Len(queue) : queue[j].data[1] \in Nat
  BY NumberType
<1> HIDE DEF longer
<1>3. /\ (i + 1)..Len(longer) = ((i + 1)..Len(queue)) \cup {Len(queue) + 1}
      /\ (i + 1)..Len(queue) \subseteq 1..Len(queue)
  BY <1>1
<1>4. ASSUME ~IsBuffer(n, p) PROVE Numbers(longer, p, i, b, w)
  <2>1. \A j \in (i + 1)..Len(longer) :
          IsBuffer(longer[j], p) => j \in (i + 1)..Len(queue) /\ longer[j] = queue[j]
    BY <1>1, <1>3, <1>4
  <2>2. \A j \in (i + 1)..Len(queue) : j \in (i + 1)..Len(longer) /\ longer[j] = queue[j]
    BY <1>1, <1>3
  <2> QED  BY <2>1, <2>2 DEF Numbers
<1>5. ASSUME IsBuffer(n, p), n.data[1] = w + 1, b <= w PROVE Numbers(longer, p, i, b, w + 1)
  <2>1. \A j \in (i + 1)..Len(longer) :
          \/ j \in (i + 1)..Len(queue) /\ longer[j] = queue[j] /\ j \in 1..Len(queue)
          \/ j = Len(queue) + 1 /\ longer[j] = n
    BY <1>1, <1>3
  <2>2. \A j \in (i + 1)..Len(queue) : j \in (i + 1)..Len(longer) /\ longer[j] = queue[j]
    BY <1>1, <1>3
  <2>3. Len(queue) + 1 \in (i + 1)..Len(longer) /\ longer[Len(queue) + 1] = n
    BY <1>1, <1>3
  <2>4. \A j \in (i + 1)..Len(longer) :
          IsBuffer(longer[j], p) => b < longer[j].data[1] /\ longer[j].data[1] <= w + 1
    BY <1>2, <1>5, <2>1 DEF Numbers
  <2>5. ASSUME NEW j \in (i + 1)..Len(longer), NEW k \in (i + 1)..Len(longer), j < k,
               IsBuffer(longer[j], p), IsBuffer(longer[k], p)
        PROVE  longer[j].data[1] < longer[k].data[1]
    <3>1. j \in (i + 1)..Len(queue) /\ longer[j] = queue[j] /\ j \in 1..Len(queue)
      BY <1>1, <2>1, <2>5
    <3>2. longer[j].data[1] <= w /\ longer[j].data[1] \in Nat
      BY <1>2, <2>5, <3>1 DEF Numbers
    <3>3. CASE k = Len(queue) + 1
      BY <1>5, <2>3, <3>2, <3>3
    <3>4. CASE k \in (i + 1)..Len(queue) /\ longer[k] = queue[k]
      BY <2>5, <3>1, <3>4 DEF Numbers
    <3> QED  BY <2>1, <3>3, <3>4
  <2>6. ASSUME NEW m \in (b + 1)..(w + 1)
        PROVE  \E j \in (i + 1)..Len(longer) : IsBuffer(longer[j], p) /\ longer[j].data[1] = m
    <3>1. CASE m = w + 1
      BY <1>5, <2>3, <3>1
    <3>2. CASE m \in (b + 1)..w
      <4>1. PICK j \in (i + 1)..Len(queue) : IsBuffer(queue[j], p) /\ queue[j].data[1] = m
        BY <3>2 DEF Numbers
      <4> QED  BY <2>2, <4>1
    <3> QED  BY <3>1, <3>2
  <2> QED  BY <2>4, <2>5, <2>6 DEF Numbers
<1> QED  BY <1>4, <1>5 DEF longer

LEMMA NumbersTail ==
  ASSUME NEW queue \in Seq(Notification), queue # << >>, NEW p, NEW i \in Nat,
         NEW b \in Nat, NEW w \in Nat, Numbers(queue, p, i + 1, b, w)
  PROVE  Numbers(Tail(queue), p, i, b, w)
<1> DEFINE rest == Tail(queue)
<1>1. /\ rest \in Seq(Notification) /\ Len(rest) + 1 = Len(queue) /\ Len(rest) \in Nat
      /\ \A j \in 1..Len(rest) : rest[j] = queue[j + 1]
  BY TailParts
<1> HIDE DEF rest
<1>2. \A j \in (i + 1)..Len(rest) : j + 1 \in (i + 1 + 1)..Len(queue) /\ rest[j] = queue[j + 1]
  BY <1>1
<1>3. \A j \in (i + 1 + 1)..Len(queue) :
        j - 1 \in (i + 1)..Len(rest) /\ rest[j - 1] = queue[j]
  BY <1>1
<1>4. \A j \in (i + 1)..Len(rest) :
        IsBuffer(rest[j], p) => b < rest[j].data[1] /\ rest[j].data[1] <= w
  BY <1>2 DEF Numbers
<1>5. ASSUME NEW j \in (i + 1)..Len(rest), NEW k \in (i + 1)..Len(rest), j < k,
             IsBuffer(rest[j], p), IsBuffer(rest[k], p)
      PROVE  rest[j].data[1] < rest[k].data[1]
  <2>1. j + 1 < k + 1
    BY <1>5
  <2> QED  BY <1>2, <1>5, <2>1 DEF Numbers
<1>6. ASSUME NEW m \in (b + 1)..w
      PROVE  \E j \in (i + 1)..Len(rest) : IsBuffer(rest[j], p) /\ rest[j].data[1] = m
  <2>1. PICK j \in (i + 1 + 1)..Len(queue) : IsBuffer(queue[j], p) /\ queue[j].data[1] = m
    BY DEF Numbers
  <2>2. j - 1 \in (i + 1)..Len(rest) /\ rest[j - 1] = queue[j]
    BY <1>3
  <2> QED  BY <2>1, <2>2
<1> QED  BY <1>4, <1>5, <1>6 DEF Numbers, rest

LEMMA NumbersHead ==
  ASSUME NEW queue \in Seq(Notification), queue # << >>, NEW p,
         NEW b \in Nat, NEW w \in Nat, Numbers(queue, p, 0, b, w)
  PROVE  /\ ~IsBuffer(Head(queue), p) => Numbers(Tail(queue), p, 0, b, w)
         /\ IsBuffer(Head(queue), p) =>
              b < w /\ Head(queue).data[1] = b + 1 /\ Numbers(Tail(queue), p, 0, b + 1, w)
<1>1. /\ Len(queue) \in Nat /\ Len(queue) >= 1 /\ Head(queue) = queue[1]
      /\ 0 + 1 = 1 /\ 1 + 1 = 2
  BY TailParts
<1>2. \A j \in 1..Len(queue) : queue[j].data[1] \in Nat
  BY NumberType
<1>3. \A j \in 1..Len(queue) : j = 1 \/ (j \in 2..Len(queue) /\ 1 < j)
  BY <1>1
<1>4. \A j \in 2..Len(queue) : j \in 1..Len(queue)
  BY <1>1
<1>5. ASSUME ~IsBuffer(Head(queue), p)
      PROVE  Numbers(queue, p, 1, b, w)
  <2>1. \A j \in 1..Len(queue) : IsBuffer(queue[j], p) => j \in 2..Len(queue)
    BY <1>1, <1>3, <1>5
  <2>2. \A m \in (b + 1)..w : \E j \in 2..Len(queue) : IsBuffer(queue[j], p) /\ queue[j].data[1] = m
    BY <1>1, <2>1 DEF Numbers
  <2> QED  BY <1>1, <1>4, <2>2 DEF Numbers
<1>6. ASSUME IsBuffer(Head(queue), p)
      PROVE  b < w /\ Head(queue).data[1] = b + 1 /\ Numbers(queue, p, 1, b + 1, w)
  <2>0. 1 \in 1..Len(queue) /\ IsBuffer(queue[1], p) /\ queue[1].data[1] \in Nat
    BY <1>1, <1>2, <1>6
  <2>1. b < queue[1].data[1] /\ queue[1].data[1] <= w
    BY <1>1, <2>0 DEF Numbers
  <2>2. b < w /\ b + 1 \in (b + 1)..w
    BY <2>0, <2>1
  <2>3. PICK j \in 1..Len(queue) : IsBuffer(queue[j], p) /\ queue[j].data[1] = b + 1
    BY <1>1, <2>2 DEF Numbers
  <2>4. \A k \in 2..Len(queue) : IsBuffer(queue[k], p) => queue[1].data[1] < queue[k].data[1]
    BY <1>1, <1>3, <1>4, <2>0 DEF Numbers
  <2>5. j = 1
    BY <1>2, <1>3, <2>0, <2>1, <2>3, <2>4
  <2>6. queue[1].data[1] = b + 1
    BY <2>3, <2>5
  <2>7. \A k \in 2..Len(queue) :
          IsBuffer(queue[k], p) => b + 1 < queue[k].data[1] /\ queue[k].data[1] <= w
    BY <1>1, <1>4, <2>4, <2>6 DEF Numbers
  <2>8. ASSUME NEW m \in (b + 1 + 1)..w
        PROVE  \E k \in 2..Len(queue) : IsBuffer(queue[k], p) /\ queue[k].data[1] = m
    <3>1. m \in (b + 1)..w /\ m # b + 1
      OBVIOUS
    <3>2. PICK k \in 1..Len(queue) : IsBuffer(queue[k], p) /\ queue[k].data[1] = m
      BY <1>1, <3>1 DEF Numbers
    <3> QED  BY <1>3, <2>6, <3>1, <3>2
  <2>9. \A k, l \in 2..Len(queue) :
          k < l /\ IsBuffer(queue[k], p) /\ IsBuffer(queue[l], p) =>
            queue[k].data[1] < queue[l].data[1]
    BY <1>1, <1>4 DEF Numbers
  <2> QED  BY <1>1, <2>2, <2>6, <2>7, <2>8, <2>9 DEF Numbers
<1>7. Numbers(queue, p, 1, b, w) => Numbers(Tail(queue), p, 0, b, w)
  BY <1>1, NumbersTail
<1>8. Numbers(queue, p, 1, b + 1, w) => Numbers(Tail(queue), p, 0, b + 1, w)
  <2>1. b + 1 \in Nat
    OBVIOUS
  <2> QED  BY <1>1, <2>1, NumbersTail
<1> QED  BY <1>5, <1>6, <1>7, <1>8

LEMMA GivenAppend ==
  ASSUME NEW buffers \in Seq(Participant \X Nat), NEW e \in Participant \X Nat, NEW p,
         NEW b \in Nat, Given(buffers, p, b)
  PROVE  /\ e[1] # p => Given(Append(buffers, e), p, b)
         /\ e[1] = p /\ e[2] = b + 1 => Given(Append(buffers, e), p, b + 1)
<1> DEFINE longer == Append(buffers, e)
<1>1. /\ longer \in Seq(Participant \X Nat) /\ Len(longer) = Len(buffers) + 1
      /\ Len(buffers) \in Nat
      /\ \A j \in 1..Len(buffers) : longer[j] = buffers[j]
      /\ longer[Len(buffers) + 1] = e
  BY AppendParts
<1>2. \A j \in 1..Len(buffers) : buffers[j][2] \in Nat
  OBVIOUS
<1> HIDE DEF longer
<1>3. /\ DOMAIN longer = (1..Len(buffers)) \cup {Len(buffers) + 1}
      /\ DOMAIN buffers = 1..Len(buffers)
  BY <1>1
<1>4. ASSUME e[1] # p PROVE Given(longer, p, b)
  BY <1>1, <1>3, <1>4 DEF Given
<1>5. ASSUME e[1] = p, e[2] = b + 1 PROVE Given(longer, p, b + 1)
  <2>1. \A i \in DOMAIN longer : longer[i][1] = p => 0 < longer[i][2] /\ longer[i][2] <= b + 1
    BY <1>1, <1>2, <1>3, <1>5 DEF Given
  <2>2. ASSUME NEW i \in DOMAIN longer, NEW j \in DOMAIN longer, i < j,
               longer[i][1] = p, longer[j][1] = p
        PROVE  longer[i][2] < longer[j][2]
    <3>1. i \in 1..Len(buffers) /\ longer[i] = buffers[i]
      BY <1>1, <1>3, <2>2
    <3>2. CASE j \in 1..Len(buffers)
      BY <1>1, <1>3, <2>2, <3>1, <3>2 DEF Given
    <3>3. CASE j = Len(buffers) + 1
      BY <1>1, <1>2, <1>3, <1>5, <2>2, <3>1, <3>3 DEF Given
    <3> QED  BY <1>3, <3>2, <3>3
  <2>3. ASSUME NEW m \in 1..(b + 1)
        PROVE  \E i \in DOMAIN longer : longer[i][1] = p /\ longer[i][2] = m
    <3>1. CASE m = b + 1
      BY <1>1, <1>3, <1>5, <3>1
    <3>2. CASE m \in 1..b
      BY <1>1, <1>3, <3>2 DEF Given
    <3> QED  BY <3>1, <3>2
  <2> QED  BY <2>1, <2>2, <2>3 DEF Given
<1> QED  BY <1>4, <1>5 DEF longer

-----------------------------------------------------------------------------
(* What is on its way.  The operators speak of any values me, box, peer,   *)
(* open, count and data of the variables self, inbox, opponent, socket,    *)
(* written and got, so that a step can be taken in two halves.             *)

Waits(queue) == queue # << >> /\ Head(queue).type = "connection"
Ready(me, box, t) == me[t] # None /\ ~Waits(box[t])

(* w is what u has written to t under the name it has now, as far as its   *)
(* transport socket is still the one it wrote to.                          *)
Wrote(me, box, peer, open, count, u, t, w) ==
  /\ Ready(me, box, u) /\ peer[u] = me[t] => (open[u] => count[u] = w)
  /\ ~(Ready(me, box, u) /\ peer[u] = me[t]) => w = 0

Heard(me, box, peer, open, count, t, p, w) ==
  \A u \in Transports : me[u] = p => Wrote(me, box, peer, open, count, u, t, w)

FlowTypes(me, box, peer, open, count, data) ==
  /\ me \in [Transports -> Participant \cup {None}]
  /\ box \in Queues
  /\ peer \in [Transports -> Participant \cup {None}]
  /\ open \in [Transports -> BOOLEAN]
  /\ count \in [Transports -> 0..MaxWrites]
  /\ data \in [Transports -> Seq(Participant \X Nat)]
  /\ \A t \in Transports : box[t] # << >> => me[t] # None
  /\ \A t \in Transports : open[t] => peer[t] # None
  /\ \A t, u \in Transports : me[t] # None /\ me[t] = me[u] => t = u

(* The first notification says who is in the call; a message has one       *)
(* sender.                                                                 *)
QueueInv(box) ==
  \A t \in Transports : \A i \in DOMAIN box[t] :
    /\ box[t][i].type = "connection" => i = 1
    /\ box[t][i].type \in MessageType => \E p \in Participant : box[t][i].about = {p}

(* Nobody is connected to, or called by, a participant that does not know  *)
(* yet that it is in the call.                                             *)
NewInv(me, box, peer) ==
  \A t, u \in Transports : me[u] # None /\ Waits(box[u]) =>
    /\ peer[t] # me[u]
    /\ \A i \in DOMAIN box[t] : ~IsHello(box[t][i], me[u])

(* Behind a CONNECT or an ACCEPT are all buffers of its sender, from the   *)
(* first to the last that was written.                                     *)
HelloInv(me, box, peer, open, count) ==
  \A t \in Transports : \A i \in DOMAIN box[t] : \A p \in Participant :
    IsHello(box[t][i], p) =>
      \E w \in 0..MaxWrites : /\ Numbers(box[t], p, i, 0, w)
                              /\ Heard(me, box, peer, open, count, t, p, w)

(* Those which a transport socket has are the first, the others are on     *)
(* their way.                                                              *)
PairInv(me, box, peer, open, count, data) ==
  \A t \in Transports : Ready(me, box, t) /\ open[t] =>
    \E b, w \in 0..MaxWrites :
      /\ b <= w /\ Given(data[t], peer[t], b)
      /\ Numbers(box[t], peer[t], 0, b, w)
      /\ Heard(me, box, peer, open, count, t, peer[t], w)

GotInv(peer, open, data) ==
  \A t \in Transports : open[t] => \E b \in 0..MaxWrites : Given(data[t], peer[t], b)

Flow(me, box, peer, open, count, data) ==
  /\ FlowTypes(me, box, peer, open, count, data)
  /\ QueueInv(box) /\ NewInv(me, box, peer)
  /\ HelloInv(me, box, peer, open, count)
  /\ PairInv(me, box, peer, open, count, data)
  /\ GotInv(peer, open, data)

(* A transport socket is destroyed.                                        *)
LEMMA Destroyed ==
  ASSUME NEW me, NEW box, NEW peer, NEW open, NEW count, NEW data,
         Flow(me, box, peer, open, count, data), NEW t \in Transports,
         NEW open2, NEW count2, NEW data2,
         open2 = [open EXCEPT ![t] = FALSE],
         count2 = [count EXCEPT ![t] = 0],
         data2 = [data EXCEPT ![t] = << >>]
  PROVE  Flow(me, box, peer, open2, count2, data2)
<1>1. /\ FlowTypes(me, box, peer, open, count, data)
      /\ QueueInv(box) /\ NewInv(me, box, peer)
      /\ HelloInv(me, box, peer, open, count)
      /\ PairInv(me, box, peer, open, count, data)
      /\ GotInv(peer, open, data)
  BY DEF Flow
<1>2. << >> \in Seq(Participant \X Nat) /\ 0 \in 0..MaxWrites
  BY EmptySeq, CallAssumption
<1>3. FlowTypes(me, box, peer, open2, count2, data2)
  BY <1>1, <1>2 DEF FlowTypes
<1>4. \A u \in Transports : open2[u] =>
        u # t /\ open[u] /\ count2[u] = count[u] /\ data2[u] = data[u]
  BY <1>1 DEF FlowTypes
<1>5. \A x \in Transports : \A p, w :
        Heard(me, box, peer, open, count, x, p, w) => Heard(me, box, peer, open2, count2, x, p, w)
  BY <1>4 DEF Heard, Wrote
<1>6. HelloInv(me, box, peer, open2, count2)
  BY <1>1, <1>5 DEF HelloInv
<1>7. PairInv(me, box, peer, open2, count2, data2)
  <2> SUFFICES ASSUME NEW x \in Transports, Ready(me, box, x), open2[x]
               PROVE  \E b, w \in 0..MaxWrites :
                        /\ b <= w /\ Given(data2[x], peer[x], b)
                        /\ Numbers(box[x], peer[x], 0, b, w)
                        /\ Heard(me, box, peer, open2, count2, x, peer[x], w)
    BY DEF PairInv
  <2>1. PICK b \in 0..MaxWrites, w \in 0..MaxWrites :
          /\ b <= w /\ Given(data[x], peer[x], b)
          /\ Numbers(box[x], peer[x], 0, b, w)
          /\ Heard(me, box, peer, open, count, x, peer[x], w)
    BY <1>1, <1>4 DEF PairInv
  <2>2. Heard(me, box, peer, open2, count2, x, peer[x], w)
    BY <1>5, <2>1
  <2> QED  BY <1>4, <2>1, <2>2
<1>8. GotInv(peer, open2, data2)
  BY <1>1, <1>4 DEF GotInv
<1> QED  BY <1>1, <1>3, <1>6, <1>7, <1>8 DEF Flow

(* A websocket leaves the open state.                                      *)
LEMMA Left ==
  ASSUME NEW me, NEW box, NEW peer, NEW open, NEW count, NEW data,
         Flow(me, box, peer, open, count, data), NEW t \in Transports,
         NEW me2, NEW box2,
         me2 = [me EXCEPT ![t] = None],
         box2 = [box EXCEPT ![t] = << >>]
  PROVE  Flow(me2, box2, peer, open, count, data)
<1>1. /\ FlowTypes(me, box, peer, open, count, data)
      /\ QueueInv(box) /\ NewInv(me, box, peer)
      /\ HelloInv(me, box, peer, open, count)
      /\ PairInv(me, box, peer, open, count, data)
      /\ GotInv(peer, open, data)
  BY DEF Flow
<1>2. << >> \in Seq(Notification) /\ DOMAIN << >> = {}
  BY EmptySeq
<1>3. FlowTypes(me2, box2, peer, open, count, data)
  BY <1>1, <1>2 DEF FlowTypes, Queues
<1>4. /\ me2[t] = None /\ box2[t] = << >>
      /\ \A u \in Transports \ {t} : me2[u] = me[u] /\ box2[u] = box[u]
  BY <1>1 DEF FlowTypes, Queues
<1>5. QueueInv(box2)
  BY <1>1, <1>2, <1>4 DEF QueueInv
<1>6. NewInv(me2, box2, peer)
  BY <1>1, <1>2, <1>4 DEF NewInv
<1>7. ASSUME NEW x \in Transports \ {t}, NEW p, p # None, NEW w,
             Heard(me, box, peer, open, count, x, p, w)
      PROVE  Heard(me2, box2, peer, open, count, x, p, w)
  BY <1>4, <1>7 DEF Heard, Wrote, Ready
<1>8. HelloInv(me2, box2, peer, open, count)
  <2> SUFFICES ASSUME NEW x \in Transports, NEW i \in DOMAIN box2[x], NEW p \in Participant,
                      IsHello(box2[x][i], p)
               PROVE  \E w \in 0..MaxWrites : /\ Numbers(box2[x], p, i, 0, w)
                                              /\ Heard(me2, box2, peer, open, count, x, p, w)
    BY DEF HelloInv
  <2>0. p # None
    BY SignalAssumption DEF Participant
  <2>1. x # t /\ box2[x] = box[x]
    BY <1>2, <1>4
  <2>2. PICK w \in 0..MaxWrites : /\ Numbers(box[x], p, i, 0, w)
                                  /\ Heard(me, box, peer, open, count, x, p, w)
    BY <1>1, <2>1 DEF HelloInv
  <2> QED  BY <1>7, <2>0, <2>1, <2>2
<1>9. PairInv(me2, box2, peer, open, count, data)
  <2> SUFFICES ASSUME NEW x \in Transports, Ready(me2, box2, x), open[x]
               PROVE  \E b, w \in 0..MaxWrites :
                        /\ b <= w /\ Given(data[x], peer[x], b)
                        /\ Numbers(box2[x], peer[x], 0, b, w)
                        /\ Heard(me2, box2, peer, open, count, x, peer[x], w)
    BY DEF PairInv
  <2>1. x # t /\ box2[x] = box[x] /\ peer[x] # None /\ Ready(me, box, x)
    BY <1>1, <1>4 DEF Ready, FlowTypes
  <2>2. PICK b \in 0..MaxWrites, w \in 0..MaxWrites :
          /\ b <= w /\ Given(data[x], peer[x], b)
          /\ Numbers(box[x], peer[x], 0, b, w)
          /\ Heard(me, box, peer, open, count, x, peer[x], w)
    BY <1>1, <2>1 DEF PairInv
  <2> QED  BY <1>7, <2>1, <2>2
<1> QED  BY <1>1, <1>3, <1>5, <1>6, <1>8, <1>9 DEF Flow

(* A websocket opens under a new name.                                     *)
LEMMA Opened ==
  ASSUME NEW me, NEW box, NEW peer, NEW open, NEW count, NEW data,
         Flow(me, box, peer, open, count, data), NEW t \in Transports,
         NEW p \in Participant, NEW n \in Notification, n.type = "connection",
         \A x \in Transports :
           me[x] # p /\ peer[x] # p /\ \A i \in DOMAIN box[x] : ~IsHello(box[x][i], p),
         me[t] = None,
         NEW me2, NEW box2,
         me2 = [me EXCEPT ![t] = p],
         box2 = [box EXCEPT ![t] = <<n>>]
  PROVE  Flow(me2, box2, peer, open, count, data)
<1>1. /\ FlowTypes(me, box, peer, open, count, data)
      /\ QueueInv(box) /\ NewInv(me, box, peer)
      /\ HelloInv(me, box, peer, open, count)
      /\ PairInv(me, box, peer, open, count, data)
      /\ GotInv(peer, open, data)
  BY DEF Flow
<1>2. /\ <<n>> \in Seq(Notification) /\ <<n>>[1] = n /\ Head(<<n>>) = n /\ <<n>> # << >>
      /\ \A i \in DOMAIN <<n>> : i = 1
      /\ ~(n.type \in MessageType) /\ \A q : ~IsHello(n, q)
  BY DEF MessageType, IsHello
<1>3. /\ me2[t] = p /\ p # None /\ box2[t] = <<n>> /\ Waits(box2[t])
      /\ \A u \in Transports \ {t} : me2[u] = me[u] /\ box2[u] = box[u]
  BY <1>1, <1>2, SignalAssumption DEF FlowTypes, Queues, Waits, Participant
<1>4. FlowTypes(me2, box2, peer, open, count, data)
  <2>1. me2 \in [Transports -> Participant \cup {None}] /\ box2 \in Queues
    BY <1>1, <1>2 DEF FlowTypes, Queues
  <2>2. \A x \in Transports : box2[x] # << >> => me2[x] # None
    BY <1>1, <1>3 DEF FlowTypes
  <2>3. \A x, u \in Transports : me2[x] # None /\ me2[x] = me2[u] => x = u
    BY <1>1, <1>3 DEF FlowTypes
  <2> QED  BY <1>1, <2>1, <2>2, <2>3 DEF FlowTypes
<1>5. QueueInv(box2)
  BY <1>1, <1>2, <1>3 DEF QueueInv
<1>6. NewInv(me2, box2, peer)
  BY <1>1, <1>2, <1>3 DEF NewInv
<1>7. ASSUME NEW x \in Transports \ {t}, NEW q, q # p, NEW w,
             Heard(me, box, peer, open, count, x, q, w)
      PROVE  Heard(me2, box2, peer, open, count, x, q, w)
  BY <1>3, <1>7 DEF Heard, Wrote, Ready
<1>8. HelloInv(me2, box2, peer, open, count)
  <2> SUFFICES ASSUME NEW x \in Transports, NEW i \in DOMAIN box2[x], NEW q \in Participant,
                      IsHello(box2[x][i], q)
               PROVE  \E w \in 0..MaxWrites : /\ Numbers(box2[x], q, i, 0, w)
                                              /\ Heard(me2, box2, peer, open, count, x, q, w)
    BY DEF HelloInv
  <2>1. x # t /\ box2[x] = box[x] /\ q # p
    BY <1>2, <1>3
  <2>2. PICK w \in 0..MaxWrites : /\ Numbers(box[x], q, i, 0, w)
                                  /\ Heard(me, box, peer, open, count, x, q, w)
    BY <1>1, <2>1 DEF HelloInv
  <2> QED  BY <1>7, <2>1, <2>2
<1>9. PairInv(me2, box2, peer, open, count, data)
  <2> SUFFICES ASSUME NEW x \in Transports, Ready(me2, box2, x), open[x]
               PROVE  \E b, w \in 0..MaxWrites :
                        /\ b <= w /\ Given(data[x], peer[x], b)
                        /\ Numbers(box2[x], peer[x], 0, b, w)
                        /\ Heard(me2, box2, peer, open, count, x, peer[x], w)
    BY DEF PairInv
  <2>1. x # t /\ box2[x] = box[x] /\ peer[x] # p /\ Ready(me, box, x)
    BY <1>1, <1>3 DEF Ready, FlowTypes
  <2>2. PICK b \in 0..MaxWrites, w \in 0..MaxWrites :
          /\ b <= w /\ Given(data[x], peer[x], b)
          /\ Numbers(box[x], peer[x], 0, b, w)
          /\ Heard(me, box, peer, open, count, x, peer[x], w)
    BY <1>1, <2>1 DEF PairInv
  <2> QED  BY <1>7, <2>1, <2>2
<1> QED  BY <1>1, <1>4, <1>5, <1>6, <1>8, <1>9 DEF Flow

(* What a notification added to some queues leaves as it was.              *)
LEMMA PostedParts ==
  ASSUME NEW queue \in Seq(Notification), NEW n \in Notification, n.type # "connection",
         NEW queue2, queue2 = queue \/ queue2 = Append(queue, n)
  PROVE  /\ queue2 \in Seq(Notification)
         /\ Waits(queue2) <=> Waits(queue)
         /\ \A i \in DOMAIN queue2 :
              \/ i \in DOMAIN queue /\ i \in 0..Len(queue) /\ queue2[i] = queue[i]
              \/ i \in Nat /\ i >= Len(queue2) /\ queue2[i] = n
         /\ \A i \in DOMAIN queue2 : i \in Nat
<1>1. CASE queue2 = queue
  BY <1>1
<1>2. CASE queue2 = Append(queue, n)
  <2>1. /\ Append(queue, n) \in Seq(Notification) /\ Len(Append(queue, n)) = Len(queue) + 1
        /\ \A i \in 1..Len(queue) : Append(queue, n)[i] = queue[i]
        /\ Append(queue, n)[Len(queue) + 1] = n
        /\ Append(queue, n) # << >> /\ Len(queue) \in Nat
        /\ queue # << >> => Head(Append(queue, n)) = Head(queue)
        /\ queue = << >> => Head(Append(queue, n)) = n
    BY AppendParts
  <2>2. Waits(Append(queue, n)) <=> Waits(queue)
    BY <2>1 DEF Waits
  <2>3. PICK longer : longer = Append(queue, n)
    OBVIOUS
  <2>4. /\ DOMAIN longer = (1..Len(queue)) \cup {Len(queue) + 1} /\ DOMAIN queue = 1..Len(queue)
        /\ Len(longer) = Len(queue) + 1
    BY <2>1, <2>3
  <2>5. \A i \in DOMAIN longer :
          \/ i \in DOMAIN queue /\ i \in 0..Len(queue) /\ longer[i] = queue[i]
          \/ i \in Nat /\ i >= Len(longer) /\ longer[i] = n
    BY <2>1, <2>3, <2>4
  <2>6. \A i \in DOMAIN longer : i \in Nat
    BY <2>1, <2>4
  <2> QED  BY <1>2, <2>1, <2>2, <2>3, <2>5, <2>6
<1> QED  BY <1>1, <1>2

(* A notification that is no buffer is added to queues.  A CONNECT or an   *)
(* ACCEPT comes from a transport that has written nothing yet.             *)
Adds(n, me, box, open, count, box2) ==
  /\ n \in Notification /\ n.type # "connection" /\ n.type # "BUFFER"
  /\ n.type \in MessageType =>
       \E t \in Transports : /\ Ready(me, box, t) /\ n.about = {me[t]}
                             /\ open[t] => count[t] = 0
  /\ box2 \in Queues
  /\ \A x \in Transports : box2[x] = box[x] \/ (me[x] # None /\ box2[x] = Append(box[x], n))

LEMMA NoticePosted ==
  ASSUME NEW me, NEW box, NEW peer, NEW open, NEW count, NEW data,
         Flow(me, box, peer, open, count, data),
         NEW n, NEW box2, Adds(n, me, box, open, count, box2)
  PROVE  Flow(me, box2, peer, open, count, data)
<1>0. /\ n \in Notification /\ n.type # "connection" /\ n.type # "BUFFER"
      /\ n.type \in MessageType =>
           \E t \in Transports : /\ Ready(me, box, t) /\ n.about = {me[t]}
                                 /\ open[t] => count[t] = 0
      /\ box2 \in Queues
      /\ \A x \in Transports :
           box2[x] = box[x] \/ (me[x] # None /\ box2[x] = Append(box[x], n))
  BY DEF Adds
<1>1. /\ FlowTypes(me, box, peer, open, count, data)
      /\ QueueInv(box) /\ NewInv(me, box, peer)
      /\ HelloInv(me, box, peer, open, count)
      /\ PairInv(me, box, peer, open, count, data)
      /\ GotInv(peer, open, data)
  BY DEF Flow
<1>2. \A x \in Transports :
        /\ box[x] \in Seq(Notification) /\ Len(box[x]) \in Nat
        /\ Waits(box2[x]) <=> Waits(box[x])
        /\ \A i \in DOMAIN box2[x] :
              \/ i \in DOMAIN box[x] /\ i \in 0..Len(box[x]) /\ box2[x][i] = box[x][i]
              \/ i \in Nat /\ i >= Len(box2[x]) /\ box2[x][i] = n
        /\ \A i \in DOMAIN box2[x] : i \in Nat
  <2> SUFFICES ASSUME NEW x \in Transports
               PROVE  /\ box[x] \in Seq(Notification) /\ Len(box[x]) \in Nat
                      /\ Waits(box2[x]) <=> Waits(box[x])
                      /\ \A i \in DOMAIN box2[x] :
                           \/ i \in DOMAIN box[x] /\ i \in 0..Len(box[x]) /\ box2[x][i] = box[x][i]
                           \/ i \in Nat /\ i >= Len(box2[x]) /\ box2[x][i] = n
                      /\ \A i \in DOMAIN box2[x] : i \in Nat
    OBVIOUS
  <2>1. box[x] \in Seq(Notification) /\ Len(box[x]) \in Nat
    BY <1>1 DEF FlowTypes, Queues
  <2>2. box2[x] = box[x] \/ box2[x] = Append(box[x], n)
    BY <1>0
  <2> QED  BY <1>0, <2>1, <2>2, PostedParts
<1>3. \A p : ~IsBuffer(n, p)
  BY <1>0 DEF IsBuffer
<1>4. ASSUME NEW x \in Transports, NEW p, NEW i \in 0..Len(box[x]), NEW b \in 0..MaxWrites,
             NEW w \in 0..MaxWrites, Numbers(box[x], p, i, b, w)
      PROVE  Numbers(box2[x], p, i, b, w)
  <2>1. b \in Nat /\ w \in Nat
    BY CallAssumption
  <2>2. Numbers(Append(box[x], n), p, i, b, w)
    BY <1>0, <1>2, <1>3, <1>4, <2>1, NumbersAppend
  <2> QED  BY <1>0, <1>4, <2>2
<1>5. \A x \in Transports : Ready(me, box2, x) <=> Ready(me, box, x)
  BY <1>2 DEF Ready
<1>6. \A x \in Transports : \A p, w :
        Heard(me, box, peer, open, count, x, p, w) => Heard(me, box2, peer, open, count, x, p, w)
  BY <1>5 DEF Heard, Wrote
<1>7. FlowTypes(me, box2, peer, open, count, data)
  BY <1>0, <1>1 DEF FlowTypes
<1>8. QueueInv(box2)
  <2>1. n.type \in MessageType => \E p \in Participant : n.about = {p}
    <3>1. \A t \in Transports : Ready(me, box, t) => me[t] \in Participant
      BY <1>1 DEF Ready, FlowTypes
    <3> QED  BY <1>0, <3>1
  <2> QED  BY <1>0, <1>1, <1>2, <2>1 DEF QueueInv
<1>9. \A p : IsHello(n, p) =>
        \E t \in Transports : me[t] = p /\ Ready(me, box, t) /\ (open[t] => count[t] = 0)
  BY <1>0 DEF IsHello, MessageType
<1>10. NewInv(me, box2, peer)
  <2> SUFFICES ASSUME NEW t \in Transports, NEW u \in Transports, me[u] # None, Waits(box2[u]),
                      NEW i \in DOMAIN box2[t], IsHello(box2[t][i], me[u])
               PROVE  FALSE
    BY <1>1, <1>2 DEF NewInv
  <2>1. Waits(box[u])
    BY <1>2
  <2>2. ~(i \in DOMAIN box[t] /\ box2[t][i] = box[t][i])
    BY <1>0, <1>1, <2>1 DEF NewInv
  <2>3. IsHello(n, me[u])
    BY <1>2, <2>2
  <2>4. PICK v \in Transports : me[v] = me[u] /\ Ready(me, box, v)
    BY <1>9, <2>3
  <2>5. v = u
    BY <1>1, <2>4 DEF FlowTypes
  <2> QED  BY <2>1, <2>4, <2>5 DEF Ready
<1>11. HelloInv(me, box2, peer, open, count)
  <2> SUFFICES ASSUME NEW x \in Transports, NEW i \in DOMAIN box2[x], NEW p \in Participant,
                      IsHello(box2[x][i], p)
               PROVE  \E w \in 0..MaxWrites : /\ Numbers(box2[x], p, i, 0, w)
                                              /\ Heard(me, box2, peer, open, count, x, p, w)
    BY DEF HelloInv
  <2>0. 0 \in 0..MaxWrites
    BY CallAssumption
  <2>1. CASE i \in DOMAIN box[x] /\ i \in 0..Len(box[x]) /\ box2[x][i] = box[x][i]
    <3>1. PICK w \in 0..MaxWrites : /\ Numbers(box[x], p, i, 0, w)
                                    /\ Heard(me, box, peer, open, count, x, p, w)
      BY <1>1, <2>1 DEF HelloInv
    <3> QED  BY <1>4, <1>6, <2>0, <2>1, <3>1
  <2>2. CASE i \in Nat /\ i >= Len(box2[x]) /\ box2[x][i] = n
    <3>1. PICK t \in Transports : me[t] = p /\ Ready(me, box, t) /\ (open[t] => count[t] = 0)
      BY <1>9, <2>2
    <3>2. \A u \in Transports : me[u] = p => u = t
      BY <1>1, <3>1 DEF FlowTypes, Ready
    <3>3. Heard(me, box2, peer, open, count, x, p, 0)
      BY <1>5, <3>1, <3>2 DEF Heard, Wrote
    <3>4. box2[x] \in Seq(Notification) /\ 0 \in Nat
      BY <1>0 DEF Queues
    <3>5. Numbers(box2[x], p, i, 0, 0)
      BY <2>2, <3>4, NumbersNone
    <3> QED  BY <2>0, <3>3, <3>5
  <2> QED  BY <1>2, <2>1, <2>2
<1>12. PairInv(me, box2, peer, open, count, data)
  <2> SUFFICES ASSUME NEW x \in Transports, Ready(me, box2, x), open[x]
               PROVE  \E b, w \in 0..MaxWrites :
                        /\ b <= w /\ Given(data[x], peer[x], b)
                        /\ Numbers(box2[x], peer[x], 0, b, w)
                        /\ Heard(me, box2, peer, open, count, x, peer[x], w)
    BY DEF PairInv
  <2>1. PICK b \in 0..MaxWrites, w \in 0..MaxWrites :
          /\ b <= w /\ Given(data[x], peer[x], b)
          /\ Numbers(box[x], peer[x], 0, b, w)
          /\ Heard(me, box, peer, open, count, x, peer[x], w)
    BY <1>1, <1>5 DEF PairInv
  <2>2. 0 \in 0..Len(box[x])
    BY <1>2
  <2> QED  BY <1>4, <1>6, <2>1, <2>2
<1> QED  BY <1>1, <1>7, <1>8, <1>10, <1>11, <1>12 DEF Flow

(* A buffer is written to a transport socket.                              *)
Writes(t, n, me, box, peer, open, count, box2, count2) ==
  /\ me[t] # None /\ open[t] /\ count[t] < MaxWrites
  /\ n \in Notification /\ IsBuffer(n, me[t]) /\ n.data[1] = count[t] + 1
  /\ count2 = [count EXCEPT ![t] = count[t] + 1] /\ box2 \in Queues
  /\ \A x \in Transports : box2[x] = IF me[x] = peer[t] THEN Append(box[x], n) ELSE box[x]

LEMMA BufferPosted ==
  ASSUME NEW me, NEW box, NEW peer, NEW open, NEW count, NEW data,
         Flow(me, box, peer, open, count, data),
         NEW t \in Transports, NEW n, NEW box2, NEW count2,
         Writes(t, n, me, box, peer, open, count, box2, count2)
  PROVE  Flow(me, box2, peer, open, count2, data)
<1>0. /\ me[t] # None /\ open[t] /\ count[t] < MaxWrites
      /\ n \in Notification /\ IsBuffer(n, me[t]) /\ n.data[1] = count[t] + 1
      /\ count2 = [count EXCEPT ![t] = count[t] + 1] /\ box2 \in Queues
      /\ \A x \in Transports : box2[x] = IF me[x] = peer[t] THEN Append(box[x], n) ELSE box[x]
  BY DEF Writes
<1>1. /\ FlowTypes(me, box, peer, open, count, data)
      /\ QueueInv(box) /\ NewInv(me, box, peer)
      /\ HelloInv(me, box, peer, open, count)
      /\ PairInv(me, box, peer, open, count, data)
      /\ GotInv(peer, open, data)
  BY DEF Flow
<1>2. \A x \in Transports :
        /\ box[x] \in Seq(Notification) /\ Len(box[x]) \in Nat
        /\ Waits(box2[x]) <=> Waits(box[x])
        /\ \A i \in DOMAIN box2[x] :
              \/ i \in DOMAIN box[x] /\ i \in 0..Len(box[x]) /\ box2[x][i] = box[x][i]
              \/ i \in Nat /\ i >= Len(box2[x]) /\ box2[x][i] = n
        /\ \A i \in DOMAIN box2[x] : i \in Nat
  <2> SUFFICES ASSUME NEW x \in Transports
               PROVE  /\ box[x] \in Seq(Notification) /\ Len(box[x]) \in Nat
                      /\ Waits(box2[x]) <=> Waits(box[x])
                      /\ \A i \in DOMAIN box2[x] :
                           \/ i \in DOMAIN box[x] /\ i \in 0..Len(box[x]) /\ box2[x][i] = box[x][i]
                           \/ i \in Nat /\ i >= Len(box2[x]) /\ box2[x][i] = n
                      /\ \A i \in DOMAIN box2[x] : i \in Nat
    OBVIOUS
  <2>1. box[x] \in Seq(Notification) /\ Len(box[x]) \in Nat
    BY <1>1 DEF FlowTypes, Queues
  <2>2. box2[x] = box[x] \/ box2[x] = Append(box[x], n)
    BY <1>0
  <2>3. n.type # "connection"
    BY <1>0 DEF IsBuffer
  <2> QED  BY <1>0, <2>1, <2>2, <2>3, PostedParts
<1>3. /\ me[t] \in Participant /\ peer[t] # None /\ count[t] \in 0..MaxWrites
      /\ count[t] + 1 \in 0..MaxWrites
  BY <1>0, <1>1, CallAssumption DEF FlowTypes
<1>4. \A x \in Transports : box2[x] # << >> => me[x] # None
  BY <1>0, <1>1, <1>3 DEF FlowTypes
<1>5. FlowTypes(me, box2, peer, open, count2, data)
  BY <1>0, <1>1, <1>3, <1>4 DEF FlowTypes
<1>6. /\ count2[t] = count[t] + 1
      /\ \A u \in Transports \ {t} : count2[u] = count[u]
  BY <1>0, <1>1 DEF FlowTypes
<1>7. \A p : ~IsHello(n, p)
  BY <1>0 DEF IsBuffer, IsHello
<1>8. QueueInv(box2)
  <2> SUFFICES ASSUME NEW x \in Transports, NEW i \in DOMAIN box2[x]
               PROVE  /\ box2[x][i].type = "connection" => i = 1
                      /\ box2[x][i].type \in MessageType =>
                           \E p \in Participant : box2[x][i].about = {p}
    BY DEF QueueInv
  <2>1. CASE i \in DOMAIN box[x] /\ box2[x][i] = box[x][i]
    BY <1>1, <2>1 DEF QueueInv
  <2>2. CASE box2[x][i] = n
    <3>1. n.type = "BUFFER" /\ n.about = {me[t]}
      BY <1>0 DEF IsBuffer
    <3> QED  BY <1>3, <2>2, <3>1
  <2> QED  BY <1>2, <2>1, <2>2
<1>9. NewInv(me, box2, peer)
  BY <1>1, <1>2, <1>7 DEF NewInv
<1>10. \A x \in Transports : Ready(me, box2, x) <=> Ready(me, box, x)
  BY <1>2 DEF Ready
<1>11. \A u \in Transports : me[u] = me[t] => u = t
  BY <1>0, <1>1 DEF FlowTypes
(* Whoever reads buffers of t counts them.                                 *)
<1>12. ASSUME NEW x \in Transports, NEW p, p # me[t] \/ Ready(me, box, t),
              NEW i \in 0..Len(box[x]),
              NEW b \in 0..MaxWrites, NEW w \in 0..MaxWrites, b <= w,
              Numbers(box[x], p, i, b, w), Heard(me, box, peer, open, count, x, p, w)
       PROVE  \E v \in 0..MaxWrites : /\ b <= v /\ Numbers(box2[x], p, i, b, v)
                                      /\ Heard(me, box2, peer, open, count2, x, p, v)
  <2>0. b \in Nat /\ w \in Nat
    BY CallAssumption
  <2>1. CASE p # me[t]
    <3>1. ~IsBuffer(n, p)
      BY <1>0, <1>3, <2>1 DEF IsBuffer
    <3>2. Numbers(Append(box[x], n), p, i, b, w)
      BY <1>0, <1>2, <1>12, <2>0, <3>1, NumbersAppend
    <3>3. Numbers(box2[x], p, i, b, w)
      BY <1>0, <1>12, <3>2
    <3>4. Heard(me, box2, peer, open, count2, x, p, w)
      BY <1>6, <1>10, <1>12, <2>1 DEF Heard, Wrote
    <3> QED  BY <1>12, <3>3, <3>4
  <2>2. CASE p = me[t] /\ me[x] # peer[t]
    <3>1. box2[x] = box[x]
      BY <1>0, <2>2
    <3>2. w = 0
      BY <1>12, <2>2 DEF Heard, Wrote
    <3>3. Heard(me, box2, peer, open, count2, x, p, w)
      BY <1>11, <2>2, <3>2 DEF Heard, Wrote
    <3> QED  BY <1>12, <3>1, <3>3
  <2>3. CASE p = me[t] /\ me[x] = peer[t]
    <3>1. Ready(me, box, t) /\ count[t] = w
      BY <1>0, <1>12, <2>3 DEF Heard, Wrote
    <3>2. Numbers(Append(box[x], n), p, i, b, w + 1)
      BY <1>0, <1>2, <1>12, <2>0, <2>3, <3>1, NumbersAppend
    <3>3. Heard(me, box2, peer, open, count2, x, p, w + 1)
      BY <1>6, <1>10, <1>11, <2>3, <3>1 DEF Heard, Wrote
    <3>4. box2[x] = Append(box[x], n)
      BY <1>0, <2>3
    <3>5. w + 1 \in 0..MaxWrites /\ b <= w + 1
      BY <1>0, <1>3, <1>12, <2>0, <3>1
    <3>6. PICK longer : longer = Append(box[x], n)
      OBVIOUS
    <3> QED  BY <3>2, <3>3, <3>4, <3>5, <3>6
  <2> QED  BY <2>1, <2>2, <2>3
<1>13. HelloInv(me, box2, peer, open, count2)
  <2> SUFFICES ASSUME NEW x \in Transports, NEW i \in DOMAIN box2[x], NEW p \in Participant,
                      IsHello(box2[x][i], p)
               PROVE  \E w \in 0..MaxWrites : /\ Numbers(box2[x], p, i, 0, w)
                                              /\ Heard(me, box2, peer, open, count2, x, p, w)
    BY DEF HelloInv
  <2>1. i \in DOMAIN box[x] /\ i \in 0..Len(box[x]) /\ box2[x][i] = box[x][i]
    BY <1>2, <1>7
  <2>2. PICK w \in 0..MaxWrites : /\ Numbers(box[x], p, i, 0, w)
                                  /\ Heard(me, box, peer, open, count, x, p, w)
    BY <1>1, <2>1 DEF HelloInv
  <2>3. p # me[t] \/ Ready(me, box, t)
    BY <1>0, <1>1, <2>1 DEF NewInv, Ready
  <2>4. 0 \in 0..MaxWrites /\ 0 <= w
    BY CallAssumption
  <2> QED  BY <1>12, <2>1, <2>2, <2>3, <2>4
<1>14. PairInv(me, box2, peer, open, count2, data)
  <2> SUFFICES ASSUME NEW x \in Transports, Ready(me, box2, x), open[x]
               PROVE  \E b, w \in 0..MaxWrites :
                        /\ b <= w /\ Given(data[x], peer[x], b)
                        /\ Numbers(box2[x], peer[x], 0, b, w)
                        /\ Heard(me, box2, peer, open, count2, x, peer[x], w)
    BY DEF PairInv
  <2>1. PICK b \in 0..MaxWrites, w \in 0..MaxWrites :
          /\ b <= w /\ Given(data[x], peer[x], b)
          /\ Numbers(box[x], peer[x], 0, b, w)
          /\ Heard(me, box, peer, open, count, x, peer[x], w)
    BY <1>1, <1>10 DEF PairInv
  <2>2. 0 \in 0..Len(box[x])
    BY <1>2
  <2>3. peer[x] # me[t] \/ Ready(me, box, t)
    BY <1>0, <1>1 DEF NewInv, Ready
  <2>4. PICK v \in 0..MaxWrites : /\ b <= v /\ Numbers(box2[x], peer[x], 0, b, v)
                                  /\ Heard(me, box2, peer, open, count2, x, peer[x], v)
    BY <1>12, <2>1, <2>2, <2>3
  <2> QED  BY <2>1, <2>4
<1> QED  BY <1>1, <1>5, <1>8, <1>9, <1>13, <1>14 DEF Flow

(* t reads its next notification, and the values with a 2 are the new      *)
(* ones: what it has written stays as it was, as far as anybody knows t,   *)
(* and with a transport socket it has what it needs.                       *)
Reads(t, me, box, peer, open, count, data, box2, peer2, open2, count2, data2) ==
  /\ box[t] # << >> /\ box2 = [box EXCEPT ![t] = Tail(box[t])]
  /\ \A x \in Transports \ {t} :
       /\ peer2[x] = peer[x] /\ open2[x] = open[x]
       /\ count2[x] = count[x] /\ data2[x] = data[x]
  /\ \A x \in Transports : \A w :
       me[x] # None /\ Ready(me, box2, t) /\ Wrote(me, box, peer, open, count, t, x, w) =>
         Wrote(me, box2, peer2, open2, count2, t, x, w)
  /\ \A u \in Transports \ {t} : me[u] # None /\ Waits(box[u]) => peer2[t] # me[u]
  /\ open2[t] => \E b, w \in 0..MaxWrites :
                   /\ b <= w /\ Given(data2[t], peer2[t], b)
                   /\ Numbers(box2[t], peer2[t], 0, b, w)
                   /\ Heard(me, box, peer, open, count, t, peer2[t], w)

LEMMA NoticeRead ==
  ASSUME NEW me, NEW box, NEW peer, NEW open, NEW count, NEW data,
         NEW box2, NEW peer2, NEW open2, NEW count2, NEW data2,
         Flow(me, box, peer, open, count, data),
         FlowTypes(me, box2, peer2, open2, count2, data2),
         NEW t \in Transports,
         Reads(t, me, box, peer, open, count, data, box2, peer2, open2, count2, data2)
  PROVE  Flow(me, box2, peer2, open2, count2, data2)
<1>a. /\ box[t] # << >> /\ box2 = [box EXCEPT ![t] = Tail(box[t])]
      /\ \A x \in Transports \ {t} :
           /\ peer2[x] = peer[x] /\ open2[x] = open[x]
           /\ count2[x] = count[x] /\ data2[x] = data[x]
      /\ \A x \in Transports : \A w :
           me[x] # None /\ Ready(me, box2, t) /\ Wrote(me, box, peer, open, count, t, x, w) =>
             Wrote(me, box2, peer2, open2, count2, t, x, w)
      /\ \A u \in Transports \ {t} : me[u] # None /\ Waits(box[u]) => peer2[t] # me[u]
  BY DEF Reads
<1>1. /\ FlowTypes(me, box, peer, open, count, data)
      /\ QueueInv(box) /\ NewInv(me, box, peer)
      /\ HelloInv(me, box, peer, open, count)
      /\ PairInv(me, box, peer, open, count, data)
      /\ GotInv(peer, open, data)
  BY DEF Flow
<1>2. /\ box[t] \in Seq(Notification) /\ me[t] # None
      /\ box2[t] = Tail(box[t])
      /\ \A x \in Transports \ {t} : box2[x] = box[x]
  BY <1>a, <1>1 DEF FlowTypes, Queues
<1>3. PICK rest : rest = Tail(box[t])
  OBVIOUS
<1>4. /\ rest \in Seq(Notification) /\ Len(rest) + 1 = Len(box[t]) /\ Len(rest) \in Nat
      /\ \A i \in 1..Len(rest) : rest[i] = box[t][i + 1]
      /\ rest # << >> => Head(rest) = box[t][2] /\ 2 \in 1..Len(box[t])
      /\ DOMAIN rest = 1..Len(rest) /\ DOMAIN box[t] = 1..Len(box[t])
  BY <1>a, <1>2, <1>3, TailParts
<1>5. \A i \in DOMAIN rest :
        i + 1 \in DOMAIN box[t] /\ i + 1 # 1 /\ i \in Nat /\ rest[i] = box[t][i + 1]
  BY <1>4
<1>6. ~Waits(rest)
  BY <1>1, <1>4 DEF Waits, QueueInv
<1>7. \A x \in Transports : Ready(me, box, x) => Ready(me, box2, x)
  BY <1>2, <1>3, <1>6 DEF Ready
<1>8. \A x \in Transports \ {t} : Ready(me, box2, x) <=> Ready(me, box, x)
  BY <1>2 DEF Ready
<1>0. Ready(me, box2, t)
  BY <1>2, <1>3, <1>6 DEF Ready
<1>9. ASSUME NEW x \in Transports, me[x] # None, NEW p, NEW w,
             Heard(me, box, peer, open, count, x, p, w)
      PROVE  Heard(me, box2, peer2, open2, count2, x, p, w)
  <2> SUFFICES ASSUME NEW u \in Transports, me[u] = p
               PROVE  Wrote(me, box2, peer2, open2, count2, u, x, w)
    BY DEF Heard
  <2>1. Wrote(me, box, peer, open, count, u, x, w)
    BY <1>9 DEF Heard
  <2>2. CASE u = t
    BY <1>a, <1>0, <1>9, <2>1, <2>2
  <2>3. CASE u # t
    BY <1>a, <1>8, <2>1, <2>3 DEF Wrote
  <2> QED  BY <2>2, <2>3
<1>10. QueueInv(box2)
  <2> SUFFICES ASSUME NEW x \in Transports, NEW i \in DOMAIN box2[x]
               PROVE  /\ box2[x][i].type = "connection" => i = 1
                      /\ box2[x][i].type \in MessageType =>
                           \E p \in Participant : box2[x][i].about = {p}
    BY DEF QueueInv
  <2>1. CASE x = t
    <3>1. i \in DOMAIN rest /\ box2[x][i] = rest[i]
      BY <1>2, <1>3, <2>1
    <3>2. i + 1 \in DOMAIN box[t] /\ i + 1 # 1 /\ box2[x][i] = box[t][i + 1]
      BY <1>5, <3>1
    <3> QED  BY <1>1, <3>2 DEF QueueInv
  <2>2. CASE x # t
    BY <1>1, <1>2, <2>2 DEF QueueInv
  <2> QED  BY <2>1, <2>2
<1>11. NewInv(me, box2, peer2)
  <2> SUFFICES ASSUME NEW x \in Transports, NEW u \in Transports, me[u] # None, Waits(box2[u])
               PROVE  /\ peer2[x] # me[u]
                      /\ \A i \in DOMAIN box2[x] : ~IsHello(box2[x][i], me[u])
    BY DEF NewInv
  <2>1. u # t /\ Waits(box[u])
    BY <1>2, <1>3, <1>6
  <2>2. CASE x = t
    <3>1. peer2[x] # me[u]
      BY <1>a, <2>1, <2>2
    <3>2. ASSUME NEW i \in DOMAIN box2[x] PROVE ~IsHello(box2[x][i], me[u])
      <4>1. i \in DOMAIN rest /\ box2[x][i] = rest[i]
        BY <1>2, <1>3, <2>2, <3>2
      <4>2. i + 1 \in DOMAIN box[t] /\ box2[x][i] = box[t][i + 1]
        BY <1>5, <4>1
      <4> QED  BY <1>1, <2>1, <4>2 DEF NewInv
    <3> QED  BY <3>1, <3>2
  <2>3. CASE x # t
    BY <1>a, <1>1, <1>2, <2>1, <2>3 DEF NewInv
  <2> QED  BY <2>2, <2>3
<1>12. HelloInv(me, box2, peer2, open2, count2)
  <2> SUFFICES ASSUME NEW x \in Transports, NEW i \in DOMAIN box2[x], NEW p \in Participant,
                      IsHello(box2[x][i], p)
               PROVE  \E w \in 0..MaxWrites : /\ Numbers(box2[x], p, i, 0, w)
                                              /\ Heard(me, box2, peer2, open2, count2, x, p, w)
    BY DEF HelloInv
  <2>1. CASE x = t
    <3>1. i \in DOMAIN rest /\ box2[x][i] = rest[i]
      BY <1>2, <1>3, <2>1
    <3>2. i + 1 \in DOMAIN box[t] /\ i \in Nat /\ box2[x][i] = box[t][i + 1]
      BY <1>5, <3>1
    <3>3. PICK w \in 0..MaxWrites : /\ Numbers(box[t], p, i + 1, 0, w)
                                    /\ Heard(me, box, peer, open, count, t, p, w)
      BY <1>1, <3>2 DEF HelloInv
    <3>4. w \in Nat /\ 0 \in Nat
      BY CallAssumption
    <3>5. Numbers(Tail(box[t]), p, i, 0, w)
      BY <1>2, <3>2, <3>3, <3>4, NumbersTail
    <3>6. Heard(me, box2, peer2, open2, count2, t, p, w)
      BY <1>2, <1>9, <3>3
    <3> QED  BY <1>2, <2>1, <3>5, <3>6
  <2>2. CASE x # t
    <3>1. box2[x] = box[x] /\ me[x] # None
      BY <1>1, <1>2, <2>2 DEF FlowTypes
    <3>2. PICK w \in 0..MaxWrites : /\ Numbers(box[x], p, i, 0, w)
                                    /\ Heard(me, box, peer, open, count, x, p, w)
      BY <1>1, <3>1 DEF HelloInv
    <3> QED  BY <1>9, <3>1, <3>2
  <2> QED  BY <2>1, <2>2
<1>13. PairInv(me, box2, peer2, open2, count2, data2)
  <2> SUFFICES ASSUME NEW x \in Transports, Ready(me, box2, x), open2[x]
               PROVE  \E b, w \in 0..MaxWrites :
                        /\ b <= w /\ Given(data2[x], peer2[x], b)
                        /\ Numbers(box2[x], peer2[x], 0, b, w)
                        /\ Heard(me, box2, peer2, open2, count2, x, peer2[x], w)
    BY DEF PairInv
  <2>0. me[x] # None
    BY DEF Ready
  <2>1. CASE x = t
    <3>1. PICK b \in 0..MaxWrites, w \in 0..MaxWrites :
            /\ b <= w /\ Given(data2[t], peer2[t], b)
            /\ Numbers(box2[t], peer2[t], 0, b, w)
            /\ Heard(me, box, peer, open, count, t, peer2[t], w)
      BY <2>1 DEF Reads
    <3> QED  BY <1>9, <2>0, <2>1, <3>1
  <2>2. CASE x # t
    <3>1. Ready(me, box, x) /\ open[x]
      BY <1>a, <1>8, <2>2
    <3>2. PICK b \in 0..MaxWrites, w \in 0..MaxWrites :
            /\ b <= w /\ Given(data[x], peer[x], b)
            /\ Numbers(box[x], peer[x], 0, b, w)
            /\ Heard(me, box, peer, open, count, x, peer[x], w)
      BY <1>1, <3>1 DEF PairInv
    <3>3. Heard(me, box2, peer2, open2, count2, x, peer[x], w)
      BY <1>9, <2>0, <3>2
    <3>4. peer2[x] = peer[x] /\ data2[x] = data[x] /\ box2[x] = box[x]
      BY <1>a, <1>2, <2>2
    <3> QED  BY <3>2, <3>3, <3>4
  <2> QED  BY <2>1, <2>2
<1>14. GotInv(peer2, open2, data2)
  BY <1>a, <1>1 DEF GotInv, Reads
<1> QED  BY <1>10, <1>11, <1>12, <1>13, <1>14 DEF Flow

LEMMA TypesRead ==
  ASSUME NEW me, NEW box, NEW peer, NEW open, NEW count, NEW data,
         FlowTypes(me, box, peer, open, count, data),
         NEW t \in Transports, box[t] # << >>,
         NEW box2, box2 = [box EXCEPT ![t] = Tail(box[t])]
  PROVE  FlowTypes(me, box2, peer, open, count, data)
<1>1. box[t] \in Seq(Notification)
  BY DEF FlowTypes, Queues
<1>2. Tail(box[t]) \in Seq(Notification)
  BY <1>1
<1>3. box2 \in Queues
  BY <1>2 DEF FlowTypes, Queues
<1>4. \A x \in Transports : box2[x] # << >> => box[x] # << >>
  BY DEF FlowTypes, Queues
<1> QED  BY <1>3, <1>4 DEF FlowTypes

(* It changes no more than who else is in the call, or nothing.            *)
LEMMA NoticeIgnored ==
  ASSUME NEW me, NEW box, NEW peer, NEW open, NEW count, NEW data,
         Flow(me, box, peer, open, count, data),
         NEW t \in Transports, box[t] # << >>,
         Head(box[t]).type # "connection", Head(box[t]).type = "BUFFER" => ~open[t],
         NEW box2, box2 = [box EXCEPT ![t] = Tail(box[t])]
  PROVE  Flow(me, box2, peer, open, count, data)
<1>1. /\ FlowTypes(me, box, peer, open, count, data)
      /\ QueueInv(box) /\ NewInv(me, box, peer)
      /\ PairInv(me, box, peer, open, count, data)
  BY DEF Flow
<1>2. FlowTypes(me, box2, peer, open, count, data)
  BY <1>1, TypesRead
<1>3. Ready(me, box, t) /\ me[t] # None /\ box[t] \in Seq(Notification) /\ box2[t] = Tail(box[t])
  BY <1>1 DEF FlowTypes, Queues, Ready, Waits
<1>4. \A x \in Transports : \A w :
        me[x] # None /\ Ready(me, box2, t) /\ Wrote(me, box, peer, open, count, t, x, w) =>
          Wrote(me, box2, peer, open, count, t, x, w)
  BY <1>3 DEF Wrote
<1>5. \A u \in Transports \ {t} : me[u] # None /\ Waits(box[u]) => peer[t] # me[u]
  BY <1>1 DEF NewInv
<1>6. ASSUME open[t]
      PROVE  \E b, w \in 0..MaxWrites :
               /\ b <= w /\ Given(data[t], peer[t], b)
               /\ Numbers(box2[t], peer[t], 0, b, w)
               /\ Heard(me, box, peer, open, count, t, peer[t], w)
  <2>1. PICK b \in 0..MaxWrites, w \in 0..MaxWrites :
          /\ b <= w /\ Given(data[t], peer[t], b)
          /\ Numbers(box[t], peer[t], 0, b, w)
          /\ Heard(me, box, peer, open, count, t, peer[t], w)
    BY <1>1, <1>3, <1>6 DEF PairInv
  <2>2. ~IsBuffer(Head(box[t]), peer[t]) /\ b \in Nat /\ w \in Nat
    BY <1>6, CallAssumption DEF IsBuffer
  <2>3. Numbers(Tail(box[t]), peer[t], 0, b, w)
    BY <1>3, <2>1, <2>2, NumbersHead
  <2> QED  BY <1>3, <2>1, <2>3
<1>7. Reads(t, me, box, peer, open, count, data, box2, peer, open, count, data)
  BY <1>4, <1>5, <1>6 DEF Reads
<1> QED  BY <1>2, <1>7, NoticeRead

(* It pushes a buffer to the transport socket.                             *)
LEMMA BufferRead ==
  ASSUME NEW me, NEW box, NEW peer, NEW open, NEW count, NEW data,
         Flow(me, box, peer, open, count, data),
         NEW t \in Transports, box[t] # << >>, NEW p \in Participant,
         IsBuffer(Head(box[t]), p), open[t],
         NEW box2, box2 = [box EXCEPT ![t] = Tail(box[t])],
         NEW data2,
         data2 = [data EXCEPT ![t] = Append(data[t], <<p, Head(box[t]).data[1]>>)]
  PROVE  Flow(me, box2, peer, open, count, data2)
<1>1. /\ FlowTypes(me, box, peer, open, count, data)
      /\ QueueInv(box) /\ NewInv(me, box, peer)
      /\ PairInv(me, box, peer, open, count, data)
  BY DEF Flow
<1>2. Head(box[t]).type # "connection"
  BY DEF IsBuffer
<1>3. /\ Ready(me, box, t) /\ me[t] # None /\ box[t] \in Seq(Notification)
      /\ box2[t] = Tail(box[t]) /\ data[t] \in Seq(Participant \X Nat)
  BY <1>1, <1>2 DEF FlowTypes, Queues, Ready, Waits
<1>4. PICK e \in Participant \X Nat : e = <<p, Head(box[t]).data[1]>>
  <2>1. Head(box[t]) \in Notification
    BY <1>3
  <2> QED  BY <2>1, NumberType
<1>5. FlowTypes(me, box2, peer, open, count, data2)
  <2>1. FlowTypes(me, box2, peer, open, count, data)
    BY <1>1, TypesRead
  <2>2. Append(data[t], e) \in Seq(Participant \X Nat)
    BY <1>3, <1>4
  <2>3. data2 \in [Transports -> Seq(Participant \X Nat)]
    BY <1>1, <1>4, <2>2 DEF FlowTypes
  <2> QED  BY <2>1, <2>3 DEF FlowTypes
<1>6. /\ data2[t] = Append(data[t], e)
      /\ \A x \in Transports \ {t} : data2[x] = data[x]
  BY <1>1, <1>4 DEF FlowTypes
<1>7. \A x \in Transports : \A w :
        me[x] # None /\ Ready(me, box2, t) /\ Wrote(me, box, peer, open, count, t, x, w) =>
          Wrote(me, box2, peer, open, count, t, x, w)
  BY <1>3 DEF Wrote
<1>8. \A u \in Transports \ {t} : me[u] # None /\ Waits(box[u]) => peer[t] # me[u]
  BY <1>1 DEF NewInv
<1>9. \E b, w \in 0..MaxWrites :
        /\ b <= w /\ Given(data2[t], peer[t], b)
        /\ Numbers(box2[t], peer[t], 0, b, w)
        /\ Heard(me, box, peer, open, count, t, peer[t], w)
  <2>1. PICK b \in 0..MaxWrites, w \in 0..MaxWrites :
          /\ b <= w /\ Given(data[t], peer[t], b)
          /\ Numbers(box[t], peer[t], 0, b, w)
          /\ Heard(me, box, peer, open, count, t, peer[t], w)
    BY <1>1, <1>3 DEF PairInv
  <2>2. b \in Nat /\ w \in Nat /\ MaxWrites \in Nat
    BY CallAssumption
  <2>3. CASE p = peer[t]
    <3>1. /\ b < w /\ Head(box[t]).data[1] = b + 1
          /\ Numbers(Tail(box[t]), peer[t], 0, b + 1, w)
      BY <1>3, <2>1, <2>2, <2>3, NumbersHead
    <3>2. Given(Append(data[t], e), peer[t], b + 1)
      BY <1>3, <1>4, <2>1, <2>2, <2>3, <3>1, GivenAppend
    <3>3. b + 1 \in 0..MaxWrites /\ b + 1 <= w
      BY <2>2, <3>1
    <3> QED  BY <1>3, <1>6, <2>1, <3>1, <3>2, <3>3
  <2>4. CASE p # peer[t]
    <3>1. ~IsBuffer(Head(box[t]), peer[t])
      BY <2>4 DEF IsBuffer
    <3>2. Numbers(Tail(box[t]), peer[t], 0, b, w)
      BY <1>3, <2>1, <2>2, <3>1, NumbersHead
    <3>3. Given(Append(data[t], e), peer[t], b)
      BY <1>3, <1>4, <2>1, <2>2, <2>4, GivenAppend
    <3> QED  BY <1>3, <1>6, <2>1, <3>2, <3>3
  <2> QED  BY <2>3, <2>4
<1>10. Reads(t, me, box, peer, open, count, data, box2, peer, open, count, data2)
  BY <1>6, <1>7, <1>8, <1>9 DEF Reads
<1> QED  BY <1>5, <1>10, NoticeRead

(* It has no opponent any more: nobody knew it, or the opponent has gone.  *)
LEMMA ConnectingRead ==
  ASSUME NEW me, NEW box, NEW peer, NEW open, NEW count, NEW data,
         Flow(me, box, peer, open, count, data),
         NEW t \in Transports, box[t] # << >>,
         \/ Head(box[t]).type = "connection"
         \/ \A x \in Transports : me[x] # None => peer[t] # me[x],
         NEW box2, box2 = [box EXCEPT ![t] = Tail(box[t])],
         NEW peer2, NEW open2, NEW count2, NEW data2,
         peer2 = [peer EXCEPT ![t] = None],
         open2 = [open EXCEPT ![t] = FALSE],
         count2 = [count EXCEPT ![t] = 0],
         data2 = [data EXCEPT ![t] = << >>]
  PROVE  Flow(me, box2, peer2, open2, count2, data2)
<1>1. FlowTypes(me, box, peer, open, count, data) /\ NewInv(me, box, peer)
  BY DEF Flow
<1>2. << >> \in Seq(Participant \X Nat) /\ 0 \in 0..MaxWrites
  BY EmptySeq, CallAssumption
<1>3. FlowTypes(me, box2, peer, open, count, data)
  BY <1>1, TypesRead
<1>4. /\ peer2[t] = None /\ open2[t] = FALSE
      /\ \A x \in Transports \ {t} :
           /\ peer2[x] = peer[x] /\ open2[x] = open[x]
           /\ count2[x] = count[x] /\ data2[x] = data[x]
  BY <1>1 DEF FlowTypes
<1>5. FlowTypes(me, box2, peer2, open2, count2, data2)
  <2>1. \A x \in Transports : open2[x] => peer2[x] # None
    BY <1>1, <1>4 DEF FlowTypes
  <2>2. /\ peer2 \in [Transports -> Participant \cup {None}]
        /\ open2 \in [Transports -> BOOLEAN]
        /\ count2 \in [Transports -> 0..MaxWrites]
        /\ data2 \in [Transports -> Seq(Participant \X Nat)]
    BY <1>1, <1>2 DEF FlowTypes
  <2> QED  BY <1>3, <2>1, <2>2 DEF FlowTypes
<1>6. \A x \in Transports : me[x] # None => ~(Ready(me, box, t) /\ peer[t] = me[x])
  BY DEF Ready, Waits
<1>7. \A x \in Transports : \A w :
        me[x] # None /\ Ready(me, box2, t) /\ Wrote(me, box, peer, open, count, t, x, w) =>
          Wrote(me, box2, peer2, open2, count2, t, x, w)
  BY <1>4, <1>6 DEF Wrote
<1>8. Reads(t, me, box, peer, open, count, data, box2, peer2, open2, count2, data2)
  BY <1>4, <1>7 DEF Reads
<1> QED  BY <1>5, <1>8, NoticeRead

(* It has found an opponent.                                               *)
LEMMA ConnectedRead ==
  ASSUME NEW me, NEW box, NEW peer, NEW open, NEW count, NEW data,
         Flow(me, box, peer, open, count, data),
         NEW t \in Transports, box[t] # << >>, NEW p \in Participant,
         IsHello(Head(box[t]), p), peer[t] = None,
         NEW box2, box2 = [box EXCEPT ![t] = Tail(box[t])],
         NEW peer2, NEW open2, NEW count2, NEW data2,
         peer2 = [peer EXCEPT ![t] = p],
         open2 = [open EXCEPT ![t] = TRUE],
         count2 = [count EXCEPT ![t] = 0],
         data2 = [data EXCEPT ![t] = << >>]
  PROVE  Flow(me, box2, peer2, open2, count2, data2)
<1>1. /\ FlowTypes(me, box, peer, open, count, data) /\ NewInv(me, box, peer)
      /\ HelloInv(me, box, peer, open, count)
  BY DEF Flow
<1>2. /\ << >> \in Seq(Participant \X Nat) /\ 0 \in 0..MaxWrites /\ MaxWrites \in Nat
  BY EmptySeq, CallAssumption
<1>3. FlowTypes(me, box2, peer, open, count, data)
  BY <1>1, TypesRead
<1>4. /\ peer2[t] = p /\ open2[t] = TRUE /\ count2[t] = 0 /\ data2[t] = << >>
      /\ \A x \in Transports \ {t} :
           /\ peer2[x] = peer[x] /\ open2[x] = open[x]
           /\ count2[x] = count[x] /\ data2[x] = data[x]
  BY <1>1 DEF FlowTypes
<1>5. p # None
  BY SignalAssumption DEF Participant
<1>6. FlowTypes(me, box2, peer2, open2, count2, data2)
  <2>1. \A x \in Transports : open2[x] => peer2[x] # None
    BY <1>1, <1>4, <1>5 DEF FlowTypes
  <2>2. /\ peer2 \in [Transports -> Participant \cup {None}]
        /\ open2 \in [Transports -> BOOLEAN]
        /\ count2 \in [Transports -> 0..MaxWrites]
        /\ data2 \in [Transports -> Seq(Participant \X Nat)]
    BY <1>1, <1>2 DEF FlowTypes
  <2> QED  BY <1>3, <2>1, <2>2 DEF FlowTypes
<1>7. \A x \in Transports : \A w :
        me[x] # None /\ Ready(me, box2, t) /\ Wrote(me, box, peer, open, count, t, x, w) =>
          Wrote(me, box2, peer2, open2, count2, t, x, w)
  BY <1>4 DEF Wrote
<1>8. /\ box[t] \in Seq(Notification) /\ box2[t] = Tail(box[t])
      /\ 1 \in DOMAIN box[t] /\ Head(box[t]) = box[t][1]
  BY <1>1 DEF FlowTypes, Queues
<1>9. \A u \in Transports \ {t} : me[u] # None /\ Waits(box[u]) => peer2[t] # me[u]
  BY <1>1, <1>4, <1>8 DEF NewInv
<1>10. \E b, w \in 0..MaxWrites :
         /\ b <= w /\ Given(data2[t], peer2[t], b)
         /\ Numbers(box2[t], peer2[t], 0, b, w)
         /\ Heard(me, box, peer, open, count, t, peer2[t], w)
  <2>1. PICK w \in 0..MaxWrites : /\ Numbers(box[t], p, 0 + 1, 0, w)
                                  /\ Heard(me, box, peer, open, count, t, p, w)
    BY <1>1, <1>8 DEF HelloInv
  <2>2. 0 \in Nat /\ w \in Nat /\ 0 <= w
    BY <1>2
  <2>3. Numbers(Tail(box[t]), p, 0, 0, w)
    BY <1>8, <2>1, <2>2, NumbersTail
  <2>4. Given(<< >>, p, 0)
    BY DEF Given
  <2> QED  BY <1>2, <1>4, <1>8, <2>1, <2>2, <2>3, <2>4
<1>11. Reads(t, me, box, peer, open, count, data, box2, peer2, open2, count2, data2)
  BY <1>4, <1>7, <1>9, <1>10 DEF Reads
<1> QED  BY <1>6, <1>11, NoticeRead

(* No notification is about a participant that has not joined yet, and     *)
(* that one has gone is reported only when it has.                         *)
NamesInv(me, box, peer, joined) ==
  \A t \in Transports :
    /\ peer[t] <= joined
    /\ \A i \in DOMAIN box[t] :
         /\ box[t][i].about \subseteq 1..joined
         /\ box[t][i].type = "hungup" => \A u \in Transports : me[u] \notin box[t][i].about

LEMMA NamesPosted ==
  ASSUME NEW me, NEW box \in Queues, NEW peer, NEW joined, NamesInv(me, box, peer, joined),
         NEW n \in Notification, n.type # "connection", n.about \subseteq 1..joined,
         n.type = "hungup" => \A u \in Transports : me[u] \notin n.about,
         NEW box2,
         \A x \in Transports : box2[x] = box[x] \/ box2[x] = Append(box[x], n)
  PROVE  NamesInv(me, box2, peer, joined)
<1> SUFFICES ASSUME NEW x \in Transports, NEW i \in DOMAIN box2[x]
             PROVE  /\ box2[x][i].about \subseteq 1..joined
                    /\ box2[x][i].type = "hungup" =>
                         \A u \in Transports : me[u] \notin box2[x][i].about
  BY DEF NamesInv
<1>1. box[x] \in Seq(Notification) /\ (box2[x] = box[x] \/ box2[x] = Append(box[x], n))
  BY DEF Queues
<1>2. (i \in DOMAIN box[x] /\ box2[x][i] = box[x][i]) \/ box2[x][i] = n
  BY <1>1, PostedParts
<1> QED  BY <1>2 DEF NamesInv

LEMMA NamesRead ==
  ASSUME NEW me, NEW box \in Queues, NEW peer, NEW joined, NamesInv(me, box, peer, joined),
         NEW t \in Transports, box[t] # << >>, NEW box2, box2 = [box EXCEPT ![t] = Tail(box[t])],
         NEW peer2,
         \A x \in Transports : peer2[x] = peer[x] \/ peer2[x] <= joined
  PROVE  NamesInv(me, box2, peer2, joined)
<1>1. \A x \in Transports : peer2[x] <= joined
  BY DEF NamesInv
<1> SUFFICES ASSUME NEW x \in Transports, NEW i \in DOMAIN box2[x]
             PROVE  /\ box2[x][i].about \subseteq 1..joined
                    /\ box2[x][i].type = "hungup" =>
                         \A u \in Transports : me[u] \notin box2[x][i].about
  BY <1>1 DEF NamesInv
<1>2. /\ box[t] \in Seq(Notification) /\ box2[t] = Tail(box[t])
      /\ \A u \in Transports \ {t} : box2[u] = box[u]
  BY DEF Queues
<1>3. CASE x # t
  BY <1>2, <1>3 DEF NamesInv
<1>4. CASE x = t
  <2>1. PICK rest : rest = Tail(box[t])
    OBVIOUS
  <2>2. /\ rest \in Seq(Notification) /\ Len(rest) + 1 = Len(box[t]) /\ Len(rest) \in Nat
        /\ \A k \in 1..Len(rest) : rest[k] = box[t][k + 1]
    BY <1>2, <2>1, TailParts
  <2>3. i \in DOMAIN rest /\ box2[x][i] = rest[i]
    BY <1>2, <1>4, <2>1
  <2>4. i + 1 \in DOMAIN box[t] /\ box2[x][i] = box[t][i + 1]
    BY <1>2, <2>2, <2>3
  <2> QED  BY <2>4 DEF NamesInv
<1> QED  BY <1>3, <1>4

-----------------------------------------------------------------------------
(* The invariant and the steps.                                            *)

FlowInv ==
  /\ Flow(self, inbox, opponent, socket, written, got)
  /\ NamesInv(self, inbox, opponent, Len(owner))

LEMMA FlowOfInit == Init => FlowInv
<1> SUFFICES ASSUME Init PROVE FlowInv
  OBVIOUS
<1>1. /\ << >> \in Seq(Notification) /\ << >> \in Seq(Participant \X Nat)
      /\ Len(<< >>) = 0 /\ DOMAIN << >> = {} /\ 0 \in 0..MaxWrites
  BY EmptySeq, CallAssumption
<1>2. \A t \in Transports :
        /\ inbox[t] = << >> /\ self[t] = None /\ opponent[t] = None /\ ~socket[t]
  BY DEF Init, SignalInit
<1>3. FlowTypes(self, inbox, opponent, socket, written, got)
  BY <1>1, <1>2 DEF Init, SignalInit, FlowTypes, Queues
<1>4. /\ QueueInv(inbox) /\ NewInv(self, inbox, opponent)
      /\ HelloInv(self, inbox, opponent, socket, written)
      /\ PairInv(self, inbox, opponent, socket, written, got)
      /\ GotInv(opponent, socket, got)
  BY <1>1, <1>2 DEF QueueInv, NewInv, HelloInv, PairInv, GotInv
<1>5. Len(owner) = 0
  BY <1>1 DEF Init, SignalInit
<1>6. NamesInv(self, inbox, opponent, Len(owner))
  <2>1. \A x \in Transports : opponent[x] <= Len(owner)
    BY <1>2, <1>5
  <2>2. \A x \in Transports : DOMAIN inbox[x] = {}
    BY <1>1, <1>2
  <2> QED  BY <2>1, <2>2 DEF NamesInv
<1> QED  BY <1>3, <1>4, <1>6 DEF FlowInv, Flow

LEMMA SelfUnique ==
  ASSUME SignalTypeOK, NEW t \in Transports, NEW u \in Transports, self[t] # None,
         self[t] = self[u]
  PROVE  t = u
  BY DEF SignalTypeOK

LEMMA FlowOfOpens ==
  ASSUME IInv, FlowInv, NEW t \in Transports, handleVkWebSocketSignalServerOnStarted(t)
  PROVE  FlowInv'
<1> DEFINE p == Len(owner) + 1
           posted == Posted(inbox, members, Notice("registered-peer", {p}))
           first == Notice("connection", members \cup {p})
           news == Notice("registered-peer", {p})
<1>1. /\ ws[t] = "opening" /\ p <= MaxJoins
      /\ self' = [self EXCEPT ![t] = p]
      /\ owner' = Append(owner, t)
      /\ inbox' = [posted EXCEPT ![t] = <<first>>]
      /\ UNCHANGED <<opponent, socket, written, got>>
  BY DEF handleVkWebSocketSignalServerOnStarted, WebSocketOpens, peerVars, socketVars
<1>2. /\ SignalTypeOK /\ owner \in Seq(Transports) /\ Len(owner) \in Nat
      /\ members \subseteq 1..Len(owner) /\ MaxJoins \in Nat
  <2>1. SignalTypeOK
    BY DEF IInv, TypeOK
  <2> QED  BY <2>1, SignalAssumption DEF SignalTypeOK
<1>3. /\ p \in Participant /\ members \cup {p} \subseteq Participant /\ p \in Nat
      /\ 1..Len(owner) \subseteq 1..p /\ members \cup {p} \subseteq 1..p
  <2>1. PICK m \in Nat : m = Len(owner)
    BY <1>2
  <2>2. m + 1 <= MaxJoins /\ p = m + 1
    BY <1>1, <2>1
  <2>3. 1..m \subseteq 1..MaxJoins /\ 1..m \subseteq 1..(m + 1) /\ m + 1 \in 1..MaxJoins
        /\ m + 1 \in 1..(m + 1)
    BY <1>2, <2>2
  <2> HIDE DEF p
  <2>4. p \in 1..MaxJoins /\ p \in Nat /\ p \in 1..p /\ 1..m \subseteq 1..p
    BY <2>2, <2>3
  <2>5. members \subseteq 1..m
    BY <1>2, <2>1
  <2> QED  BY <2>1, <2>3, <2>4, <2>5 DEF Participant
<1>4. self[t] = None
  BY <1>1, <1>2 DEF SignalTypeOK
<1>5. /\ news \in Notification /\ news.type = "registered-peer" /\ news.about = {p}
      /\ first \in Notification /\ first.type = "connection" /\ first.about = members \cup {p}
  BY <1>3, NoticeTypes DEF Notice
<1>6. Len(owner') = p
  BY <1>1, <1>2
<1>7. /\ Flow(self, inbox, opponent, socket, written, got)
      /\ NamesInv(self, inbox, opponent, Len(owner))
      /\ FlowTypes(self, inbox, opponent, socket, written, got)
  BY DEF FlowInv, Flow
<1>8. inbox \in Queues /\ posted \in Queues
  BY <1>5, <1>7, PostedType DEF FlowTypes
<1>9. \A x \in Transports :
        posted[x] = inbox[x] \/ (self[x] # None /\ posted[x] = Append(inbox[x], news))
  BY DEF Posted
<1> HIDE DEF p, posted, first, news
<1>10. Flow(self, posted, opponent, socket, written, got)
  <2>1. news.type # "connection" /\ news.type # "BUFFER" /\ news.type \notin MessageType
    BY <1>5 DEF MessageType
  <2>2. Adds(news, self, inbox, socket, written, posted)
    BY <1>5, <1>8, <1>9, <2>1 DEF Adds
  <2> QED  BY <1>7, <2>2, NoticePosted
<1>11. NamesInv(self, posted, opponent, p)
  <2>1. NamesInv(self, inbox, opponent, p)
    <3>1. \A x \in Transports : opponent[x] <= p
      <4>1. \A x \in Transports : opponent[x] \in Nat /\ opponent[x] <= Len(owner)
        BY <1>2, <1>7 DEF FlowTypes, NamesInv, Participant
      <4>2. \A k, m \in Nat : k <= m => k <= m + 1
        OBVIOUS
      <4> QED  BY <1>2, <4>1, <4>2 DEF p
    <3> QED  BY <1>3, <1>7, <3>1 DEF NamesInv
  <2>2. news.about \subseteq 1..p
    BY <1>2, <1>5 DEF p
  <2>3. news.type # "connection" /\ news.type # "hungup"
    BY <1>5
  <2> QED  BY <1>5, <1>8, <1>9, <2>1, <2>2, <2>3, NamesPosted
<1>12. \A x \in Transports :
         self[x] # p /\ opponent[x] # p /\ \A i \in DOMAIN posted[x] : ~IsHello(posted[x][i], p)
  <2> TAKE x \in Transports
  <2>1. p \notin 1..Len(owner) /\ p \in Nat
    BY <1>2 DEF p
  <2>2. self[x] # p
    <3>1. self[x] # None => self[x] \in 1..Len(owner)
      BY <1>2 DEF SignalTypeOK
    <3> QED  BY <1>2, <2>1, <3>1 DEF p
  <2>3. opponent[x] # p
    <3>1. opponent[x] <= Len(owner)
      BY <1>7 DEF NamesInv
    <3> QED  BY <1>2, <3>1 DEF p
  <2>4. ASSUME NEW i \in DOMAIN posted[x], IsHello(posted[x][i], p)
        PROVE  FALSE
    <3>1. \/ i \in DOMAIN inbox[x] /\ posted[x][i] = inbox[x][i]
          \/ posted[x][i] = news
      <4>1. inbox[x] \in Seq(Notification)
        BY <1>8 DEF Queues
      <4>2. news.type # "connection"
        BY <1>5
      <4> QED  BY <1>5, <1>9, <4>1, <4>2, PostedParts
    <3>2. posted[x][i] # news
      BY <1>5, <2>4 DEF IsHello
    <3>3. inbox[x][i].about \subseteq 1..Len(owner)
      BY <1>7, <3>1, <3>2 DEF NamesInv
    <3> QED  BY <2>1, <2>4, <3>1, <3>2, <3>3 DEF IsHello
  <2> QED  BY <2>2, <2>3, <2>4
<1>13. Flow(self', inbox', opponent, socket, written, got)
  <2>1. PICK me2, box2 : me2 = self' /\ box2 = inbox'
    OBVIOUS
  <2>2. Flow(me2, box2, opponent, socket, written, got)
    BY <1>1, <1>3, <1>4, <1>5, <1>10, <1>12, <2>1, Opened
  <2> QED  BY <2>1, <2>2
<1>14. NamesInv(self', inbox', opponent, p)
  <2>1. \A x \in Transports : \A i \in DOMAIN inbox'[x] :
          \/ i \in DOMAIN posted[x] /\ inbox'[x][i] = posted[x][i]
          \/ inbox'[x][i] = first
    BY <1>1, <1>8 DEF Queues
  <2>2. first.about \subseteq 1..p
    BY <1>3, <1>5
  <2>3. \A x \in Transports : \A i \in DOMAIN posted[x] :
          posted[x][i].type = "hungup" =>
            p \notin posted[x][i].about
    <3> SUFFICES ASSUME NEW x \in Transports, NEW i \in DOMAIN posted[x],
                        posted[x][i].type = "hungup", p \in posted[x][i].about
                 PROVE  FALSE
      OBVIOUS
    <3>1. inbox[x] \in Seq(Notification) /\ news.type # "connection"
      BY <1>5, <1>8 DEF Queues
    <3>2. (i \in DOMAIN inbox[x] /\ posted[x][i] = inbox[x][i]) \/ posted[x][i] = news
      BY <1>5, <1>9, <3>1, PostedParts
    <3>3. posted[x][i].about \subseteq 1..Len(owner)
      BY <1>5, <1>7, <3>2 DEF NamesInv
    <3> QED  BY <1>2, <3>3 DEF p
  <2>4. \A u \in Transports : self'[u] = p \/ self'[u] = self[u]
    BY <1>1, <1>2 DEF SignalTypeOK
  <2> QED  BY <1>5, <1>11, <2>1, <2>2, <2>3, <2>4 DEF NamesInv
<1> QED  BY <1>1, <1>6, <1>13, <1>14 DEF FlowInv

LEMMA FlowOfLeaves ==
  ASSUME IInv, FlowInv, NEW t \in Transports,
         self' = [self EXCEPT ![t] = None], inbox' = [inbox EXCEPT ![t] = << >>],
         UNCHANGED <<owner, opponent>>,
         \/ UNCHANGED socketVars
         \/ /\ socket' = [socket EXCEPT ![t] = FALSE]
            /\ written' = [written EXCEPT ![t] = 0]
            /\ got' = [got EXCEPT ![t] = << >>]
  PROVE  FlowInv'
<1>1. /\ Flow(self, inbox, opponent, socket, written, got)
      /\ NamesInv(self, inbox, opponent, Len(owner))
      /\ FlowTypes(self, inbox, opponent, socket, written, got)
  BY DEF FlowInv, Flow
<1>2. PICK open2, count2, data2 : open2 = socket' /\ count2 = written' /\ data2 = got'
  OBVIOUS
<1>3. Flow(self, inbox, opponent, open2, count2, data2)
  BY <1>1, <1>2, Destroyed DEF socketVars
<1>4. PICK me2, box2 : me2 = self' /\ box2 = inbox'
  OBVIOUS
<1>5. Flow(me2, box2, opponent, open2, count2, data2)
  BY <1>3, <1>4, Left
<1>6. NamesInv(me2, box2, opponent, Len(owner))
  <2>1. \A x \in Transports : \A i \in DOMAIN box2[x] :
          i \in DOMAIN inbox[x] /\ box2[x][i] = inbox[x][i]
    BY <1>1, <1>4 DEF FlowTypes, Queues
  <2>2. \A u \in Transports : me2[u] = None \/ me2[u] = self[u]
    BY <1>1, <1>4 DEF FlowTypes
  <2>3. 0 \notin 1..Len(owner)
    OBVIOUS
  <2> QED  BY <1>1, <2>1, <2>2, <2>3 DEF NamesInv
<1> QED  BY <1>2, <1>4, <1>5, <1>6 DEF FlowInv

LEMMA FlowOfHungup ==
  ASSUME IInv, FlowInv, ParticipantHungup
  PROVE  FlowInv'
<1>1. PICK p \in members : Hungup(p)
  BY DEF ParticipantHungup
<1> DEFINE n == Notice("hungup", {p})
<1>2. /\ \A t \in Transports : self[t] # p
      /\ inbox' = Posted(inbox, members, n)
      /\ UNCHANGED <<self, owner, opponent, socket, written, got>>
  BY <1>1 DEF ParticipantHungup, Hungup, peerVars, socketVars
<1>3. members \subseteq 1..Len(owner) /\ 1..Len(owner) \subseteq Participant
  BY SignalAssumption DEF IInv, TypeOK, SignalTypeOK, Participant
<1>4. n \in Notification /\ n.type = "hungup" /\ n.about = {p}
  BY <1>3, NoticeTypes DEF Notice
<1>5. /\ Flow(self, inbox, opponent, socket, written, got)
      /\ NamesInv(self, inbox, opponent, Len(owner))
      /\ inbox \in Queues
  BY DEF FlowInv, Flow, FlowTypes
<1>6. /\ inbox' \in Queues
      /\ \A x \in Transports :
           inbox'[x] = inbox[x] \/ (self[x] # None /\ inbox'[x] = Append(inbox[x], n))
  <2>1. Posted(inbox, members, n) \in Queues
    BY <1>4, <1>5, PostedType
  <2> QED  BY <1>2, <2>1 DEF Posted
<1> HIDE DEF n
<1>7. PICK box2 : box2 = inbox'
  OBVIOUS
<1>8. n.type # "connection" /\ n.type # "BUFFER" /\ n.type \notin MessageType
  BY <1>4 DEF MessageType
<1>9. Flow(self, box2, opponent, socket, written, got)
  <2>1. Adds(n, self, inbox, socket, written, box2)
    BY <1>4, <1>6, <1>7, <1>8 DEF Adds
  <2> QED  BY <1>5, <2>1, NoticePosted
<1>10. NamesInv(self, box2, opponent, Len(owner))
  <2>1. n.about \subseteq 1..Len(owner) /\ \A u \in Transports : self[u] \notin n.about
    BY <1>2, <1>3, <1>4
  <2>2. \A x \in Transports : box2[x] = inbox[x] \/ box2[x] = Append(inbox[x], n)
    BY <1>6, <1>7
  <2> QED  BY <1>4, <1>5, <1>8, <2>1, <2>2, NamesPosted
<1> QED  BY <1>2, <1>7, <1>9, <1>10 DEF FlowInv

LEMMA FlowOfSend ==
  ASSUME IInv, FlowInv, NEW t \in Transports, sendMessageToParticipant(t)
  PROVE  FlowInv'
<1>1. /\ socket[t] /\ written[t] < MaxWrites
      /\ UNCHANGED <<self, owner, opponent, socket, got>>
  BY DEF sendMessageToParticipant, peerVars
<1>2. CASE UNCHANGED <<written, inbox>>
  BY <1>1, <1>2 DEF FlowInv
<1>3. CASE /\ ws[t] = "open"
           /\ written' = [written EXCEPT ![t] = @ + 1]
           /\ inbox' = Posted(inbox, {opponent[t]},
                              CustomData("BUFFER", self[t], <<written[t] + 1, 0>>))
  <2> DEFINE n == CustomData("BUFFER", self[t], <<written[t] + 1, 0>>)
  <2>1. /\ Flow(self, inbox, opponent, socket, written, got)
        /\ NamesInv(self, inbox, opponent, Len(owner))
        /\ FlowTypes(self, inbox, opponent, socket, written, got)
        /\ inbox \in Queues
    BY DEF FlowInv, Flow, FlowTypes
  <2>2. self[t] # None /\ self[t] \in Participant /\ self[t] \in 1..Len(owner)
    <3>1. SignalTypeOK
      BY DEF IInv, TypeOK
    <3> QED  BY <1>3, <3>1 DEF SignalTypeOK
  <2>3. written[t] + 1 \in Nat /\ opponent[t] # None
    BY <1>1, <2>1, CallAssumption DEF FlowTypes
  <2>4. n \in Notification /\ n.type = "BUFFER" /\ n.about = {self[t]} /\ n.data[1] = written[t] + 1
    <3>1. n \in Notification
      BY <2>2, <2>3, NoticeTypes DEF MessageType
    <3> QED  BY <3>1 DEF CustomData
  <2>5. /\ inbox' \in Queues
        /\ \A x \in Transports :
             inbox'[x] = IF self[x] = opponent[t] THEN Append(inbox[x], n) ELSE inbox[x]
    <3>1. Posted(inbox, {opponent[t]}, n) \in Queues
      BY <2>1, <2>4, PostedType
    <3> QED  BY <1>3, <2>3, <3>1 DEF Posted
  <2> HIDE DEF n
  <2>6. PICK box2, count2 : box2 = inbox' /\ count2 = written'
    OBVIOUS
  <2>7. IsBuffer(n, self[t]) /\ count2 = [written EXCEPT ![t] = written[t] + 1]
    BY <1>3, <2>4, <2>6 DEF IsBuffer
  <2>8. Flow(self, box2, opponent, socket, count2, got)
    <3>1. Writes(t, n, self, inbox, opponent, socket, written, box2, count2)
      BY <1>1, <2>2, <2>4, <2>5, <2>6, <2>7 DEF Writes
    <3> QED  BY <2>1, <3>1, BufferPosted
  <2>9. NamesInv(self, box2, opponent, Len(owner))
    <3>1. n.type # "connection" /\ n.type # "hungup" /\ n.about \subseteq 1..Len(owner)
      BY <2>2, <2>4
    <3>2. \A x \in Transports : box2[x] = inbox[x] \/ box2[x] = Append(inbox[x], n)
      BY <2>5, <2>6
    <3> QED  BY <2>1, <2>4, <3>1, <3>2, NamesPosted
  <2> QED  BY <1>1, <2>6, <2>8, <2>9 DEF FlowInv
<1> QED  BY <1>2, <1>3 DEF sendMessageToParticipant

LEMMA FlowOfError ==
  ASSUME IInv, FlowInv, NEW t \in Transports, handleTransportSocketOnError(t)
  PROVE  FlowInv'
<1>1. PICK open2, count2, data2 : open2 = socket' /\ count2 = written' /\ data2 = got'
  OBVIOUS
<1>2. /\ open2 = [socket EXCEPT ![t] = FALSE]
      /\ count2 = [written EXCEPT ![t] = 0]
      /\ data2 = [got EXCEPT ![t] = << >>]
      /\ UNCHANGED <<self, inbox, owner, opponent>>
  BY <1>1 DEF handleTransportSocketOnError, destroyTransportSocket, signalVars, peerVars
<1>3. Flow(self, inbox, opponent, open2, count2, data2)
  BY <1>2, Destroyed DEF FlowInv
<1> QED  BY <1>1, <1>2, <1>3 DEF FlowInv

(* The second half of (re)connecting: what was said by a transport that    *)
(* has just read a notification, and has written nothing.                  *)
LEMMA FlowOfSaid ==
  ASSUME IInv, FlowInv, NEW t \in Transports, inbox[t] # << >>,
         NEW type \in {"CONNECT", "ACCEPT"}, NEW to,
         inbox' = Posted(Received(t), to, CustomData(type, self[t], <<0, 0>>)),
         UNCHANGED <<self, owner>>,
         Flow(self, Received(t), opponent', socket', written', got'),
         \A x \in Transports : opponent'[x] = opponent[x] \/ opponent'[x] <= Len(owner),
         written'[t] = 0
  PROVE  FlowInv'
<1> DEFINE n == CustomData(type, self[t], <<0, 0>>)
<1>1. /\ FlowTypes(self, inbox, opponent, socket, written, got) /\ QueueInv(inbox)
      /\ NamesInv(self, inbox, opponent, Len(owner))
  BY DEF FlowInv, Flow
<1>2. inbox \in Queues /\ inbox[t] \in Seq(Notification) /\ self[t] # None /\ self[t] \in Participant
  BY <1>1 DEF FlowTypes, Queues
<1>3. self[t] \in 1..Len(owner)
  <2>1. SignalTypeOK
    BY DEF IInv, TypeOK
  <2> QED  BY <1>2, <2>1 DEF SignalTypeOK
<1>4. n \in Notification /\ n.type \in {"CONNECT", "ACCEPT"} /\ n.about = {self[t]}
  <2>1. <<0, 0>> \in Nat \X Nat /\ type \in MessageType
    BY DEF MessageType
  <2>2. n \in Notification
    BY <1>2, <2>1, NoticeTypes
  <2> QED  BY <2>2 DEF CustomData
<1>5. PICK box : box = Received(t)
  OBVIOUS
<1>6. box = [inbox EXCEPT ![t] = Tail(inbox[t])] /\ box[t] = Tail(inbox[t])
  BY <1>2, <1>5 DEF Received, Queues
<1>7. box \in Queues
  BY <1>2, <1>5, ReceivedType
<1>8. /\ inbox' \in Queues
      /\ \A x \in Transports :
           inbox'[x] = box[x] \/ (self[x] # None /\ inbox'[x] = Append(box[x], n))
  <2>1. Posted(box, to, n) \in Queues
    BY <1>4, <1>7, PostedType
  <2> QED  BY <1>5, <2>1 DEF Posted
<1> HIDE DEF n
<1>9. Ready(self, box, t)
  <2>1. PICK rest : rest = Tail(inbox[t])
    OBVIOUS
  <2>2. rest # << >> => Head(rest) = inbox[t][2] /\ 2 \in DOMAIN inbox[t]
    BY <1>2, <2>1, TailParts
  <2>3. rest # << >> => Head(rest).type # "connection"
    BY <1>1, <2>2 DEF QueueInv
  <2> QED  BY <1>2, <1>6, <2>1, <2>3 DEF Ready, Waits
<1>10. PICK box2, peer2, open2, count2, data2 :
         /\ box2 = inbox' /\ peer2 = opponent' /\ open2 = socket' /\ count2 = written'
         /\ data2 = got'
  OBVIOUS
<1>11. n.type # "connection" /\ n.type # "BUFFER" /\ n.type # "hungup"
  BY <1>4
<1>12. n.type \in MessageType =>
         \E x \in Transports : /\ Ready(self, box, x) /\ n.about = {self[x]}
                               /\ open2[x] => count2[x] = 0
  BY <1>4, <1>9, <1>10
<1>13. Flow(self, box, peer2, open2, count2, data2)
  BY <1>5, <1>10
<1>14. Flow(self, box2, peer2, open2, count2, data2)
  <2>1. Adds(n, self, box, open2, count2, box2)
    BY <1>4, <1>8, <1>10, <1>11, <1>12 DEF Adds
  <2> QED  BY <1>13, <2>1, NoticePosted
<1>15. NamesInv(self, box, peer2, Len(owner))
  BY <1>1, <1>2, <1>6, <1>10, NamesRead
<1>16. NamesInv(self, box2, peer2, Len(owner))
  <2>1. n.about \subseteq 1..Len(owner)
    BY <1>3, <1>4
  <2>2. \A x \in Transports : box2[x] = box[x] \/ box2[x] = Append(box[x], n)
    BY <1>8, <1>10
  <2> QED  BY <1>4, <1>7, <1>11, <1>15, <2>1, <2>2, NamesPosted
<1> QED  BY <1>10, <1>14, <1>16 DEF FlowInv

LEMMA FlowOfConnecting ==
  ASSUME IInv, FlowInv, NEW t \in Transports, inbox[t] # << >>,
         \/ Head(inbox[t]).type = "connection"
         \/ \A x \in Transports : self[x] # None => opponent[t] # self[x],
         NEW others, setStateConnecting(t, others, Received(t)),
         UNCHANGED <<self, owner>>
  PROVE  FlowInv'
<1>1. /\ opponent' = [opponent EXCEPT ![t] = None]
      /\ socket' = [socket EXCEPT ![t] = FALSE]
      /\ written' = [written EXCEPT ![t] = 0]
      /\ got' = [got EXCEPT ![t] = << >>]
      /\ inbox' = Posted(Received(t), others, CustomData("CONNECT", self[t], <<0, 0>>))
  BY DEF setStateConnecting, destroyTransportSocket
<1>2. PICK box, peer2, open2, count2, data2 :
        /\ box = Received(t) /\ peer2 = opponent' /\ open2 = socket' /\ count2 = written'
        /\ data2 = got'
  OBVIOUS
<1>3. box = [inbox EXCEPT ![t] = Tail(inbox[t])]
  BY <1>2 DEF Received
<1>4. Flow(self, inbox, opponent, socket, written, got)
  BY DEF FlowInv
<1>5. Flow(self, box, peer2, open2, count2, data2)
  BY <1>1, <1>2, <1>3, <1>4, ConnectingRead
<1>6. \A x \in Transports : opponent'[x] = opponent[x] \/ opponent'[x] <= Len(owner)
  <2>1. Len(owner) \in Nat
    BY DEF IInv, TypeOK, SignalTypeOK
  <2> QED  BY <1>1, <1>4, <2>1 DEF Flow, FlowTypes
<1>7. written'[t] = 0
  BY <1>1, <1>4 DEF Flow, FlowTypes
<1> QED  BY <1>1, <1>2, <1>5, <1>6, <1>7, FlowOfSaid

LEMMA FlowOfConnected ==
  ASSUME IInv, FlowInv, NEW t \in Transports, inbox[t] # << >>,
         NEW p \in Participant, IsHello(Head(inbox[t]), p), opponent[t] = None,
         NEW sendAccept \in BOOLEAN, setStateConnected(t, p, sendAccept),
         UNCHANGED <<self, owner>>
  PROVE  FlowInv'
<1>1. /\ opponent' = [opponent EXCEPT ![t] = p]
      /\ socket' = [socket EXCEPT ![t] = TRUE]
      /\ written' = [written EXCEPT ![t] = 0]
      /\ got' = [got EXCEPT ![t] = << >>]
      /\ inbox' = Posted(Received(t), IF sendAccept THEN {p} ELSE {},
                         CustomData("ACCEPT", self[t], <<0, 0>>))
  BY DEF setStateConnected, createTransportSocket
<1>2. PICK box, peer2, open2, count2, data2 :
        /\ box = Received(t) /\ peer2 = opponent' /\ open2 = socket' /\ count2 = written'
        /\ data2 = got'
  OBVIOUS
<1>3. box = [inbox EXCEPT ![t] = Tail(inbox[t])]
  BY <1>2 DEF Received
<1>4. /\ Flow(self, inbox, opponent, socket, written, got)
      /\ NamesInv(self, inbox, opponent, Len(owner))
  BY DEF FlowInv
<1>5. Flow(self, box, peer2, open2, count2, data2)
  BY <1>1, <1>2, <1>3, <1>4, ConnectedRead
<1>6. \A x \in Transports : opponent'[x] = opponent[x] \/ opponent'[x] <= Len(owner)
  <2>1. inbox[t] \in Seq(Notification)
    BY <1>4 DEF Flow, FlowTypes, Queues
  <2>2. 1 \in DOMAIN inbox[t] /\ Head(inbox[t]) = inbox[t][1]
    BY <2>1
  <2>3. p \in 1..Len(owner)
    BY <1>4, <2>2 DEF NamesInv, IsHello
  <2>4. p <= Len(owner)
    BY <2>3
  <2> QED  BY <1>1, <1>4, <2>4 DEF Flow, FlowTypes
<1>7. written'[t] = 0
  BY <1>1, <1>4 DEF Flow, FlowTypes
<1>8. PICK to : to = IF sendAccept THEN {p} ELSE {}
  OBVIOUS
<1> QED  BY <1>1, <1>2, <1>5, <1>6, <1>7, <1>8, FlowOfSaid

LEMMA FlowOfIgnored ==
  ASSUME IInv, FlowInv, NEW t \in Transports, inbox[t] # << >>,
         Head(inbox[t]).type # "connection", Head(inbox[t]).type = "BUFFER" => ~socket[t],
         inbox' = Received(t), UNCHANGED <<self, owner, opponent, socket, written, got>>
  PROVE  FlowInv'
<1>1. /\ Flow(self, inbox, opponent, socket, written, got)
      /\ NamesInv(self, inbox, opponent, Len(owner)) /\ inbox \in Queues
  BY DEF FlowInv, Flow, FlowTypes
<1>2. PICK box : box = inbox'
  OBVIOUS
<1>3. box = [inbox EXCEPT ![t] = Tail(inbox[t])]
  BY <1>2 DEF Received
<1>4. Flow(self, box, opponent, socket, written, got)
  BY <1>1, <1>3, NoticeIgnored
<1>5. NamesInv(self, box, opponent, Len(owner))
  BY <1>1, <1>3, NamesRead
<1> QED  BY <1>2, <1>4, <1>5 DEF FlowInv

LEMMA FlowOfBuffer ==
  ASSUME IInv, FlowInv, NEW t \in Transports, inbox[t] # << >>,
         NEW p \in Participant, IsBuffer(Head(inbox[t]), p), socket[t],
         got' = [got EXCEPT ![t] = Append(@, <<p, Head(inbox[t]).data[1]>>)],
         inbox' = Received(t), UNCHANGED <<self, owner, opponent, socket, written>>
  PROVE  FlowInv'
<1>1. /\ Flow(self, inbox, opponent, socket, written, got)
      /\ NamesInv(self, inbox, opponent, Len(owner)) /\ inbox \in Queues
  BY DEF FlowInv, Flow, FlowTypes
<1>2. PICK box, data2 : box = inbox' /\ data2 = got'
  OBVIOUS
<1>3. /\ box = [inbox EXCEPT ![t] = Tail(inbox[t])]
      /\ data2 = [got EXCEPT ![t] = Append(got[t], <<p, Head(inbox[t]).data[1]>>)]
  BY <1>2 DEF Received
<1>4. Flow(self, box, opponent, socket, written, data2)
  BY <1>1, <1>3, BufferRead
<1>5. NamesInv(self, box, opponent, Len(owner))
  BY <1>1, <1>3, NamesRead
<1> QED  BY <1>2, <1>4, <1>5 DEF FlowInv

LEMMA FlowOfNotification ==
  ASSUME IInv, FlowInv, NEW t \in Transports, handleVkWebSocketSignalServerOnNotification(t)
  PROVE  FlowInv'
<1>1. UNCHANGED <<self, owner>> /\ inbox[t] # << >>
  BY DEF handleVkWebSocketSignalServerOnNotification, handleVkWebSocketSignalServerOnReady,
       OnRegisteredPeer, OnHungup, OnConnectMessage, OnAcceptMessage, OnBufferMessage, IsNext
<1>2. /\ QueueInv(inbox) /\ NamesInv(self, inbox, opponent, Len(owner))
      /\ inbox[t] \in Seq(Notification)
  BY DEF FlowInv, Flow, FlowTypes, Queues
<1>3. 1 \in DOMAIN inbox[t] /\ Head(inbox[t]) = inbox[t][1]
  BY <1>1, <1>2
<1>4. \A p : p \in Head(inbox[t]).about /\ Head(inbox[t]).type \in MessageType =>
        Head(inbox[t]).about = {p}
  BY <1>2, <1>3 DEF QueueInv
<1>5. CASE handleVkWebSocketSignalServerOnReady(t)
  <2>1. Head(inbox[t]).type = "connection"
    BY <1>5 DEF handleVkWebSocketSignalServerOnReady, IsNext
  <2>2. PICK others : setStateConnecting(t, others, Received(t))
    BY <1>5 DEF handleVkWebSocketSignalServerOnReady
  <2> QED  BY <1>1, <2>1, <2>2, FlowOfConnecting
<1>6. ASSUME NEW p \in Participant, OnRegisteredPeer(t, p) PROVE FlowInv'
  <2>1. /\ Head(inbox[t]).type = "registered-peer" /\ inbox' = Received(t)
        /\ UNCHANGED <<opponent, socket, written, got>>
    BY <1>6 DEF OnRegisteredPeer, IsNext, socketVars
  <2>2. Head(inbox[t]).type # "connection" /\ Head(inbox[t]).type # "BUFFER"
    BY <2>1
  <2> QED  BY <1>1, <2>1, <2>2, FlowOfIgnored
<1>7. ASSUME NEW p \in Participant, OnHungup(t, p) PROVE FlowInv'
  <2>1. Head(inbox[t]).type = "hungup" /\ p \in Head(inbox[t]).about
    BY <1>7 DEF OnHungup, IsNext
  <2>2. CASE /\ state[t] = "CONNECTED" /\ opponent[t] = p
             /\ setStateConnecting(t, participants[t] \ {p}, Received(t))
    <3>1. \A x \in Transports : opponent[t] # self[x]
      BY <1>2, <1>3, <2>1, <2>2 DEF NamesInv
    <3>2. PICK others : setStateConnecting(t, others, Received(t))
      BY <2>2
    <3> QED  BY <1>1, <3>1, <3>2, FlowOfConnecting
  <2>3. CASE /\ inbox' = Received(t) /\ UNCHANGED <<state, opponent, socketVars>>
    <3>1. Head(inbox[t]).type # "connection" /\ Head(inbox[t]).type # "BUFFER"
      BY <2>1
    <3> QED  BY <1>1, <2>3, <3>1, FlowOfIgnored DEF socketVars
  <2> QED  BY <1>7, <2>2, <2>3 DEF OnHungup
<1>8. ASSUME NEW p \in Participant, OnConnectMessage(t, p) \/ OnAcceptMessage(t, p)
      PROVE  FlowInv'
  <2>1. Head(inbox[t]).type \in {"CONNECT", "ACCEPT"} /\ p \in Head(inbox[t]).about
    BY <1>8 DEF OnConnectMessage, OnAcceptMessage, IsNext
  <2>2. IsHello(Head(inbox[t]), p)
    BY <1>4, <2>1 DEF MessageType, IsHello
  <2>3. ASSUME state[t] = "CONNECTING", NEW sendAccept \in BOOLEAN,
               setStateConnected(t, p, sendAccept)
        PROVE  FlowInv'
    <3>1. opponent[t] = None
      BY <2>3 DEF IInv, TypeOK
    <3> QED  BY <1>1, <2>2, <2>3, <3>1, FlowOfConnected
  <2>4. ASSUME Ignores(t) PROVE FlowInv'
    <3>1. /\ inbox' = Received(t) /\ UNCHANGED <<opponent, socket, written, got>>
      BY <2>4 DEF Ignores, peerVars, socketVars
    <3>2. Head(inbox[t]).type # "connection" /\ Head(inbox[t]).type # "BUFFER"
      BY <2>1
    <3> QED  BY <1>1, <3>1, <3>2, FlowOfIgnored
  <2> QED  BY <1>8, <2>3, <2>4 DEF OnConnectMessage, OnAcceptMessage
<1>9. ASSUME NEW p \in Participant, OnBufferMessage(t, p) PROVE FlowInv'
  <2>1. Head(inbox[t]).type = "BUFFER" /\ p \in Head(inbox[t]).about
    BY <1>9 DEF OnBufferMessage, IsNext
  <2>2. IsBuffer(Head(inbox[t]), p)
    BY <1>4, <2>1 DEF MessageType, IsBuffer
  <2>3. CASE ~socket[t] /\ Ignores(t)
    <3>1. /\ inbox' = Received(t) /\ UNCHANGED <<opponent, socket, written, got>>
      BY <2>3 DEF Ignores, peerVars, socketVars
    <3>2. Head(inbox[t]).type # "connection"
      BY <2>1
    <3> QED  BY <1>1, <2>3, <3>1, <3>2, FlowOfIgnored
  <2>4. CASE /\ state[t] = "CONNECTED" /\ socket[t]
             /\ got' = [got EXCEPT ![t] = Append(@, <<p, Head(inbox[t]).data[1]>>)]
             /\ inbox' = Received(t)
             /\ UNCHANGED <<peerVars, socket, written>>
    BY <1>1, <2>2, <2>4, FlowOfBuffer DEF peerVars
  <2> QED  BY <1>9, <2>3, <2>4 DEF OnBufferMessage
<1> QED
  BY <1>5, <1>6, <1>7, <1>8, <1>9 DEF handleVkWebSocketSignalServerOnNotification

LEMMA FlowOfNext == IInv /\ FlowInv /\ [Next]_vars => FlowInv'
<1> SUFFICES ASSUME IInv, FlowInv, [Next]_vars PROVE FlowInv'
  OBVIOUS
<1>1. ASSUME UNCHANGED <<self, inbox, owner, opponent, socket, written, got>> PROVE FlowInv'
  BY <1>1 DEF FlowInv
<1>2. ASSUME NEW t \in Transports,
             start(t) \/ startSignalServerConnection(t) \/ UrlFails(t)
      PROVE  FlowInv'
  BY <1>1, <1>2 DEF start, FetchUrl, startSignalServerConnection, SignalStart, UrlFails,
       peerVars, socketVars
<1>3. ASSUME NEW t \in Transports, stop(t) PROVE FlowInv'
  BY <1>3, FlowOfLeaves DEF stop, SignalLeaves, destroyTransportSocket, peerVars
<1>4. ASSUME NEW t \in Transports,
             handleVkWebSocketSignalServerOnStopped(t) \/ CrashedWebSocketCloses(t)
      PROVE  FlowInv'
  BY <1>4, FlowOfLeaves DEF handleVkWebSocketSignalServerOnStopped, CrashedWebSocketCloses,
       SignalLeaves, peerVars
<1>5. CASE UNCHANGED vars
  BY <1>1, <1>5 DEF vars, signalVars, peerVars, socketVars
<1> QED
  BY <1>2, <1>3, <1>4, <1>5, FlowOfOpens, FlowOfHungup, FlowOfSend, FlowOfError,
     FlowOfNotification DEF Next

LEMMA AlwaysFlow == Spec => []FlowInv
<1>1. Init => FlowInv
  BY FlowOfInit
<1>2. IInv /\ FlowInv /\ [Next]_vars => FlowInv'
  BY FlowOfNext
<1> QED  BY <1>1, <1>2, AlwaysInv, PTL DEF Spec

(* A transport socket is given the buffers of its opponent from the first  *)
(* on, in order and none left out: whatever was written to sockets that    *)
(* were replaced since, and under names that are gone, for any number of   *)
(* transports that call and answer one another.                            *)
THEOREM CallStreamIntact == Spec => []StreamIntact
<1>1. ASSUME FlowInv, NEW t \in Transports, socket[t]
      PROVE  \A i \in DOMAIN got[t] : got[t][i][1] = opponent[t] =>
               /\ got[t][i][2] > 0
               /\ {got[t][j][2] : j \in {k \in 1..(i - 1) : got[t][k][1] = opponent[t]}}
                    = 1..(got[t][i][2] - 1)
  <2>1. PICK b \in 0..MaxWrites : Given(got[t], opponent[t], b)
    BY <1>1 DEF FlowInv, Flow, GotInv
  <2>2. got[t] \in Seq(Participant \X Nat) /\ b \in Nat
    <3>1. FlowTypes(self, inbox, opponent, socket, written, got)
      BY <1>1 DEF FlowInv, Flow
    <3> QED  BY <3>1, CallAssumption DEF FlowTypes
  <2> SUFFICES ASSUME NEW i \in DOMAIN got[t], got[t][i][1] = opponent[t]
               PROVE  /\ got[t][i][2] > 0
                      /\ {got[t][j][2] : j \in {k \in 1..(i - 1) : got[t][k][1] = opponent[t]}}
                           = 1..(got[t][i][2] - 1)
    OBVIOUS
  <2>3. /\ i \in Nat /\ i \in 1..Len(got[t]) /\ Len(got[t]) \in Nat
        /\ \A j \in 1..Len(got[t]) : got[t][j][2] \in Nat
        /\ DOMAIN got[t] = 1..Len(got[t])
    BY <2>2
  <2>4. got[t][i][2] > 0 /\ got[t][i][2] <= b /\ got[t][i][2] \in Nat
    BY <2>1, <2>3 DEF Given
  <2>5. ASSUME NEW j \in 1..(i - 1), got[t][j][1] = opponent[t]
        PROVE  got[t][j][2] \in 1..(got[t][i][2] - 1)
    <3>1. j \in 1..Len(got[t]) /\ j < i
      BY <2>3
    <3>2. 0 < got[t][j][2] /\ got[t][j][2] < got[t][i][2] /\ got[t][j][2] \in Nat
      BY <2>1, <2>3, <2>5, <3>1 DEF Given
    <3> QED  BY <2>4, <3>2
  <2>6. ASSUME NEW n \in 1..(got[t][i][2] - 1)
        PROVE  \E j \in 1..(i - 1) : got[t][j][1] = opponent[t] /\ got[t][j][2] = n
    <3>1. n \in 1..b /\ n < got[t][i][2]
      BY <2>2, <2>4
    <3>2. PICK j \in 1..Len(got[t]) : got[t][j][1] = opponent[t] /\ got[t][j][2] = n
      BY <2>1, <2>3, <3>1 DEF Given
    <3>3. ~(i < j) /\ j # i
      <4>1. i < j => got[t][i][2] < got[t][j][2]
        BY <2>1, <2>3, <3>2 DEF Given
      <4> QED  BY <2>4, <3>1, <3>2, <4>1
    <3>4. j \in 1..(i - 1)
      BY <2>3, <3>2, <3>3
    <3> QED  BY <3>2, <3>4
  <2> QED  BY <2>4, <2>5, <2>6
<1>2. FlowInv => StreamIntact
  BY <1>1 DEF StreamIntact
<1> QED  BY <1>2, AlwaysFlow, PTL

-----------------------------------------------------------------------------
(* Two transports.                                                         *)

(* The rest speaks of a call of at most two transports.                    *)
AtMostTwo == \A t, u, v \in Transports : t = u \/ t = v \/ u = v

Asks(n) == n.type = "CONNECT"
Says(n) == n.type \in {"CONNECT", "ACCEPT"}

(* The CONNECTs and ACCEPTs before place j of a queue are from p, and      *)
(* there is one.                                                           *)
OnlyFrom(queue, p, j) == \A i \in 1..(j - 1) : Says(queue[i]) => queue[i].about = {p}
Called(queue, p, j) ==
  OnlyFrom(queue, p, j) /\ \E i \in 1..(j - 1) : Says(queue[i])

(* A queue of t, whose name is name and who knows the participants known.  *)
(* Messages are from the other transport, a name is announced before a     *)
(* message under it or under a newer one, and never after it is gone.      *)
Orderly(queue, t, name, own, known) ==
  /\ \A i \in DOMAIN queue :
       /\ queue[i].type \in MessageType => \A p \in queue[i].about : own[p] # t
       /\ queue[i].type = "registered-peer" => name \notin queue[i].about
  /\ \A i, j \in DOMAIN queue : i < j /\ queue[j].type \in MessageType =>
       \A q \in queue[j].about :
         /\ queue[i].type \in {"connection", "registered-peer"} =>
              \A p \in queue[i].about : own[p] # t => p <= q
         /\ queue[i].type = "hungup" => q \notin queue[i].about
  /\ ~Waits(queue) =>
       /\ name \notin known
       /\ \A i \in DOMAIN queue : queue[i].type \in MessageType =>
            \A p \in known, q \in queue[i].about : own[p] # t => p <= q

LEMMA OrderlyAppend ==
  ASSUME NEW queue \in Seq(Notification), NEW t, NEW name, NEW own, NEW known,
         NEW joined \in Nat,
         Orderly(queue, t, name, own, known),
         known \subseteq 1..joined,
         \A i \in DOMAIN queue : queue[i].about \subseteq 1..joined,
         NEW n \in Notification, n.type # "connection",
         n.type = "registered-peer" => name \notin n.about,
         n.type \in MessageType => \A q \in n.about :
           /\ own[q] # t
           /\ \A p \in 1..joined : own[p] # t => p <= q
           /\ \A i \in DOMAIN queue : queue[i].type = "hungup" => q \notin queue[i].about,
         NEW queue2, queue2 = queue \/ queue2 = Append(queue, n)
  PROVE  Orderly(queue2, t, name, own, known)
<1>1. /\ Waits(queue2) <=> Waits(queue)
      /\ \A i \in DOMAIN queue2 :
           \/ i \in DOMAIN queue /\ i \in 0..Len(queue) /\ queue2[i] = queue[i]
           \/ i \in Nat /\ i >= Len(queue2) /\ queue2[i] = n
      /\ queue2 \in Seq(Notification)
  BY PostedParts
<1>2. \A i, j \in DOMAIN queue2 : i < j => i \in DOMAIN queue /\ queue2[i] = queue[i]
  BY <1>1
<1>3. \A i \in DOMAIN queue2 :
        /\ queue2[i].type \in MessageType => \A p \in queue2[i].about : own[p] # t
        /\ queue2[i].type = "registered-peer" => name \notin queue2[i].about
  BY <1>1 DEF Orderly
<1>4. ASSUME NEW i \in DOMAIN queue2, NEW j \in DOMAIN queue2, i < j,
             queue2[j].type \in MessageType, NEW q \in queue2[j].about
      PROVE  /\ queue2[i].type \in {"connection", "registered-peer"} =>
                  \A p \in queue2[i].about : own[p] # t => p <= q
             /\ queue2[i].type = "hungup" => q \notin queue2[i].about
  <2>1. i \in DOMAIN queue /\ queue2[i] = queue[i]
    BY <1>2, <1>4
  <2>2. CASE j \in DOMAIN queue /\ queue2[j] = queue[j]
    BY <1>4, <2>1, <2>2 DEF Orderly
  <2>3. CASE queue2[j] = n
    BY <1>4, <2>1, <2>3
  <2> QED  BY <1>1, <2>2, <2>3
<1>5. ~Waits(queue2) =>
        /\ name \notin known
        /\ \A i \in DOMAIN queue2 : queue2[i].type \in MessageType =>
             \A p \in known, q \in queue2[i].about : own[p] # t => p <= q
  BY <1>1 DEF Orderly
<1> QED  BY <1>3, <1>4, <1>5 DEF Orderly

LEMMA OrderlyTail ==
  ASSUME NEW queue \in Seq(Notification), queue # << >>, NEW t, NEW name, NEW own, NEW known,
         Orderly(queue, t, name, own, known),
         NEW known2, name \notin known2,
         \A p \in known2 :
           \/ p \in known /\ Head(queue).type # "connection"
           \/ p \in Head(queue).about /\ Head(queue).type \in {"connection", "registered-peer"}
  PROVE  Orderly(Tail(queue), t, name, own, known2)
<1> DEFINE rest == Tail(queue)
<1>1. /\ rest \in Seq(Notification) /\ Len(rest) + 1 = Len(queue) /\ Len(rest) \in Nat
      /\ \A i \in 1..Len(rest) : rest[i] = queue[i + 1]
      /\ Head(queue) = queue[1]
  BY TailParts
<1> HIDE DEF rest
<1>2. /\ \A i \in DOMAIN rest : i + 1 \in DOMAIN queue /\ rest[i] = queue[i + 1] /\ 1 < i + 1
      /\ 1 \in DOMAIN queue
      /\ \A i, j \in DOMAIN rest : i < j => i + 1 < j + 1
  BY <1>1
<1>3. \A i \in DOMAIN rest :
        /\ rest[i].type \in MessageType => \A p \in rest[i].about : own[p] # t
        /\ rest[i].type = "registered-peer" => name \notin rest[i].about
  BY <1>2 DEF Orderly
<1>4. ASSUME NEW i \in DOMAIN rest, NEW j \in DOMAIN rest, i < j,
             rest[j].type \in MessageType, NEW q \in rest[j].about
      PROVE  /\ rest[i].type \in {"connection", "registered-peer"} =>
                  \A p \in rest[i].about : own[p] # t => p <= q
             /\ rest[i].type = "hungup" => q \notin rest[i].about
  BY <1>2, <1>4 DEF Orderly
<1>5. ASSUME NEW i \in DOMAIN rest, rest[i].type \in MessageType,
             NEW p \in known2, NEW q \in rest[i].about, own[p] # t
      PROVE  p <= q
  <2>1. i + 1 \in DOMAIN queue /\ rest[i] = queue[i + 1] /\ 1 < i + 1
    BY <1>2
  <2>2. CASE p \in known /\ Head(queue).type # "connection"
    <3>1. ~Waits(queue)
      BY <2>2 DEF Waits
    <3> QED  BY <1>5, <2>1, <2>2, <3>1 DEF Orderly
  <2>3. CASE p \in queue[1].about /\ queue[1].type \in {"connection", "registered-peer"}
    BY <1>2, <1>5, <2>1, <2>3 DEF Orderly
  <2> QED  BY <1>1, <2>2, <2>3
<1> QED  BY <1>3, <1>4, <1>5 DEF Orderly, rest

LEMMA CalledAppend ==
  ASSUME NEW queue \in Seq(Notification), NEW n \in Notification, NEW p,
         NEW queue2, queue2 = queue \/ queue2 = Append(queue, n)
  PROVE  /\ \A j \in 1..(Len(queue) + 1) :
              /\ OnlyFrom(queue, p, j) => OnlyFrom(queue2, p, j)
              /\ Called(queue, p, j) => Called(queue2, p, j)
         /\ (Says(n) => n.about = {p}) =>
              /\ OnlyFrom(queue, p, Len(queue) + 1) => OnlyFrom(queue2, p, Len(queue2) + 1)
              /\ Called(queue, p, Len(queue) + 1) => Called(queue2, p, Len(queue2) + 1)
         /\ Says(n) /\ n.about = {p} /\ queue2 = Append(queue, n)
              /\ OnlyFrom(queue, p, Len(queue) + 1) => Called(queue2, p, Len(queue2) + 1)
<1>1. CASE queue2 = queue
  <2>1. Append(queue, n) # queue
    <3>1. Len(Append(queue, n)) = Len(queue) + 1 /\ Len(queue) \in Nat
      BY AppendParts
    <3>2. Len(queue) + 1 # Len(queue)
      BY <3>1
    <3> QED  BY <3>1, <3>2
  <2> QED  BY <1>1, <2>1
<1>2. CASE queue2 = Append(queue, n)
  <2>1. /\ Append(queue, n) \in Seq(Notification) /\ Len(Append(queue, n)) = Len(queue) + 1
        /\ Len(queue) \in Nat
        /\ \A i \in 1..Len(queue) : Append(queue, n)[i] = queue[i]
        /\ Append(queue, n)[Len(queue) + 1] = n
    BY AppendParts
  <2>2. PICK longer : longer = Append(queue, n)
    OBVIOUS
  <2>3. /\ Len(longer) = Len(queue) + 1 /\ longer[Len(queue) + 1] = n
        /\ \A i \in 1..Len(queue) : longer[i] = queue[i]
    BY <2>1, <2>2
  <2>4. /\ \A j \in 1..(Len(queue) + 1) : \A i \in 1..(j - 1) : i \in 1..Len(queue)
        /\ \A i \in 1..(Len(longer) + 1 - 1) : i \in 1..Len(queue) \/ i = Len(queue) + 1
        /\ Len(queue) + 1 \in 1..(Len(longer) + 1 - 1)
        /\ \A i \in 1..Len(queue) :
             i \in 1..(Len(longer) + 1 - 1) /\ i \in 1..(Len(queue) + 1 - 1)
        /\ 1..(Len(queue) + 1 - 1) = 1..Len(queue)
    BY <2>1, <2>3
  <2>5. \A j \in 1..(Len(queue) + 1) :
          /\ OnlyFrom(queue, p, j) => OnlyFrom(longer, p, j)
          /\ Called(queue, p, j) => Called(longer, p, j)
    BY <2>3, <2>4 DEF OnlyFrom, Called
  <2>6. (Says(n) => n.about = {p}) /\ OnlyFrom(queue, p, Len(queue) + 1)
          => OnlyFrom(longer, p, Len(longer) + 1)
    BY <2>3, <2>4 DEF OnlyFrom
  <2>7. (Says(n) => n.about = {p}) /\ Called(queue, p, Len(queue) + 1)
          => Called(longer, p, Len(longer) + 1)
    BY <2>3, <2>4, <2>6 DEF Called
  <2>8. Says(n) /\ n.about = {p} /\ OnlyFrom(queue, p, Len(queue) + 1)
          => Called(longer, p, Len(longer) + 1)
    BY <2>3, <2>4, <2>6 DEF Called
  <2>9. queue2 = longer
    BY <1>2, <2>2
  <2> QED  BY <2>5, <2>6, <2>7, <2>8, <2>9
<1> QED  BY <1>1, <1>2

LEMMA CalledTail ==
  ASSUME NEW queue \in Seq(Notification), queue # << >>, NEW p, NEW j \in 1..Len(queue)
  PROVE  /\ OnlyFrom(queue, p, j + 1) => OnlyFrom(Tail(queue), p, j)
         /\ Called(queue, p, j + 1) /\ ~Says(Head(queue)) => Called(Tail(queue), p, j)
         /\ OnlyFrom(queue, p, j + 1) /\ Says(Head(queue)) => Head(queue).about = {p}
<1> DEFINE rest == Tail(queue)
<1>1. /\ rest \in Seq(Notification) /\ Len(rest) + 1 = Len(queue) /\ Len(rest) \in Nat
      /\ \A i \in 1..Len(rest) : rest[i] = queue[i + 1]
      /\ Head(queue) = queue[1]
  BY TailParts
<1> HIDE DEF rest
<1>2. /\ \A i \in 1..(j - 1) : i \in 1..Len(rest) /\ i + 1 \in 1..(j + 1 - 1)
      /\ \A i \in 1..(j + 1 - 1) : i = 1 \/ (i - 1 \in 1..(j - 1) /\ (i - 1) + 1 = i)
      /\ 1 \in 1..(j + 1 - 1)
  BY <1>1
<1>3. \A i \in 1..(j - 1) : rest[i] = queue[i + 1]
  BY <1>1, <1>2
<1>4. OnlyFrom(queue, p, j + 1) => OnlyFrom(rest, p, j)
  BY <1>2, <1>3 DEF OnlyFrom
<1>5. ASSUME Called(queue, p, j + 1), ~Says(Head(queue))
      PROVE  Called(rest, p, j)
  <2>1. PICK i \in 1..(j + 1 - 1) : Says(queue[i])
    BY <1>5 DEF Called
  <2>2. i - 1 \in 1..(j - 1) /\ (i - 1) + 1 = i
    BY <1>1, <1>2, <1>5, <2>1
  <2>3. Says(rest[i - 1])
    BY <1>3, <2>1, <2>2
  <2> QED  BY <1>4, <1>5, <2>2, <2>3 DEF Called
<1>6. OnlyFrom(queue, p, j + 1) /\ Says(Head(queue)) => Head(queue).about = {p}
  BY <1>1, <1>2 DEF OnlyFrom
<1> QED  BY <1>4, <1>5, <1>6 DEF rest

(* The places of a queue after its first notification is gone.             *)
LEMMA TailPlaces ==
  ASSUME NEW queue \in Seq(Notification), queue # << >>
  PROVE  /\ Tail(queue) \in Seq(Notification) /\ 1 \in DOMAIN queue /\ Head(queue) = queue[1]
         /\ \A i \in DOMAIN Tail(queue) :
              /\ i + 1 \in DOMAIN queue /\ Tail(queue)[i] = queue[i + 1]
              /\ i \in 1..Len(queue) /\ 1 < i + 1
         /\ Len(Tail(queue)) + 1 = Len(queue) /\ Len(queue) \in 1..Len(queue)
<1>1. PICK rest : rest = Tail(queue)
  OBVIOUS
<1>2. /\ rest \in Seq(Notification) /\ Len(rest) + 1 = Len(queue) /\ Len(rest) \in Nat
      /\ \A i \in 1..Len(rest) : rest[i] = queue[i + 1]
      /\ Head(queue) = queue[1]
  BY <1>1, TailParts
<1>3. DOMAIN rest = 1..Len(rest) /\ DOMAIN queue = 1..Len(queue)
  BY <1>2
<1> QED  BY <1>1, <1>2, <1>3

-----------------------------------------------------------------------------
(* Without a failure, a transport socket belongs to the name its transport *)
(* has now.                                                                *)
StaleInv == \A t \in Transports : socket[t] /\ t \notin lost => Ready(self, inbox, t)

(* A transport's name is its latest, and its opponent is not one of its    *)
(* own names.                                                              *)
LatestInv ==
  \A t \in Transports :
    /\ self[t] # None => \A p \in 1..Len(owner) : owner[p] = t => p <= self[t]
    /\ opponent[t] # None => owner[opponent[t]] # t

KnownInv ==
  \A t \in Transports :
    /\ participants[t] \subseteq 1..Len(owner)
    /\ \A i \in DOMAIN got[t] : got[t][i][1] <= Len(owner)
    /\ Orderly(inbox[t], t, self[t], owner, participants[t])

(* Whoever has called or answered u is connected to it, or can only become *)
(* connected to it.                                                        *)
CallInv ==
  \A t, u \in Transports : t # u /\ self[t] # None =>
    \A i \in DOMAIN inbox[u] : IsHello(inbox[u][i], self[t]) =>
      /\ Ready(self, inbox, t)
      /\ \/ opponent[t] = self[u]
         \/ /\ state[t] = "CONNECTING" /\ Asks(inbox[u][i])
            /\ OnlyFrom(inbox[t], self[u], Len(inbox[t]) + 1)

(* So is whoever u is connected to, and what makes it so is on its way.    *)
MutualInv ==
  \A t, u \in Transports :
    t # u /\ self[t] # None /\ Ready(self, inbox, u) /\ opponent[u] = self[t] =>
      /\ Ready(self, inbox, t)
      /\ \/ opponent[t] = self[u]
         \/ /\ state[t] = "CONNECTING"
            /\ Called(inbox[t], self[u], Len(inbox[t]) + 1)

(* A buffer reaches only who is connected to its sender.                   *)
BufferInv ==
  \A t \in Transports : \A j \in DOMAIN inbox[t] : \A p \in Participant :
    IsBuffer(inbox[t][j], p) /\ owner[p] \notin lost =>
      /\ Ready(self, inbox, t)
      /\ \/ opponent[t] = p
         \/ state[t] = "CONNECTING" /\ Called(inbox[t], p, j)

TrustInv ==
  /\ StaleInv /\ LatestInv /\ KnownInv
  /\ CallInv /\ MutualInv /\ BufferInv
  /\ StrangersHaveLost

-----------------------------------------------------------------------------
(* What is known of every state.                                           *)

LEMMA Known ==
  ASSUME IInv, FlowInv, TrustInv
  PROVE  /\ Len(owner) \in Nat
         /\ \A p \in 1..Len(owner) : owner[p] \in Transports /\ p \in Participant /\ p \in Nat
         /\ \A t \in Transports :
              /\ inbox[t] \in Seq(Notification)
              /\ self[t] # None =>
                   self[t] \in 1..Len(owner) /\ owner[self[t]] = t /\ self[t] \in Participant
              /\ inbox[t] # << >> => self[t] # None
              /\ opponent[t] # None => opponent[t] \in 1..Len(owner)
              /\ \A i \in DOMAIN got[t] : got[t][i][1] \in 1..Len(owner)
              /\ \A u \in Transports : self[t] # None /\ self[t] = self[u] => t = u
<1>1. SignalTypeOK /\ InboxInv
  BY DEF IInv, TypeOK
<1>2. /\ FlowTypes(self, inbox, opponent, socket, written, got)
      /\ NamesInv(self, inbox, opponent, Len(owner)) /\ KnownInv
  BY DEF FlowInv, Flow, TrustInv
<1>3. Len(owner) \in Nat /\ Len(owner) <= MaxJoins /\ owner \in Seq(Transports)
  BY <1>1 DEF SignalTypeOK
<1>4. \A p \in 1..Len(owner) : owner[p] \in Transports /\ p \in Participant /\ p \in Nat
  BY <1>3, SignalAssumption DEF Participant
<1>5. \A t \in Transports : self[t] # None => self[t] \in 1..Len(owner) /\ owner[self[t]] = t
  BY <1>1 DEF SignalTypeOK
<1>6. \A t \in Transports : opponent[t] # None => opponent[t] \in 1..Len(owner)
  <2> SUFFICES ASSUME NEW t \in Transports, opponent[t] # None
               PROVE  opponent[t] \in 1..Len(owner)
    OBVIOUS
  <2>1. opponent[t] \in Participant /\ opponent[t] <= Len(owner)
    BY <1>2 DEF FlowTypes, NamesInv
  <2> QED  BY <1>3, <2>1 DEF Participant
<1>7. \A t \in Transports : \A i \in DOMAIN got[t] : got[t][i][1] \in 1..Len(owner)
  <2> SUFFICES ASSUME NEW t \in Transports, NEW i \in DOMAIN got[t]
               PROVE  got[t][i][1] \in 1..Len(owner)
    OBVIOUS
  <2>1. got[t] \in Seq(Participant \X Nat)
    BY <1>2 DEF FlowTypes
  <2>2. got[t][i][1] \in Participant
    BY <2>1
  <2>3. got[t][i][1] <= Len(owner)
    BY <1>2 DEF KnownInv
  <2> QED  BY <1>3, <2>2, <2>3 DEF Participant
<1>8. \A t \in Transports : inbox[t] \in Seq(Notification) /\ (inbox[t] # << >> => self[t] # None)
  BY <1>2 DEF FlowTypes, Queues
<1> QED  BY <1>2, <1>3, <1>4, <1>5, <1>6, <1>7, <1>8 DEF FlowTypes

(* With two transports, whoever is not t is u.                             *)
LEMMA OtherIs ==
  ASSUME AtMostTwo, NEW t \in Transports, NEW u \in Transports, t # u,
         NEW v \in Transports, v # t
  PROVE  v = u
  BY DEF AtMostTwo

(* A failure, and perhaps a transport socket that is gone.                 *)
LEMMA TrustOfLoss ==
  ASSUME TrustInv, lost \subseteq lost',
         UNCHANGED <<self, inbox, owner, state, opponent, participants>>,
         \A x \in Transports : socket'[x] => socket[x] /\ got'[x] = got[x],
         \A x \in Transports : got'[x] = got[x] \/ got'[x] = << >>
  PROVE  TrustInv'
<1>1. StaleInv' /\ LatestInv' /\ CallInv' /\ MutualInv'
  BY DEF TrustInv, StaleInv, LatestInv, CallInv, MutualInv
<1>2. BufferInv' /\ StrangersHaveLost'
  BY DEF TrustInv, BufferInv, StrangersHaveLost
<1>3. KnownInv'
  BY DEF TrustInv, KnownInv
<1> QED  BY <1>1, <1>2, <1>3 DEF TrustInv

-----------------------------------------------------------------------------
(* The websocket of t is gone.                                             *)
LEMMA TrustOfLeaves ==
  ASSUME IInv, FlowInv, TrustInv, NEW t \in Transports,
         self' = [self EXCEPT ![t] = None], inbox' = [inbox EXCEPT ![t] = << >>],
         UNCHANGED <<owner, state, opponent, participants>>,
         \A x \in Transports : socket'[x] => socket[x] /\ got'[x] = got[x],
         \A x \in Transports : got'[x] = got[x] \/ got'[x] = << >>,
         socket'[t] => t \in lost', lost \subseteq lost'
  PROVE  TrustInv'
<1>1. /\ StaleInv /\ LatestInv /\ KnownInv /\ CallInv /\ MutualInv /\ BufferInv
      /\ StrangersHaveLost
  BY DEF TrustInv
<1>2. /\ self'[t] = None /\ inbox'[t] = << >>
      /\ \A x \in Transports \ {t} : self'[x] = self[x] /\ inbox'[x] = inbox[x]
  <2>1. self \in [Transports -> Participant \cup {None}] /\ inbox \in Queues
    BY DEF FlowInv, Flow, FlowTypes
  <2> QED  BY <2>1 DEF Queues
<1>3. \A x \in Transports \ {t} : Ready(self, inbox, x) <=> Ready(self', inbox', x)
  BY <1>2 DEF Ready
<1>4. DOMAIN << >> = {}
  OBVIOUS
<1>5. StaleInv'
  BY <1>1, <1>3 DEF StaleInv
<1>6. LatestInv'
  BY <1>1, <1>2 DEF LatestInv
<1>7. KnownInv'
  <2> SUFFICES ASSUME NEW x \in Transports
               PROVE  /\ participants[x] \subseteq 1..Len(owner)
                      /\ \A i \in DOMAIN got'[x] : got'[x][i][1] <= Len(owner)
                      /\ Orderly(inbox'[x], x, self'[x], owner, participants[x])
    BY DEF KnownInv
  <2>1. /\ participants[x] \subseteq 1..Len(owner)
        /\ \A i \in DOMAIN got'[x] : got'[x][i][1] <= Len(owner)
    BY <1>1, <1>4 DEF KnownInv
  <2>2. CASE x # t
    BY <1>1, <1>2, <2>1, <2>2 DEF KnownInv
  <2>3. CASE x = t
    <3>1. 0 \notin participants[x]
      BY <2>1
    <3> QED  BY <1>2, <1>4, <2>1, <2>3, <3>1 DEF Orderly
  <2> QED  BY <2>2, <2>3
<1>8. CallInv'
  <2> SUFFICES ASSUME NEW a \in Transports, NEW u \in Transports, NEW i \in DOMAIN inbox'[u],
                      a # u, self'[a] # None, IsHello(inbox'[u][i], self'[a])
               PROVE  /\ Ready(self', inbox', a)
                      /\ \/ opponent[a] = self'[u]
                         \/ /\ state[a] = "CONNECTING" /\ Asks(inbox'[u][i])
                            /\ OnlyFrom(inbox'[a], self'[u], Len(inbox'[a]) + 1)
    BY DEF CallInv
  <2>1. a # t /\ u # t
    BY <1>2, <1>4
  <2>2. self'[a] = self[a] /\ inbox'[u] = inbox[u] /\ inbox'[a] = inbox[a] /\ self'[u] = self[u]
    BY <1>2, <2>1
  <2> QED  BY <1>1, <1>3, <2>1, <2>2 DEF CallInv
<1>9. MutualInv'
  <2> SUFFICES ASSUME NEW a \in Transports, NEW u \in Transports,
                      a # u, self'[a] # None, Ready(self', inbox', u), opponent[u] = self'[a]
               PROVE  /\ Ready(self', inbox', a)
                      /\ \/ opponent[a] = self'[u]
                         \/ /\ state[a] = "CONNECTING"
                            /\ Called(inbox'[a], self'[u], Len(inbox'[a]) + 1)
    BY DEF MutualInv
  <2>1. a # t /\ u # t
    BY <1>2 DEF Ready
  <2>2. self'[a] = self[a] /\ inbox'[u] = inbox[u] /\ inbox'[a] = inbox[a] /\ self'[u] = self[u]
    BY <1>2, <2>1
  <2> QED  BY <1>1, <1>3, <2>1, <2>2 DEF MutualInv
<1>10. BufferInv'
  <2> SUFFICES ASSUME NEW x \in Transports, NEW j \in DOMAIN inbox'[x], NEW p \in Participant,
                      IsBuffer(inbox'[x][j], p), owner[p] \notin lost'
               PROVE  /\ Ready(self', inbox', x)
                      /\ opponent[x] = p \/ (state[x] = "CONNECTING" /\ Called(inbox'[x], p, j))
    BY DEF BufferInv
  <2>1. x # t
    BY <1>2, <1>4
  <2>2. inbox'[x] = inbox[x] /\ owner[p] \notin lost
    BY <1>2, <2>1
  <2> QED  BY <1>1, <1>3, <2>1, <2>2 DEF BufferInv
<1>11. StrangersHaveLost'
  BY <1>1 DEF StrangersHaveLost
<1> QED  BY <1>5, <1>6, <1>7, <1>8, <1>9, <1>10, <1>11 DEF TrustInv

-----------------------------------------------------------------------------
(* Notification n may be added to the queue of x.                          *)
Fits(n, x) ==
  /\ n.type = "registered-peer" => self[x] \notin n.about
  /\ n.type \in MessageType => \A q \in n.about :
       /\ owner[q] # x
       /\ \A p \in 1..Len(owner) : owner[p] # x => p <= q
       /\ \A i \in DOMAIN inbox[x] : inbox[x][i].type = "hungup" => q \notin inbox[x][i].about

BufferFits(n, x) ==
  \A p \in Participant : IsBuffer(n, p) /\ owner[p] \notin lost =>
    /\ Ready(self, inbox, x)
    /\ \/ opponent[x] = p
       \/ state[x] = "CONNECTING" /\ Called(inbox[x], p, Len(inbox[x]) + 1)

LEMMA OrderlyAdds ==
  ASSUME IInv, FlowInv, TrustInv, NEW x \in Transports,
         NEW n \in Notification, n.type # "connection", Fits(n, x),
         NEW queue2, queue2 = inbox[x] \/ queue2 = Append(inbox[x], n)
  PROVE  Orderly(queue2, x, self[x], owner, participants[x])
<1>1. inbox[x] \in Seq(Notification) /\ Len(owner) \in Nat
  BY Known
<1>2. /\ Orderly(inbox[x], x, self[x], owner, participants[x])
      /\ participants[x] \subseteq 1..Len(owner)
  BY DEF TrustInv, KnownInv
<1>3. \A i \in DOMAIN inbox[x] : inbox[x][i].about \subseteq 1..Len(owner)
  BY DEF FlowInv, NamesInv
<1>4. PICK queue, name, own, known, joined :
        /\ queue = inbox[x] /\ name = self[x] /\ own = owner /\ known = participants[x]
        /\ joined = Len(owner)
  OBVIOUS
<1>5. /\ n.type = "registered-peer" => name \notin n.about
      /\ n.type \in MessageType => \A q \in n.about :
           /\ own[q] # x
           /\ \A p \in 1..joined : own[p] # x => p <= q
           /\ \A i \in DOMAIN queue : queue[i].type = "hungup" => q \notin queue[i].about
  BY <1>4 DEF Fits
<1>6. Orderly(queue2, x, name, own, known)
  BY <1>1, <1>2, <1>3, <1>4, <1>5, OrderlyAppend
<1> QED  BY <1>4, <1>6

(* A notification is added to queues that does not call anybody.           *)
LEMMA TrustOfAdds ==
  ASSUME IInv, FlowInv, TrustInv,
         NEW n \in Notification, n.type # "connection", ~Says(n),
         \A x \in Transports :
           \/ inbox'[x] = inbox[x]
           \/ inbox'[x] = Append(inbox[x], n) /\ Fits(n, x) /\ BufferFits(n, x),
         UNCHANGED <<self, owner, state, opponent, participants, socket, got, lost>>
  PROVE  TrustInv'
<1>1. /\ StaleInv /\ LatestInv /\ KnownInv /\ CallInv /\ MutualInv /\ BufferInv
      /\ StrangersHaveLost
  BY DEF TrustInv
<1>2. PICK box2 : box2 = inbox'
  OBVIOUS
<1>3. \A x \in Transports : inbox[x] \in Seq(Notification)
  BY Known
<1>4. \A x \in Transports :
        /\ Waits(box2[x]) <=> Waits(inbox[x])
        /\ \A i \in DOMAIN box2[x] :
             \/ i \in DOMAIN inbox[x] /\ box2[x][i] = inbox[x][i]
             \/ /\ i >= Len(box2[x]) /\ box2[x][i] = n
                /\ box2[x] = Append(inbox[x], n) /\ Fits(n, x) /\ BufferFits(n, x)
  <2> SUFFICES ASSUME NEW x \in Transports
               PROVE  /\ Waits(box2[x]) <=> Waits(inbox[x])
                      /\ \A i \in DOMAIN box2[x] :
                           \/ i \in DOMAIN inbox[x] /\ box2[x][i] = inbox[x][i]
                           \/ /\ i >= Len(box2[x]) /\ box2[x][i] = n
                              /\ box2[x] = Append(inbox[x], n) /\ Fits(n, x) /\ BufferFits(n, x)
    OBVIOUS
  <2>1. CASE box2[x] = inbox[x]
    BY <2>1
  <2>2. CASE box2[x] = Append(inbox[x], n) /\ Fits(n, x) /\ BufferFits(n, x)
    <3>1. PICK queue, queue2 : queue = inbox[x] /\ queue2 = box2[x]
      OBVIOUS
    <3>2. queue \in Seq(Notification) /\ (queue2 = queue \/ queue2 = Append(queue, n))
      BY <1>3, <2>2, <3>1
    <3>3. /\ Waits(queue2) <=> Waits(queue)
          /\ \A i \in DOMAIN queue2 :
               \/ i \in DOMAIN queue /\ i \in 0..Len(queue) /\ queue2[i] = queue[i]
               \/ i \in Nat /\ i >= Len(queue2) /\ queue2[i] = n
      BY <3>2, PostedParts
    <3> QED  BY <2>2, <3>1, <3>3
  <2> QED  BY <1>2, <2>1, <2>2
<1>5. \A x \in Transports : Ready(self', inbox', x) <=> Ready(self, inbox, x)
  BY <1>2, <1>4 DEF Ready
<1>6. \A x \in Transports : \A p :
        /\ \A j \in 1..(Len(inbox[x]) + 1) : Called(inbox[x], p, j) => Called(box2[x], p, j)
        /\ OnlyFrom(inbox[x], p, Len(inbox[x]) + 1) => OnlyFrom(box2[x], p, Len(box2[x]) + 1)
        /\ Called(inbox[x], p, Len(inbox[x]) + 1) => Called(box2[x], p, Len(box2[x]) + 1)
  <2> SUFFICES ASSUME NEW x \in Transports, NEW p
               PROVE  /\ \A j \in 1..(Len(inbox[x]) + 1) :
                           Called(inbox[x], p, j) => Called(box2[x], p, j)
                      /\ OnlyFrom(inbox[x], p, Len(inbox[x]) + 1) =>
                           OnlyFrom(box2[x], p, Len(box2[x]) + 1)
                      /\ Called(inbox[x], p, Len(inbox[x]) + 1) =>
                           Called(box2[x], p, Len(box2[x]) + 1)
    OBVIOUS
  <2>1. box2[x] = inbox[x] \/ box2[x] = Append(inbox[x], n)
    BY <1>2
  <2>2. PICK queue, queue2 : queue = inbox[x] /\ queue2 = box2[x]
    OBVIOUS
  <2>3. queue \in Seq(Notification) /\ (queue2 = queue \/ queue2 = Append(queue, n))
    BY <1>3, <2>1, <2>2
  <2>4. /\ \A j \in 1..(Len(queue) + 1) : Called(queue, p, j) => Called(queue2, p, j)
        /\ OnlyFrom(queue, p, Len(queue) + 1) => OnlyFrom(queue2, p, Len(queue2) + 1)
        /\ Called(queue, p, Len(queue) + 1) => Called(queue2, p, Len(queue2) + 1)
    BY <2>3, CalledAppend
  <2> QED  BY <2>2, <2>4
<1>7. StaleInv' /\ LatestInv' /\ StrangersHaveLost'
  BY <1>1, <1>5 DEF StaleInv, LatestInv, StrangersHaveLost
<1>8. KnownInv'
  <2> SUFFICES ASSUME NEW x \in Transports
               PROVE  Orderly(inbox'[x], x, self[x], owner, participants[x])
    BY <1>1 DEF KnownInv
  <2>1. CASE inbox'[x] = inbox[x]
    BY <1>1, <2>1 DEF KnownInv
  <2>2. CASE inbox'[x] = Append(inbox[x], n) /\ Fits(n, x)
    <3>1. PICK queue2 : queue2 = inbox'[x]
      OBVIOUS
    <3>2. Orderly(queue2, x, self[x], owner, participants[x])
      BY <2>2, <3>1, OrderlyAdds
    <3> QED  BY <3>1, <3>2
  <2> QED  BY <2>1, <2>2
<1>9. CallInv'
  <2> SUFFICES ASSUME NEW a \in Transports, NEW u \in Transports, NEW i \in DOMAIN inbox'[u],
                      a # u, self'[a] # None, IsHello(inbox'[u][i], self'[a])
               PROVE  /\ Ready(self', inbox', a)
                      /\ \/ opponent'[a] = self'[u]
                         \/ /\ state'[a] = "CONNECTING" /\ Asks(inbox'[u][i])
                            /\ OnlyFrom(inbox'[a], self'[u], Len(inbox'[a]) + 1)
    BY DEF CallInv
  <2>1. ~IsHello(n, self[a])
    BY DEF IsHello, Says
  <2>2. i \in DOMAIN inbox[u] /\ inbox'[u][i] = inbox[u][i]
    BY <1>2, <1>4, <2>1
  <2> QED  BY <1>1, <1>2, <1>5, <1>6, <2>2 DEF CallInv
<1>10. MutualInv'
  BY <1>1, <1>2, <1>5, <1>6 DEF MutualInv
<1>11. BufferInv'
  <2> SUFFICES ASSUME NEW x \in Transports, NEW j \in DOMAIN inbox'[x], NEW p \in Participant,
                      IsBuffer(inbox'[x][j], p), owner[p] \notin lost
               PROVE  /\ Ready(self, inbox, x)
                      /\ opponent[x] = p \/ (state[x] = "CONNECTING" /\ Called(inbox'[x], p, j))
    BY <1>5 DEF BufferInv
  <2>1. CASE j \in DOMAIN inbox[x] /\ inbox'[x][j] = inbox[x][j]
    <3>1. j \in 1..(Len(inbox[x]) + 1)
      BY <1>3, <2>1
    <3> QED  BY <1>1, <1>2, <1>6, <2>1, <3>1 DEF BufferInv
  <2>2. CASE /\ j >= Len(inbox'[x]) /\ inbox'[x][j] = n
             /\ inbox'[x] = Append(inbox[x], n) /\ BufferFits(n, x)
    <3>1. PICK queue2 : queue2 = inbox'[x]
      OBVIOUS
    <3>2. queue2 \in Seq(Notification) /\ Len(queue2) = Len(inbox[x]) + 1 /\ Len(inbox[x]) \in Nat
      BY <1>3, <2>2, <3>1, AppendParts
    <3>3. j = Len(inbox[x]) + 1 /\ j \in 1..(Len(inbox[x]) + 1)
      BY <2>2, <3>1, <3>2
    <3> QED  BY <1>2, <1>6, <2>2, <3>3 DEF BufferFits
  <2> QED  BY <1>2, <1>4, <2>1, <2>2
<1> QED  BY <1>7, <1>8, <1>9, <1>10, <1>11 DEF TrustInv

LEMMA TrustOfHungup ==
  ASSUME IInv, FlowInv, TrustInv, ParticipantHungup
  PROVE  TrustInv'
<1>1. PICK p \in members : Hungup(p)
  BY DEF ParticipantHungup
<1>2. PICK n : n = Notice("hungup", {p})
  OBVIOUS
<1>3. /\ inbox' = Posted(inbox, members, n)
      /\ UNCHANGED <<self, owner, state, opponent, participants, socket, got, lost>>
  BY <1>1, <1>2 DEF ParticipantHungup, Hungup, peerVars, socketVars
<1>4. p \in Participant
  <2>1. members \subseteq 1..Len(owner)
    BY DEF IInv, TypeOK, SignalTypeOK
  <2> QED  BY <2>1, Known
<1>5. n \in Notification /\ n.type = "hungup"
  BY <1>2, <1>4, NoticeTypes DEF Notice
<1>6. n.type # "connection" /\ ~Says(n) /\ \A x \in Transports : Fits(n, x) /\ BufferFits(n, x)
  BY <1>5 DEF Says, Fits, BufferFits, IsBuffer, MessageType
<1>7. \A x \in Transports : inbox'[x] = inbox[x] \/ inbox'[x] = Append(inbox[x], n)
  BY <1>3 DEF Posted
<1> QED  BY <1>3, <1>5, <1>6, <1>7, TrustOfAdds

(* What t says to the other is in order.                                   *)
LEMMA SaidFits ==
  ASSUME IInv, FlowInv, TrustInv, AtMostTwo, NEW t \in Transports, self[t] # None,
         NEW x \in Transports, x # t, NEW n, n.type \in MessageType, n.about = {self[t]}
  PROVE  Fits(n, x)
<1>1. self[t] \in 1..Len(owner) /\ owner[self[t]] = t
  BY Known
<1>2. \A p \in 1..Len(owner) : owner[p] # x => p <= self[t]
  <2> SUFFICES ASSUME NEW p \in 1..Len(owner), owner[p] # x PROVE p <= self[t]
    OBVIOUS
  <2>1. owner[p] \in Transports
    BY Known
  <2>2. owner[p] = t
    BY <2>1, OtherIs
  <2> QED  BY <2>2 DEF TrustInv, LatestInv
<1>3. \A i \in DOMAIN inbox[x] : inbox[x][i].type = "hungup" => self[t] \notin inbox[x][i].about
  BY DEF FlowInv, NamesInv
<1>4. n.type # "registered-peer"
  BY DEF MessageType
<1> QED  BY <1>1, <1>2, <1>3, <1>4 DEF Fits

LEMMA TrustOfSend ==
  ASSUME IInv, FlowInv, TrustInv, AtMostTwo, NEW t \in Transports, sendMessageToParticipant(t)
  PROVE  TrustInv'
<1>1. /\ socket[t]
      /\ UNCHANGED <<self, owner, state, opponent, participants, socket, got, lost>>
  BY DEF sendMessageToParticipant, peerVars
<1>2. CASE UNCHANGED inbox
  BY <1>1, <1>2, TrustOfLoss
<1>3. ASSUME ws[t] = "open", NEW data \in Nat \X Nat,
             inbox' = Posted(inbox, {opponent[t]}, CustomData("BUFFER", self[t], data))
      PROVE  TrustInv'
  <2>1. PICK n : n = CustomData("BUFFER", self[t], data)
    OBVIOUS
  <2>2. self[t] # None /\ self[t] \in Participant
    <3>1. self[t] # None
      BY <1>3 DEF IInv, TypeOK, SignalTypeOK
    <3> QED  BY <3>1, Known
  <2>3. n \in Notification /\ n.type = "BUFFER" /\ n.about = {self[t]}
    <3>1. "BUFFER" \in MessageType
      BY DEF MessageType
    <3> QED  BY <2>1, <2>2, <3>1, NoticeTypes DEF CustomData
  <2>4. n.type # "connection" /\ ~Says(n) /\ n.type \in MessageType
    BY <2>3 DEF Says, MessageType
  <2>5. ASSUME NEW x \in Transports, inbox'[x] # inbox[x]
        PROVE  inbox'[x] = Append(inbox[x], n) /\ Fits(n, x) /\ BufferFits(n, x)
    <3>1. self[x] # None /\ self[x] = opponent[t] /\ inbox'[x] = Append(inbox[x], n)
      BY <1>3, <2>1, <2>5 DEF Posted
    <3>2. x # t
      <4>1. owner[opponent[t]] # t
        BY <3>1 DEF TrustInv, LatestInv
      <4> QED  BY <2>2, <3>1, <4>1, Known
    <3>3. Fits(n, x)
      BY <2>2, <2>3, <2>4, <3>2, SaidFits
    <3>4. BufferFits(n, x)
      <4> SUFFICES ASSUME NEW p \in Participant, IsBuffer(n, p), owner[p] \notin lost
                   PROVE  /\ Ready(self, inbox, x)
                          /\ \/ opponent[x] = p
                             \/ state[x] = "CONNECTING" /\ Called(inbox[x], p, Len(inbox[x]) + 1)
        BY DEF BufferFits
      <4>1. p = self[t] /\ t \notin lost
        <5>1. p = self[t]
          BY <2>3 DEF IsBuffer
        <5>2. owner[self[t]] = t
          BY <2>2, Known
        <5> QED  BY <5>1, <5>2
      <4>2. Ready(self, inbox, t)
        BY <1>1, <4>1 DEF TrustInv, StaleInv
      <4> QED  BY <3>1, <3>2, <4>1, <4>2 DEF TrustInv, MutualInv
    <3> QED  BY <3>1, <3>3, <3>4
  <2>6. \A x \in Transports :
          \/ inbox'[x] = inbox[x]
          \/ inbox'[x] = Append(inbox[x], n) /\ Fits(n, x) /\ BufferFits(n, x)
    BY <2>5
  <2> QED  BY <1>1, <2>3, <2>4, <2>6, TrustOfAdds
<1>4. <<written[t] + 1, 0>> \in Nat \X Nat
  <2>1. written[t] \in 0..MaxWrites
    BY DEF IInv, TypeOK
  <2> QED  BY <2>1
<1> QED  BY <1>2, <1>3, <1>4 DEF sendMessageToParticipant

LEMMA OrderlyOwner ==
  ASSUME NEW queue, NEW t, NEW name, NEW own, NEW known, NEW own2, NEW joined \in Nat,
         Orderly(queue, t, name, own, known),
         \A p \in 1..joined : own2[p] = own[p], known \subseteq 1..joined,
         \A i \in DOMAIN queue : queue[i].about \subseteq 1..joined
  PROVE  Orderly(queue, t, name, own2, known)
<1>1. \A i \in DOMAIN queue : \A p \in queue[i].about : own2[p] = own[p]
  OBVIOUS
<1>2. \A p \in known : own2[p] = own[p]
  OBVIOUS
<1>3. \A i \in DOMAIN queue :
        /\ queue[i].type \in MessageType => \A p \in queue[i].about : own2[p] # t
        /\ queue[i].type = "registered-peer" => name \notin queue[i].about
  BY <1>1 DEF Orderly
<1>4. \A i, j \in DOMAIN queue : i < j /\ queue[j].type \in MessageType =>
        \A q \in queue[j].about :
          /\ queue[i].type \in {"connection", "registered-peer"} =>
               \A p \in queue[i].about : own2[p] # t => p <= q
          /\ queue[i].type = "hungup" => q \notin queue[i].about
  BY <1>1 DEF Orderly
<1>5. ~Waits(queue) =>
        /\ name \notin known
        /\ \A i \in DOMAIN queue : queue[i].type \in MessageType =>
             \A p \in known, q \in queue[i].about : own2[p] # t => p <= q
  BY <1>2 DEF Orderly
<1> QED  BY <1>3, <1>4, <1>5 DEF Orderly

LEMMA TrustOfOpens ==
  ASSUME IInv, IInv', FlowInv, TrustInv, AtMostTwo, NEW t \in Transports,
         handleVkWebSocketSignalServerOnStarted(t)
  PROVE  TrustInv'
<1>1. /\ StaleInv /\ LatestInv /\ KnownInv /\ CallInv /\ MutualInv /\ BufferInv
      /\ StrangersHaveLost
  BY DEF TrustInv
<1>2. PICK p : p = Len(owner) + 1
  OBVIOUS
<1>3. PICK news, first : /\ news = Notice("registered-peer", {p})
                         /\ first = Notice("connection", members \cup {p})
  OBVIOUS
<1>4. /\ ws[t] = "opening" /\ p <= MaxJoins
      /\ self' = [self EXCEPT ![t] = p]
      /\ owner' = Append(owner, t)
      /\ inbox' = [Posted(inbox, members, news) EXCEPT ![t] = <<first>>]
      /\ UNCHANGED <<state, opponent, participants, socket, got, lost>>
  BY <1>2, <1>3 DEF handleVkWebSocketSignalServerOnStarted, WebSocketOpens, peerVars, socketVars
<1>5. /\ Len(owner) \in Nat /\ owner \in Seq(Transports) /\ members \subseteq 1..Len(owner)
      /\ self \in [Transports -> Participant \cup {None}]
  BY DEF IInv, TypeOK, SignalTypeOK
<1>6. /\ p \in Nat /\ p \in 1..p /\ 1..Len(owner) \subseteq 1..p /\ p \notin 1..Len(owner)
      /\ \A q \in 1..p : q \in 1..Len(owner) \/ q = p
      /\ \A q \in 1..Len(owner) : q <= p
  BY <1>2, <1>5
<1>7. /\ Len(owner') = p /\ owner'[p] = t
      /\ \A q \in 1..Len(owner) : owner'[q] = owner[q]
  <2>1. PICK longer : longer = Append(owner, t)
    OBVIOUS
  <2>2. Len(longer) = p /\ longer[p] = t /\ \A q \in 1..Len(owner) : longer[q] = owner[q]
    BY <1>2, <1>5, <2>1, AppendParts
  <2> QED  BY <1>4, <2>1, <2>2
<1>8. p \in Participant
  BY <1>4, <1>6, SignalAssumption DEF Participant
<1>9. /\ news \in Notification /\ news.type = "registered-peer" /\ news.about = {p}
      /\ first \in Notification /\ first.type = "connection"
  <2>1. members \cup {p} \subseteq Participant
    BY <1>5, <1>8, Known
  <2> QED  BY <1>3, <1>8, <2>1, NoticeTypes DEF Notice
<1>10. /\ self'[t] = p /\ inbox'[t] = <<first>>
       /\ \A x \in Transports \ {t} :
            /\ self'[x] = self[x]
            /\ inbox'[x] = inbox[x] \/ inbox'[x] = Append(inbox[x], news)
  BY <1>4, <1>5 DEF Posted
<1>11. Waits(inbox'[t]) /\ DOMAIN inbox'[t] = {1} /\ inbox'[t][1] = first
  <2>1. PICK queue : queue = <<first>>
    OBVIOUS
  <2>2. Waits(queue) /\ DOMAIN queue = {1} /\ queue[1] = first
    BY <1>9, <2>1 DEF Waits
  <2> QED  BY <1>10, <2>1, <2>2
<1>12. \A x \in Transports \ {t} :
         /\ Ready(self', inbox', x) <=> Ready(self, inbox, x)
         /\ \A i \in DOMAIN inbox'[x] :
              \/ /\ i \in DOMAIN inbox[x] /\ i \in 1..(Len(inbox[x]) + 1)
                 /\ inbox'[x][i] = inbox[x][i]
              \/ inbox'[x][i] = news
         /\ \A q : \A j \in 1..(Len(inbox[x]) + 1) :
              Called(inbox[x], q, j) => Called(inbox'[x], q, j)
  <2> TAKE x \in Transports \ {t}
  <2>1. PICK queue, queue2 : queue = inbox[x] /\ queue2 = inbox'[x]
    OBVIOUS
  <2>2. queue \in Seq(Notification) /\ (queue2 = queue \/ queue2 = Append(queue, news))
    BY <1>10, <2>1, Known
  <2>3. news.type # "connection"
    BY <1>9
  <2>4. /\ Waits(queue2) <=> Waits(queue)
        /\ \A i \in DOMAIN queue2 :
             \/ i \in DOMAIN queue /\ i \in 0..Len(queue) /\ queue2[i] = queue[i]
             \/ i \in Nat /\ i >= Len(queue2) /\ queue2[i] = news
    BY <1>9, <2>2, <2>3, PostedParts
  <2>5. \A i \in DOMAIN queue : i \in 1..(Len(queue) + 1)
    BY <2>2
  <2>6. \A q : \A j \in 1..(Len(queue) + 1) : Called(queue, q, j) => Called(queue2, q, j)
    BY <1>9, <2>2, CalledAppend
  <2>7. Ready(self', inbox', x) <=> Ready(self, inbox, x)
    BY <1>10, <2>1, <2>4 DEF Ready
  <2> QED  BY <2>1, <2>4, <2>5, <2>6, <2>7
<1>13. StaleInv'
  <2>1. socket[t] => t \in lost
    BY <1>4 DEF IInv, SocketInv
  <2> QED  BY <1>1, <1>4, <1>12, <2>1 DEF StaleInv
<1>14. \A x \in Transports : opponent[x] # None => opponent[x] \in 1..Len(owner)
  BY Known
<1>15. LatestInv'
  <2> SUFFICES ASSUME NEW x \in Transports
               PROVE  /\ self'[x] # None => \A q \in 1..p : owner'[q] = x => q <= self'[x]
                      /\ opponent[x] # None => owner'[opponent[x]] # x
    BY <1>4, <1>7 DEF LatestInv
  <2>1. opponent[x] # None => owner'[opponent[x]] # x
    BY <1>1, <1>7, <1>14 DEF LatestInv
  <2>2. CASE x = t
    BY <1>6, <1>10, <2>1, <2>2
  <2>3. CASE x # t
    BY <1>1, <1>6, <1>7, <1>10, <2>1, <2>3 DEF LatestInv
  <2> QED  BY <2>2, <2>3
<1>16. KnownInv'
  <2> SUFFICES ASSUME NEW x \in Transports
               PROVE  /\ participants[x] \subseteq 1..p
                      /\ \A i \in DOMAIN got[x] : got[x][i][1] <= p
                      /\ Orderly(inbox'[x], x, self'[x], owner', participants[x])
    BY <1>4, <1>7 DEF KnownInv
  <2>1. participants[x] \subseteq 1..Len(owner)
    BY <1>1 DEF KnownInv
  <2>2. \A i \in DOMAIN got[x] : got[x][i][1] <= p
    BY <1>6, Known
  <2>3. CASE x = t
    <3>1. first.type \notin MessageType /\ first.type # "registered-peer"
      BY <1>9 DEF MessageType
    <3>2. \A i, j \in {1} : ~(i < j)
      OBVIOUS
    <3>3. PICK queue, name, own : queue = inbox'[x] /\ name = self'[x] /\ own = owner'
      OBVIOUS
    <3>4. Waits(queue) /\ DOMAIN queue = {1} /\ queue[1] = first
      BY <1>11, <2>3, <3>3
    <3>5. Orderly(queue, x, name, own, participants[x])
      BY <3>1, <3>2, <3>4 DEF Orderly
    <3> QED  BY <1>6, <2>1, <2>2, <3>3, <3>5
  <2>4. CASE x # t
    <3>1. PICK queue, queue2, name, own, own2, known, joined :
            /\ queue = inbox[x] /\ queue2 = inbox'[x] /\ name = self[x] /\ own = owner
            /\ own2 = owner' /\ known = participants[x] /\ joined = Len(owner)
      OBVIOUS
    <3>2. /\ Orderly(queue, x, name, own, known) /\ known \subseteq 1..joined
          /\ \A i \in DOMAIN queue : queue[i].about \subseteq 1..joined
          /\ \A q \in 1..joined : own2[q] = own[q]
          /\ joined \in Nat /\ queue \in Seq(Notification)
      <4>1. \A i \in DOMAIN inbox[x] : inbox[x][i].about \subseteq 1..Len(owner)
        BY DEF FlowInv, NamesInv
      <4> QED  BY <1>1, <1>5, <1>7, <2>1, <3>1, <4>1, Known DEF KnownInv
    <3>3. Orderly(queue, x, name, own2, known)
      BY <3>2, OrderlyOwner
    <3>4. queue2 = queue \/ queue2 = Append(queue, news)
      BY <1>10, <2>4, <3>1
    <3>5. news.type # "connection" /\ news.type \notin MessageType
      BY <1>9 DEF MessageType
    <3>6. name \notin news.about
      <4>1. self[x] # None => self[x] \in 1..Len(owner)
        BY Known
      <4>2. p # None
        BY <1>6
      <4> QED  BY <1>6, <1>9, <3>1, <4>1, <4>2
    <3>7. Orderly(queue2, x, name, own2, known)
      BY <1>9, <3>2, <3>3, <3>4, <3>5, <3>6, OrderlyAppend
    <3>8. self'[x] = self[x]
      BY <1>10, <2>4
    <3> QED  BY <1>6, <2>1, <2>2, <3>1, <3>7, <3>8
  <2> QED  BY <2>3, <2>4
<1>17. CallInv'
  <2> SUFFICES ASSUME NEW a \in Transports, NEW u \in Transports, NEW i \in DOMAIN inbox'[u],
                      a # u, self'[a] # None, IsHello(inbox'[u][i], self'[a])
               PROVE  FALSE
    BY DEF CallInv
  <2>1. ~IsHello(first, self'[a]) /\ ~IsHello(news, self'[a])
    BY <1>9 DEF IsHello
  <2>2. u # t
    BY <1>11, <2>1
  <2>3. a = t
    BY <2>2, OtherIs
  <2>4. i \in DOMAIN inbox[u] /\ inbox'[u][i] = inbox[u][i]
    BY <1>12, <2>1, <2>2
  <2>5. inbox[u][i].about \subseteq 1..Len(owner)
    BY <2>4 DEF FlowInv, NamesInv
  <2>6. IsHello(inbox[u][i], p)
    BY <1>10, <2>3, <2>4
  <2> QED  BY <1>6, <2>5, <2>6 DEF IsHello
<1>18. MutualInv'
  <2> SUFFICES ASSUME NEW a \in Transports, NEW u \in Transports, a # u,
                      self'[a] # None, Ready(self', inbox', u), opponent[u] = self'[a]
               PROVE  FALSE
    BY <1>4 DEF MutualInv
  <2>1. u # t
    BY <1>11 DEF Ready
  <2>2. a = t
    BY <2>1, OtherIs
  <2>3. opponent[u] = p /\ p # None
    BY <1>6, <1>10, <2>2
  <2> QED  BY <1>6, <1>14, <2>3
<1>19. BufferInv'
  <2> SUFFICES ASSUME NEW x \in Transports, NEW j \in DOMAIN inbox'[x], NEW q \in Participant,
                      IsBuffer(inbox'[x][j], q), owner'[q] \notin lost
               PROVE  /\ Ready(self', inbox', x)
                      /\ opponent[x] = q \/ (state[x] = "CONNECTING" /\ Called(inbox'[x], q, j))
    BY <1>4 DEF BufferInv
  <2>1. ~IsBuffer(first, q) /\ ~IsBuffer(news, q)
    BY <1>9 DEF IsBuffer
  <2>2. x # t
    BY <1>11, <2>1
  <2>3. /\ j \in DOMAIN inbox[x] /\ j \in 1..(Len(inbox[x]) + 1)
        /\ inbox'[x][j] = inbox[x][j]
    BY <1>12, <2>1, <2>2
  <2>4. owner[q] \notin lost
    <3>1. inbox[x][j].about \subseteq 1..Len(owner)
      BY <2>3 DEF FlowInv, NamesInv
    <3>2. q \in 1..Len(owner)
      BY <2>3, <3>1 DEF IsBuffer
    <3> QED  BY <1>7, <3>2
  <2>5. /\ Ready(self, inbox, x)
        /\ opponent[x] = q \/ (state[x] = "CONNECTING" /\ Called(inbox[x], q, j))
    BY <1>1, <2>3, <2>4 DEF BufferInv
  <2> QED  BY <1>12, <2>2, <2>3, <2>5
<1>20. StrangersHaveLost'
  <2>1. \A x \in Transports : \A i \in DOMAIN got[x] : owner'[got[x][i][1]] = owner[got[x][i][1]]
    BY <1>7, Known
  <2> QED  BY <1>1, <1>4, <2>1 DEF StrangersHaveLost
<1> QED  BY <1>13, <1>15, <1>16, <1>17, <1>18, <1>19, <1>20 DEF TrustInv

-----------------------------------------------------------------------------
(* t reads its next notification, and may tell the other n.                *)
Handles(t, n) ==
  /\ inbox[t] # << >> /\ inbox'[t] = Tail(inbox[t])
  /\ n \in Notification /\ n.type \in {"CONNECT", "ACCEPT"} /\ n.about = {self[t]}
  /\ UNCHANGED <<self, owner, lost>>
  /\ \A x \in Transports \ {t} :
       /\ inbox'[x] = inbox[x] \/ (self[x] # None /\ inbox'[x] = Append(inbox[x], n))
       /\ state'[x] = state[x] /\ opponent'[x] = opponent[x]
       /\ participants'[x] = participants[x] /\ socket'[x] = socket[x] /\ got'[x] = got[x]

LEMMA HandledQueues ==
  ASSUME IInv, FlowInv, TrustInv, AtMostTwo, NEW t \in Transports, NEW n, Handles(t, n)
  PROVE  /\ self[t] # None /\ Ready(self, inbox', t)
         /\ Len(inbox[t]) \in 1..Len(inbox[t]) /\ Len(inbox'[t]) + 1 = Len(inbox[t])
         /\ 1 \in DOMAIN inbox[t] /\ Head(inbox[t]) = inbox[t][1]
         /\ \A i \in DOMAIN inbox'[t] :
              /\ i \in 1..Len(inbox[t]) /\ i + 1 \in DOMAIN inbox[t] /\ 1 < i + 1
              /\ inbox'[t][i] = inbox[t][i + 1]
         /\ \A p : \A j \in 1..Len(inbox[t]) :
              /\ OnlyFrom(inbox[t], p, j + 1) => OnlyFrom(inbox'[t], p, j)
              /\ Called(inbox[t], p, j + 1) /\ ~Says(Head(inbox[t])) => Called(inbox'[t], p, j)
              /\ OnlyFrom(inbox[t], p, j + 1) /\ Says(Head(inbox[t])) => Head(inbox[t]).about = {p}
         /\ \A x \in Transports \ {t} :
              /\ Ready(self, inbox', x) <=> Ready(self, inbox, x)
              /\ \A i \in DOMAIN inbox'[x] :
                   \/ /\ i \in DOMAIN inbox[x] /\ i \in 1..(Len(inbox[x]) + 1)
                      /\ inbox'[x][i] = inbox[x][i]
                   \/ inbox'[x][i] = n /\ self[x] # None /\ inbox'[x] = Append(inbox[x], n)
              /\ \A p : \A j \in 1..(Len(inbox[x]) + 1) :
                   Called(inbox[x], p, j) => Called(inbox'[x], p, j)
              /\ OnlyFrom(inbox[x], self[t], Len(inbox[x]) + 1) =>
                   /\ OnlyFrom(inbox'[x], self[t], Len(inbox'[x]) + 1)
                   /\ inbox'[x] = Append(inbox[x], n) =>
                        Called(inbox'[x], self[t], Len(inbox'[x]) + 1)
              /\ Called(inbox[x], self[t], Len(inbox[x]) + 1) =>
                   Called(inbox'[x], self[t], Len(inbox'[x]) + 1)
<1>1. /\ inbox[t] # << >> /\ inbox'[t] = Tail(inbox[t])
      /\ n \in Notification /\ Says(n) /\ n.about = {self[t]} /\ n.type # "connection"
      /\ \A x \in Transports \ {t} :
           inbox'[x] = inbox[x] \/ (self[x] # None /\ inbox'[x] = Append(inbox[x], n))
  BY DEF Handles, Says
<1>2. self[t] # None /\ \A x \in Transports : inbox[x] \in Seq(Notification)
  BY <1>1, Known
<1>3. PICK queue, rest : queue = inbox[t] /\ rest = inbox'[t]
  OBVIOUS
<1>4. queue \in Seq(Notification) /\ queue # << >> /\ rest = Tail(queue)
  BY <1>1, <1>2, <1>3
<1>5. /\ rest \in Seq(Notification) /\ 1 \in DOMAIN queue /\ Head(queue) = queue[1]
      /\ \A i \in DOMAIN rest :
           /\ i + 1 \in DOMAIN queue /\ rest[i] = queue[i + 1]
           /\ i \in 1..Len(queue) /\ 1 < i + 1
      /\ Len(rest) + 1 = Len(queue) /\ Len(queue) \in 1..Len(queue)
  BY <1>4, TailPlaces
<1>6. \A p : \A j \in 1..Len(queue) :
        /\ OnlyFrom(queue, p, j + 1) => OnlyFrom(rest, p, j)
        /\ Called(queue, p, j + 1) /\ ~Says(Head(queue)) => Called(rest, p, j)
        /\ OnlyFrom(queue, p, j + 1) /\ Says(Head(queue)) => Head(queue).about = {p}
  BY <1>4, CalledTail
<1>7. ~Waits(rest)
  <2> SUFFICES ASSUME rest # << >> PROVE Head(rest).type # "connection"
    BY DEF Waits
  <2>1. 1 \in DOMAIN rest /\ Head(rest) = rest[1]
    BY <1>5
  <2>2. 1 + 1 \in DOMAIN queue /\ rest[1] = queue[1 + 1] /\ 1 # 1 + 1
    BY <1>5, <2>1
  <2>3. QueueInv(inbox)
    BY DEF FlowInv, Flow
  <2> QED  BY <1>3, <2>1, <2>2, <2>3 DEF QueueInv
<1>8. ASSUME NEW x \in Transports \ {t}
      PROVE  /\ Ready(self, inbox', x) <=> Ready(self, inbox, x)
             /\ \A i \in DOMAIN inbox'[x] :
                  \/ /\ i \in DOMAIN inbox[x] /\ i \in 1..(Len(inbox[x]) + 1)
                     /\ inbox'[x][i] = inbox[x][i]
                  \/ inbox'[x][i] = n /\ self[x] # None /\ inbox'[x] = Append(inbox[x], n)
             /\ \A p : \A j \in 1..(Len(inbox[x]) + 1) :
                  Called(inbox[x], p, j) => Called(inbox'[x], p, j)
             /\ OnlyFrom(inbox[x], self[t], Len(inbox[x]) + 1) =>
                  /\ OnlyFrom(inbox'[x], self[t], Len(inbox'[x]) + 1)
                  /\ inbox'[x] = Append(inbox[x], n) =>
                       Called(inbox'[x], self[t], Len(inbox'[x]) + 1)
             /\ Called(inbox[x], self[t], Len(inbox[x]) + 1) =>
                  Called(inbox'[x], self[t], Len(inbox'[x]) + 1)
  <2>1. PICK short, long : short = inbox[x] /\ long = inbox'[x]
    OBVIOUS
  <2>2. /\ short \in Seq(Notification)
        /\ long = short \/ (self[x] # None /\ long = Append(short, n))
    BY <1>1, <1>2, <2>1
  <2>3. /\ Waits(long) <=> Waits(short)
        /\ \A i \in DOMAIN long :
             \/ i \in DOMAIN short /\ i \in 0..Len(short) /\ long[i] = short[i]
             \/ i \in Nat /\ i >= Len(long) /\ long[i] = n
    BY <1>1, <2>2, PostedParts
  <2>4. \A i \in DOMAIN short : i \in 1..(Len(short) + 1)
    BY <2>2
  <2>5. \A i \in DOMAIN long :
          \/ i \in DOMAIN short /\ i \in 1..(Len(short) + 1) /\ long[i] = short[i]
          \/ long[i] = n /\ self[x] # None /\ long = Append(short, n)
    BY <2>2, <2>3, <2>4
  <2>6. /\ \A p : \A j \in 1..(Len(short) + 1) : Called(short, p, j) => Called(long, p, j)
        /\ OnlyFrom(short, self[t], Len(short) + 1) => OnlyFrom(long, self[t], Len(long) + 1)
        /\ Called(short, self[t], Len(short) + 1) => Called(long, self[t], Len(long) + 1)
        /\ OnlyFrom(short, self[t], Len(short) + 1) /\ long = Append(short, n) =>
             Called(long, self[t], Len(long) + 1)
    BY <1>1, <2>2, CalledAppend
  <2>7. Ready(self, inbox', x) <=> Ready(self, inbox, x)
    BY <2>1, <2>3 DEF Ready
  <2> QED  BY <2>1, <2>5, <2>6, <2>7
<1>9. Ready(self, inbox', t)
  BY <1>2, <1>3, <1>7 DEF Ready
<1> QED  BY <1>2, <1>3, <1>5, <1>6, <1>8, <1>9

(* t keeps to what it may know, be connected to and have been given.       *)
KnowsRight(t) ==
  /\ opponent'[t] # None => owner[opponent'[t]] # t
  /\ participants'[t] \subseteq 1..Len(owner) /\ self[t] \notin participants'[t]
  /\ \A p \in participants'[t] :
       \/ p \in participants[t] /\ Head(inbox[t]).type # "connection"
       \/ p \in Head(inbox[t]).about /\ Head(inbox[t]).type \in {"connection", "registered-peer"}
  /\ \A i \in DOMAIN got'[t] : got'[t][i][1] <= Len(owner)
  /\ socket'[t] => \A i \in DOMAIN got'[t] :
                     got'[t][i][1] = opponent'[t] \/ owner[got'[t][i][1]] \in lost

(* So it does to who calls whom, and to who may have written.              *)
CallsRight(t, u) ==
  /\ \A i \in DOMAIN inbox'[u] : IsHello(inbox'[u][i], self[t]) =>
       \/ opponent'[t] = self[u]
       \/ /\ state'[t] = "CONNECTING" /\ Asks(inbox'[u][i])
          /\ OnlyFrom(inbox'[t], self[u], Len(inbox'[t]) + 1)
  /\ opponent'[t] = self[u] =>
       /\ Ready(self, inbox, u)
       /\ \/ opponent[u] = self[t]
          \/ state[u] = "CONNECTING" /\ Called(inbox'[u], self[t], Len(inbox'[u]) + 1)
  /\ Ready(self, inbox, u) /\ opponent[u] = self[t] =>
       \/ opponent'[t] = self[u]
       \/ state'[t] = "CONNECTING" /\ Called(inbox'[t], self[u], Len(inbox'[t]) + 1)

TrustsRight(t) ==
  \A j \in DOMAIN inbox'[t], p \in Participant :
    IsBuffer(inbox'[t][j], p) /\ owner[p] \notin lost =>
      opponent'[t] = p \/ (state'[t] = "CONNECTING" /\ Called(inbox'[t], p, j))

LEMMA TrustOfRead ==
  ASSUME IInv, FlowInv, TrustInv, AtMostTwo, NEW t \in Transports, NEW n, Handles(t, n),
         KnowsRight(t), TrustsRight(t),
         \A u \in Transports \ {t} : self[u] # None => CallsRight(t, u)
  PROVE  TrustInv'
<1>1. /\ StaleInv /\ LatestInv /\ KnownInv /\ CallInv /\ MutualInv /\ BufferInv
      /\ StrangersHaveLost
  BY DEF TrustInv
<1>2. /\ inbox[t] # << >> /\ inbox'[t] = Tail(inbox[t])
      /\ n \in Notification /\ n.type \in {"CONNECT", "ACCEPT"} /\ n.about = {self[t]}
      /\ UNCHANGED <<self, owner, lost>>
      /\ \A x \in Transports \ {t} :
           /\ inbox'[x] = inbox[x] \/ (self[x] # None /\ inbox'[x] = Append(inbox[x], n))
           /\ state'[x] = state[x] /\ opponent'[x] = opponent[x]
           /\ participants'[x] = participants[x] /\ socket'[x] = socket[x] /\ got'[x] = got[x]
  BY DEF Handles
<1>3. /\ self[t] # None /\ Ready(self, inbox', t)
      /\ \A i \in DOMAIN inbox'[t] :
           /\ i + 1 \in DOMAIN inbox[t] /\ inbox'[t][i] = inbox[t][i + 1]
  BY HandledQueues
<1>4. \A x \in Transports \ {t} :
        /\ Ready(self, inbox', x) <=> Ready(self, inbox, x)
        /\ \A i \in DOMAIN inbox'[x] :
             \/ /\ i \in DOMAIN inbox[x] /\ i \in 1..(Len(inbox[x]) + 1)
                /\ inbox'[x][i] = inbox[x][i]
             \/ inbox'[x][i] = n /\ self[x] # None /\ inbox'[x] = Append(inbox[x], n)
        /\ \A p : \A j \in 1..(Len(inbox[x]) + 1) :
             Called(inbox[x], p, j) => Called(inbox'[x], p, j)
        /\ OnlyFrom(inbox[x], self[t], Len(inbox[x]) + 1) =>
             OnlyFrom(inbox'[x], self[t], Len(inbox'[x]) + 1)
  BY HandledQueues
<1>5. StaleInv'
  BY <1>1, <1>2, <1>3, <1>4 DEF StaleInv
<1>6. LatestInv'
  <2>1. \A x \in Transports : opponent'[x] # None => owner[opponent'[x]] # x
    BY <1>1, <1>2 DEF LatestInv, KnowsRight
  <2> QED  BY <1>1, <1>2, <2>1 DEF LatestInv
<1>7. KnownInv'
  <2> SUFFICES ASSUME NEW x \in Transports
               PROVE  /\ participants'[x] \subseteq 1..Len(owner)
                      /\ \A i \in DOMAIN got'[x] : got'[x][i][1] <= Len(owner)
                      /\ Orderly(inbox'[x], x, self[x], owner, participants'[x])
    BY <1>2 DEF KnownInv
  <2>1. CASE x = t
    <3>1. PICK queue, rest, name, own, known, known2 :
            /\ queue = inbox[t] /\ rest = inbox'[t] /\ name = self[t] /\ own = owner
            /\ known = participants[t] /\ known2 = participants'[t]
      OBVIOUS
    <3>2. /\ queue \in Seq(Notification) /\ queue # << >>
          /\ Orderly(queue, t, name, own, known) /\ name \notin known2
          /\ \A p \in known2 :
               \/ p \in known /\ Head(queue).type # "connection"
               \/ p \in Head(queue).about /\ Head(queue).type \in {"connection", "registered-peer"}
      BY <1>1, <1>2, <3>1, Known DEF KnownInv, KnowsRight
    <3>3. Orderly(Tail(queue), t, name, own, known2)
      BY <3>2, OrderlyTail
    <3>4. rest = Tail(queue)
      BY <1>2, <3>1
    <3> QED  BY <2>1, <3>1, <3>3, <3>4 DEF KnowsRight
  <2>2. CASE x # t
    <3>1. PICK queue2 : queue2 = inbox'[x]
      OBVIOUS
    <3>2. queue2 = inbox[x] \/ queue2 = Append(inbox[x], n)
      BY <1>2, <2>2, <3>1
    <3>3. n.type # "connection" /\ n.type \in MessageType
      BY <1>2 DEF MessageType
    <3>4. Fits(n, x)
      BY <1>2, <1>3, <2>2, <3>3, SaidFits
    <3>5. Orderly(queue2, x, self[x], owner, participants[x])
      BY <1>2, <3>2, <3>3, <3>4, OrderlyAdds
    <3>6. Orderly(inbox'[x], x, self[x], owner, participants'[x])
      BY <1>2, <2>2, <3>1, <3>5
    <3> QED  BY <1>1, <1>2, <2>2, <3>6 DEF KnownInv
  <2> QED  BY <2>1, <2>2
<1>8. CallInv'
  <2> SUFFICES ASSUME NEW a \in Transports, NEW u \in Transports, NEW i \in DOMAIN inbox'[u],
                      a # u, self[a] # None, IsHello(inbox'[u][i], self[a])
               PROVE  /\ Ready(self, inbox', a)
                      /\ \/ opponent'[a] = self[u]
                         \/ /\ state'[a] = "CONNECTING" /\ Asks(inbox'[u][i])
                            /\ OnlyFrom(inbox'[a], self[u], Len(inbox'[a]) + 1)
    BY <1>2 DEF CallInv
  <2>1. CASE a = t
    <3>1. self[u] # None
      <4>1. i \in DOMAIN inbox[u] => inbox[u] # << >>
        OBVIOUS
      <4> QED  BY <1>4, <2>1, <4>1, Known
    <3>2. CallsRight(t, u)
      BY <2>1, <3>1
    <3> QED  BY <1>3, <2>1, <3>2 DEF CallsRight
  <2>2. CASE a # t
    <3>1. u = t
      BY <2>2, OtherIs
    <3>2. i + 1 \in DOMAIN inbox[t] /\ inbox'[t][i] = inbox[t][i + 1]
      BY <1>3, <3>1
    <3>3. /\ Ready(self, inbox, a)
          /\ \/ opponent[a] = self[t]
             \/ /\ state[a] = "CONNECTING" /\ Asks(inbox[t][i + 1])
                /\ OnlyFrom(inbox[a], self[t], Len(inbox[a]) + 1)
      BY <1>1, <2>2, <3>1, <3>2 DEF CallInv
    <3> QED  BY <1>2, <1>4, <2>2, <3>1, <3>2, <3>3
  <2> QED  BY <2>1, <2>2
<1>9. MutualInv'
  <2> SUFFICES ASSUME NEW a \in Transports, NEW u \in Transports, a # u,
                      self[a] # None, Ready(self, inbox', u), opponent'[u] = self[a]
               PROVE  /\ Ready(self, inbox', a)
                      /\ \/ opponent'[a] = self[u]
                         \/ /\ state'[a] = "CONNECTING"
                            /\ Called(inbox'[a], self[u], Len(inbox'[a]) + 1)
    BY <1>2 DEF MutualInv
  <2>1. CASE a = t
    <3>1. Ready(self, inbox, u) /\ opponent[u] = self[t] /\ self[u] # None
      BY <1>2, <1>4, <2>1 DEF Ready
    <3>2. CallsRight(t, u)
      BY <2>1, <3>1
    <3> QED  BY <1>3, <2>1, <3>1, <3>2 DEF CallsRight
  <2>2. CASE a # t
    <3>1. u = t
      BY <2>2, OtherIs
    <3>2. CallsRight(t, a)
      BY <2>2
    <3> QED  BY <1>2, <1>4, <2>2, <3>1, <3>2 DEF CallsRight
  <2> QED  BY <2>1, <2>2
<1>10. BufferInv'
  <2> SUFFICES ASSUME NEW x \in Transports, NEW j \in DOMAIN inbox'[x], NEW p \in Participant,
                      IsBuffer(inbox'[x][j], p), owner[p] \notin lost
               PROVE  /\ Ready(self, inbox', x)
                      /\ opponent'[x] = p \/ (state'[x] = "CONNECTING" /\ Called(inbox'[x], p, j))
    BY <1>2 DEF BufferInv
  <2>1. CASE x = t
    BY <1>3, <2>1 DEF TrustsRight
  <2>2. CASE x # t
    <3>1. ~IsBuffer(n, p)
      BY <1>2 DEF IsBuffer
    <3>2. j \in DOMAIN inbox[x] /\ j \in 1..(Len(inbox[x]) + 1) /\ inbox'[x][j] = inbox[x][j]
      BY <1>4, <2>2, <3>1
    <3>3. /\ Ready(self, inbox, x)
          /\ opponent[x] = p \/ (state[x] = "CONNECTING" /\ Called(inbox[x], p, j))
      BY <1>1, <3>2 DEF BufferInv
    <3> QED  BY <1>2, <1>4, <2>2, <3>2, <3>3
  <2> QED  BY <2>1, <2>2
<1>11. StrangersHaveLost'
  <2>1. \A x \in Transports : socket'[x] => \A i \in DOMAIN got'[x] :
          got'[x][i][1] = opponent'[x] \/ owner[got'[x][i][1]] \in lost
    BY <1>1, <1>2 DEF StrangersHaveLost, KnowsRight
  <2> QED  BY <1>2, <2>1 DEF StrangersHaveLost
<1> QED  BY <1>5, <1>6, <1>7, <1>8, <1>9, <1>10, <1>11 DEF TrustInv

LEMMA SilentRead ==
  ASSUME IInv, FlowInv, TrustInv, NEW t \in Transports, inbox[t] # << >>, inbox' = Received(t),
         UNCHANGED <<self, owner, lost>>,
         \A x \in Transports \ {t} :
           /\ state'[x] = state[x] /\ opponent'[x] = opponent[x]
           /\ participants'[x] = participants[x] /\ socket'[x] = socket[x] /\ got'[x] = got[x]
  PROVE  /\ Handles(t, CustomData("CONNECT", self[t], <<0, 0>>))
         /\ \A x \in Transports \ {t} : inbox'[x] = inbox[x]
<1>1. inbox \in Queues
  BY DEF FlowInv, Flow, FlowTypes
<1>2. inbox'[t] = Tail(inbox[t]) /\ \A x \in Transports \ {t} : inbox'[x] = inbox[x]
  BY <1>1 DEF Received, Queues
<1>3. PICK n : n = CustomData("CONNECT", self[t], <<0, 0>>)
  OBVIOUS
<1>4. n \in Notification /\ n.type \in {"CONNECT", "ACCEPT"} /\ n.about = {self[t]}
  <2>1. self[t] \in Participant
    BY Known
  <2>2. "CONNECT" \in MessageType /\ <<0, 0>> \in Nat \X Nat
    BY DEF MessageType
  <2> QED  BY <1>3, <2>1, <2>2, NoticeTypes DEF CustomData
<1>5. Handles(t, n)
  BY <1>2, <1>4 DEF Handles
<1> QED  BY <1>2, <1>3, <1>5

(* It stays connected to whom it is, or to nobody.                         *)
LEMMA TrustOfKept ==
  ASSUME IInv, FlowInv, TrustInv, AtMostTwo, NEW t \in Transports,
         inbox[t] # << >>, inbox' = Received(t),
         Head(inbox[t]).type # "connection", state[t] = "CONNECTING" => ~Says(Head(inbox[t])),
         UNCHANGED <<self, owner, lost, state, opponent, socket>>,
         \A x \in Transports \ {t} : participants'[x] = participants[x] /\ got'[x] = got[x],
         \A p \in participants'[t] :
           \/ p \in participants[t]
           \/ p \in Head(inbox[t]).about /\ Head(inbox[t]).type = "registered-peer",
         \/ got'[t] = got[t]
         \/ /\ socket[t]
            /\ \E p \in Participant, k \in Nat :
                 IsBuffer(Head(inbox[t]), p) /\ got'[t] = Append(got[t], <<p, k>>)
  PROVE  TrustInv'
<1>1. PICK n : n = CustomData("CONNECT", self[t], <<0, 0>>)
  OBVIOUS
<1>2. Handles(t, n) /\ \A x \in Transports \ {t} : inbox'[x] = inbox[x]
  BY <1>1, SilentRead
<1>3. /\ self[t] # None /\ Ready(self, inbox', t)
      /\ Len(inbox[t]) \in 1..Len(inbox[t]) /\ Len(inbox'[t]) + 1 = Len(inbox[t])
      /\ 1 \in DOMAIN inbox[t] /\ Head(inbox[t]) = inbox[t][1]
      /\ \A i \in DOMAIN inbox'[t] :
           /\ i \in 1..Len(inbox[t]) /\ i + 1 \in DOMAIN inbox[t]
           /\ inbox'[t][i] = inbox[t][i + 1]
      /\ \A p : \A j \in 1..Len(inbox[t]) :
           /\ OnlyFrom(inbox[t], p, j + 1) => OnlyFrom(inbox'[t], p, j)
           /\ Called(inbox[t], p, j + 1) /\ ~Says(Head(inbox[t])) => Called(inbox'[t], p, j)
  BY <1>2, HandledQueues
<1>4. KnowsRight(t)
  <2>1. /\ Orderly(inbox[t], t, self[t], owner, participants[t])
        /\ participants[t] \subseteq 1..Len(owner) /\ ~Waits(inbox[t])
    BY DEF TrustInv, KnownInv, Waits
  <2>2. /\ self[t] \notin participants[t]
        /\ Head(inbox[t]).type = "registered-peer" => self[t] \notin Head(inbox[t]).about
    BY <1>3, <2>1 DEF Orderly
  <2>3. Head(inbox[t]).about \subseteq 1..Len(owner)
    BY <1>3 DEF FlowInv, NamesInv
  <2>4. opponent'[t] # None => owner[opponent'[t]] # t
    BY DEF TrustInv, LatestInv
  <2>5. /\ participants'[t] \subseteq 1..Len(owner) /\ self[t] \notin participants'[t]
        /\ \A p \in participants'[t] :
             \/ p \in participants[t] /\ Head(inbox[t]).type # "connection"
             \/ p \in Head(inbox[t]).about
                /\ Head(inbox[t]).type \in {"connection", "registered-peer"}
    BY <2>1, <2>2, <2>3
  <2>6. /\ \A i \in DOMAIN got[t] : got[t][i][1] <= Len(owner)
        /\ socket[t] => \A i \in DOMAIN got[t] :
                          got[t][i][1] = opponent[t] \/ owner[got[t][i][1]] \in lost
    BY DEF TrustInv, KnownInv, StrangersHaveLost
  <2>7. /\ \A i \in DOMAIN got'[t] : got'[t][i][1] <= Len(owner)
        /\ socket'[t] => \A i \in DOMAIN got'[t] :
                           got'[t][i][1] = opponent'[t] \/ owner[got'[t][i][1]] \in lost
    <3>1. CASE got'[t] = got[t]
      BY <2>6, <3>1
    <3>2. ASSUME socket[t], NEW p \in Participant, NEW k \in Nat,
                 IsBuffer(Head(inbox[t]), p), got'[t] = Append(got[t], <<p, k>>)
          PROVE  /\ \A i \in DOMAIN got'[t] : got'[t][i][1] <= Len(owner)
                 /\ \A i \in DOMAIN got'[t] :
                      got'[t][i][1] = opponent'[t] \/ owner[got'[t][i][1]] \in lost
      <4>1. PICK longer : longer = got'[t]
        OBVIOUS
      <4>2. got[t] \in Seq(Participant \X Nat) /\ <<p, k>> \in Participant \X Nat
        BY DEF FlowInv, Flow, FlowTypes
      <4>3. \A i \in DOMAIN longer :
              (i \in DOMAIN got[t] /\ longer[i] = got[t][i]) \/ longer[i] = <<p, k>>
        <5>1. /\ longer \in Seq(Participant \X Nat) /\ Len(longer) = Len(got[t]) + 1
              /\ \A i \in 1..Len(got[t]) : longer[i] = got[t][i]
              /\ longer[Len(got[t]) + 1] = <<p, k>>
          BY <3>2, <4>1, <4>2, AppendParts
        <5>2. /\ DOMAIN longer = 1..(Len(got[t]) + 1) /\ DOMAIN got[t] = 1..Len(got[t])
              /\ Len(got[t]) \in Nat
          BY <4>2, <5>1
        <5>3. \A i \in 1..(Len(got[t]) + 1) : i \in 1..Len(got[t]) \/ i = Len(got[t]) + 1
          BY <5>2
        <5> QED  BY <5>1, <5>2, <5>3
      <4>4. p <= Len(owner)
        <5>1. p \in 1..Len(owner)
          BY <2>3, <3>2 DEF IsBuffer
        <5> QED  BY <5>1
      <4>5. opponent[t] = p \/ owner[p] \in lost
        <5>1. state[t] # "CONNECTING"
          BY <3>2 DEF IInv, TypeOK
        <5> QED  BY <1>3, <3>2, <5>1 DEF TrustInv, BufferInv
      <4>6. <<p, k>>[1] = p
        OBVIOUS
      <4>7. \A i \in DOMAIN longer : longer[i][1] <= Len(owner)
        BY <2>6, <4>3, <4>4, <4>6
      <4>8. \A i \in DOMAIN longer :
              longer[i][1] = opponent[t] \/ owner[longer[i][1]] \in lost
        BY <2>6, <3>2, <4>3, <4>5, <4>6
      <4> QED  BY <4>1, <4>7, <4>8
    <3> QED  BY <3>1, <3>2
  <2> QED  BY <2>4, <2>5, <2>7 DEF KnowsRight
<1>5. TrustsRight(t)
  <2> SUFFICES ASSUME NEW j \in DOMAIN inbox'[t], NEW p \in Participant,
                      IsBuffer(inbox'[t][j], p), owner[p] \notin lost
               PROVE  opponent[t] = p \/ (state[t] = "CONNECTING" /\ Called(inbox'[t], p, j))
    BY DEF TrustsRight
  <2>1. /\ j \in 1..Len(inbox[t]) /\ j + 1 \in DOMAIN inbox[t]
        /\ IsBuffer(inbox[t][j + 1], p)
    BY <1>3
  <2>2. opponent[t] = p \/ (state[t] = "CONNECTING" /\ Called(inbox[t], p, j + 1))
    BY <2>1 DEF TrustInv, BufferInv
  <2> QED  BY <1>3, <2>1, <2>2
<1>6. ASSUME NEW u \in Transports \ {t}, self[u] # None
      PROVE  CallsRight(t, u)
  <2>1. \A i \in DOMAIN inbox[u] : IsHello(inbox[u][i], self[t]) =>
          \/ opponent[t] = self[u]
          \/ /\ state[t] = "CONNECTING" /\ Asks(inbox[u][i])
             /\ OnlyFrom(inbox[t], self[u], Len(inbox[t]) + 1)
    BY <1>3 DEF TrustInv, CallInv
  <2>2. opponent[t] = self[u] =>
          /\ Ready(self, inbox, u)
          /\ \/ opponent[u] = self[t]
             \/ state[u] = "CONNECTING" /\ Called(inbox[u], self[t], Len(inbox[u]) + 1)
    <3>1. Ready(self, inbox, t)
      BY <1>3 DEF Ready, Waits
    <3> QED  BY <1>6, <3>1 DEF TrustInv, MutualInv
  <2>3. Ready(self, inbox, u) /\ opponent[u] = self[t] =>
          \/ opponent[t] = self[u]
          \/ state[t] = "CONNECTING" /\ Called(inbox[t], self[u], Len(inbox[t]) + 1)
    BY <1>3 DEF TrustInv, MutualInv
  <2> QED  BY <1>2, <1>3, <2>1, <2>2, <2>3 DEF CallsRight
<1> QED  BY <1>2, <1>4, <1>5, <1>6, TrustOfRead

(* It is connected to nobody, and calls the others it knows of.            *)
LEMMA TrustOfConnecting ==
  ASSUME IInv, FlowInv, TrustInv, AtMostTwo, NEW t \in Transports, inbox[t] # << >>,
         NEW others, setStateConnecting(t, others, Received(t)),
         UNCHANGED <<self, owner, lost>>,
         \/ /\ Head(inbox[t]).type = "connection"
            /\ others = Head(inbox[t]).about \ {self[t]}
         \/ /\ Head(inbox[t]).type = "hungup" /\ others \subseteq participants[t]
            /\ state[t] = "CONNECTED" /\ opponent[t] \in Head(inbox[t]).about
  PROVE  TrustInv'
<1>1. /\ state' = [state EXCEPT ![t] = "CONNECTING"]
      /\ opponent' = [opponent EXCEPT ![t] = None]
      /\ participants' = [participants EXCEPT ![t] = others]
      /\ socket' = [socket EXCEPT ![t] = FALSE]
      /\ got' = [got EXCEPT ![t] = << >>]
      /\ inbox' = Posted(Received(t), others, CustomData("CONNECT", self[t], <<0, 0>>))
  BY DEF setStateConnecting, destroyTransportSocket
<1>2. PICK n : n = CustomData("CONNECT", self[t], <<0, 0>>)
  OBVIOUS
<1>3. self[t] # None /\ self[t] \in Participant
  BY Known
<1>4. n \in Notification /\ n.type = "CONNECT" /\ n.about = {self[t]}
  <2>1. "CONNECT" \in MessageType /\ <<0, 0>> \in Nat \X Nat
    BY DEF MessageType
  <2> QED  BY <1>2, <1>3, <2>1, NoticeTypes DEF CustomData
<1>5. /\ state'[t] = "CONNECTING" /\ opponent'[t] = None /\ participants'[t] = others
      /\ ~socket'[t] /\ got'[t] = << >>
  BY DEF IInv, TypeOK, setStateConnecting, destroyTransportSocket
<1>6. \A x \in Transports \ {t} :
        /\ state'[x] = state[x] /\ opponent'[x] = opponent[x]
        /\ participants'[x] = participants[x] /\ socket'[x] = socket[x] /\ got'[x] = got[x]
  BY <1>1 DEF IInv, TypeOK
<1>7. inbox \in Queues
  BY DEF FlowInv, Flow, FlowTypes
<1>8. others \subseteq 1..Len(owner) /\ self[t] \notin others
  <2>1. /\ Orderly(inbox[t], t, self[t], owner, participants[t])
        /\ participants[t] \subseteq 1..Len(owner)
    BY DEF TrustInv, KnownInv
  <2>2. inbox[t] \in Seq(Notification)
    BY <1>7 DEF Queues
  <2>3. Head(inbox[t]).about \subseteq 1..Len(owner)
    <3>1. 1 \in DOMAIN inbox[t] /\ Head(inbox[t]) = inbox[t][1]
      BY <2>2
    <3> QED  BY <3>1 DEF FlowInv, NamesInv
  <2>4. Head(inbox[t]).type = "hungup" => self[t] \notin participants[t]
    BY <2>1 DEF Orderly, Waits
  <2> QED  BY <2>1, <2>3, <2>4
<1>9. /\ inbox'[t] = Tail(inbox[t])
      /\ \A x \in Transports \ {t} :
           inbox'[x] = IF self[x] # None /\ self[x] \in others
                         THEN Append(inbox[x], n) ELSE inbox[x]
  <2>1. Received(t)[t] = Tail(inbox[t]) /\ \A x \in Transports \ {t} : Received(t)[x] = inbox[x]
    BY <1>7 DEF Received, Queues
  <2> QED  BY <1>1, <1>2, <1>8, <2>1 DEF Posted
<1>10. Handles(t, n)
  BY <1>4, <1>6, <1>9 DEF Handles
<1>11. /\ 1 \in DOMAIN inbox[t] /\ Head(inbox[t]) = inbox[t][1]
       /\ \A i \in DOMAIN inbox'[t] :
            /\ i + 1 \in DOMAIN inbox[t] /\ 1 < i + 1 /\ inbox'[t][i] = inbox[t][i + 1]
       /\ \A x \in Transports \ {t} : \A i \in DOMAIN inbox'[x] :
            \/ i \in DOMAIN inbox[x] /\ inbox'[x][i] = inbox[x][i]
            \/ inbox'[x][i] = n /\ self[x] # None /\ inbox'[x] = Append(inbox[x], n)
  BY <1>10, HandledQueues
<1>12. KnowsRight(t)
  <2>1. DOMAIN << >> = {}
    OBVIOUS
  <2>2. \A p \in others :
          \/ p \in participants[t] /\ Head(inbox[t]).type # "connection"
          \/ p \in Head(inbox[t]).about
             /\ Head(inbox[t]).type \in {"connection", "registered-peer"}
    OBVIOUS
  <2> QED  BY <1>5, <1>8, <2>1, <2>2 DEF KnowsRight
<1>13. \A u \in Transports \ {t} :
         self[u] # None => ~(Ready(self, inbox, t) /\ opponent[t] = self[u])
  <2>1. Head(inbox[t]).type = "connection" => ~Ready(self, inbox, t)
    BY DEF Ready, Waits
  <2>2. Head(inbox[t]).type = "hungup" =>
          \A u \in Transports : self[u] \notin Head(inbox[t]).about
    BY <1>11 DEF FlowInv, NamesInv
  <2> QED  BY <2>1, <2>2
<1>14. ~(Ready(self, inbox, t) /\ state[t] = "CONNECTING")
  BY DEF Ready, Waits
<1>15. TrustsRight(t)
  <2> SUFFICES ASSUME NEW j \in DOMAIN inbox'[t], NEW p \in Participant,
                      IsBuffer(inbox'[t][j], p), owner[p] \notin lost
               PROVE  FALSE
    BY DEF TrustsRight
  <2>1. j + 1 \in DOMAIN inbox[t] /\ 1 < j + 1 /\ IsBuffer(inbox[t][j + 1], p)
    BY <1>11
  <2>2. Ready(self, inbox, t) /\ opponent[t] = p
    BY <1>14, <2>1 DEF TrustInv, BufferInv
  <2>3. Head(inbox[t]).type = "hungup" /\ p \in Head(inbox[t]).about
    BY <2>2 DEF Ready, Waits
  <2>4. inbox[t][j + 1].type \in MessageType /\ p \in inbox[t][j + 1].about
    BY <2>1 DEF IsBuffer, MessageType
  <2>5. Orderly(inbox[t], t, self[t], owner, participants[t])
    BY DEF TrustInv, KnownInv
  <2> QED  BY <1>11, <2>1, <2>3, <2>4, <2>5 DEF Orderly
<1>16. ASSUME NEW u \in Transports \ {t}, self[u] # None
       PROVE  CallsRight(t, u)
  <2>1. ASSUME NEW i \in DOMAIN inbox'[u], IsHello(inbox'[u][i], self[t])
        PROVE  Asks(inbox'[u][i]) /\ OnlyFrom(inbox'[t], self[u], Len(inbox'[t]) + 1)
    <3>1. inbox'[u][i] = n /\ inbox'[u] = Append(inbox[u], n)
      <4>1. ~(i \in DOMAIN inbox[u] /\ IsHello(inbox[u][i], self[t]))
        BY <1>3, <1>13, <1>14, <1>16 DEF TrustInv, CallInv
      <4> QED  BY <1>11, <2>1, <4>1
    <3>2. self[u] \in others
      <4>1. Append(inbox[u], n) # inbox[u]
        <5>1. inbox[u] \in Seq(Notification)
          BY <1>7 DEF Queues
        <5>2. Len(Append(inbox[u], n)) = Len(inbox[u]) + 1 /\ Len(inbox[u]) \in Nat
          BY <1>4, <5>1, AppendParts
        <5>3. Len(inbox[u]) + 1 # Len(inbox[u])
          BY <5>2
        <5> QED  BY <5>2, <5>3
      <4> QED  BY <1>9, <3>1, <4>1
    <3>3. Orderly(inbox[t], t, self[t], owner, participants[t])
      BY DEF TrustInv, KnownInv
    <3>4. owner[self[u]] = u /\ self[u] \in 1..Len(owner)
      BY <1>16, Known
    <3>5. ASSUME NEW k \in 1..(Len(inbox'[t]) + 1 - 1), Says(inbox'[t][k])
          PROVE  inbox'[t][k].about = {self[u]}
      <4>1. k \in DOMAIN inbox'[t]
        <5>1. inbox'[t] \in Seq(Notification)
          BY <1>7, <1>9, TailParts DEF Queues
        <5> QED  BY <5>1
      <4>2. k + 1 \in DOMAIN inbox[t] /\ 1 < k + 1 /\ inbox'[t][k] = inbox[t][k + 1]
        BY <1>11, <4>1
      <4>3. inbox[t][k + 1].type \in MessageType
        BY <3>5, <4>2 DEF Says, MessageType
      <4>4. PICK q \in Participant : inbox[t][k + 1].about = {q}
        BY <4>2, <4>3 DEF FlowInv, Flow, QueueInv
      <4>5. q \in 1..Len(owner)
        <5>1. inbox[t][k + 1].about \subseteq 1..Len(owner)
          BY <4>2 DEF FlowInv, NamesInv
        <5> QED  BY <4>4, <5>1
      <4>6. owner[q] # t
        BY <3>3, <4>2, <4>3, <4>4 DEF Orderly
      <4>7. owner[q] = u
        BY <4>5, <4>6, Known, OtherIs
      <4>8. q <= self[u]
        BY <1>16, <4>5, <4>7 DEF TrustInv, LatestInv
      <4>9. self[u] <= q
        <5>1. CASE Head(inbox[t]).type = "connection"
          <6>1. self[u] \in inbox[t][1].about /\ inbox[t][1].type = "connection"
            BY <1>11, <3>2, <5>1
          <6> QED  BY <1>11, <3>3, <3>4, <4>2, <4>3, <4>4, <6>1 DEF Orderly
        <5>2. CASE Head(inbox[t]).type = "hungup"
          <6>1. self[u] \in participants[t] /\ ~Waits(inbox[t])
            BY <3>2, <5>2 DEF Waits
          <6> QED  BY <3>3, <3>4, <4>2, <4>3, <4>4, <6>1 DEF Orderly
        <5> QED  BY <5>1, <5>2
      <4>10. q = self[u]
        <5>1. q \in Nat /\ self[u] \in Nat
          BY <3>4, <4>5
        <5> QED  BY <4>8, <4>9, <5>1
      <4> QED  BY <4>2, <4>4, <4>10
    <3> QED  BY <1>4, <3>1, <3>5 DEF Asks, OnlyFrom
  <2>2. opponent'[t] # self[u]
    BY <1>5, <1>16
  <2>3. ~(Ready(self, inbox, u) /\ opponent[u] = self[t])
    BY <1>3, <1>13, <1>14, <1>16 DEF TrustInv, MutualInv
  <2> QED  BY <1>5, <2>1, <2>2, <2>3 DEF CallsRight
<1> QED  BY <1>10, <1>12, <1>15, <1>16, TrustOfRead

(* It is connected to whoever has called or answered it.                   *)
LEMMA TrustOfConnected ==
  ASSUME IInv, FlowInv, TrustInv, AtMostTwo, NEW t \in Transports, inbox[t] # << >>,
         NEW p \in Participant, IsHello(Head(inbox[t]), p), state[t] = "CONNECTING",
         NEW sendAccept \in BOOLEAN, Asks(Head(inbox[t])) => sendAccept,
         setStateConnected(t, p, sendAccept), UNCHANGED <<self, owner, lost>>
  PROVE  TrustInv'
<1>1. /\ state' = [state EXCEPT ![t] = "CONNECTED"]
      /\ opponent' = [opponent EXCEPT ![t] = p]
      /\ participants' = participants
      /\ socket' = [socket EXCEPT ![t] = TRUE]
      /\ got' = [got EXCEPT ![t] = << >>]
      /\ inbox' = Posted(Received(t), IF sendAccept THEN {p} ELSE {},
                         CustomData("ACCEPT", self[t], <<0, 0>>))
  BY DEF setStateConnected, createTransportSocket
<1>2. PICK n : n = CustomData("ACCEPT", self[t], <<0, 0>>)
  OBVIOUS
<1>3. self[t] # None /\ self[t] \in Participant /\ owner[self[t]] = t
  BY Known
<1>4. n \in Notification /\ n.type = "ACCEPT" /\ n.about = {self[t]}
  <2>1. "ACCEPT" \in MessageType /\ <<0, 0>> \in Nat \X Nat
    BY DEF MessageType
  <2> QED  BY <1>2, <1>3, <2>1, NoticeTypes DEF CustomData
<1>5. opponent'[t] = p /\ participants'[t] = participants[t] /\ got'[t] = << >>
  BY <1>1 DEF IInv, TypeOK
<1>6. \A x \in Transports \ {t} :
        /\ state'[x] = state[x] /\ opponent'[x] = opponent[x]
        /\ participants'[x] = participants[x] /\ socket'[x] = socket[x] /\ got'[x] = got[x]
  BY <1>1 DEF IInv, TypeOK
<1>7. inbox \in Queues /\ inbox[t] \in Seq(Notification)
  BY DEF FlowInv, Flow, FlowTypes, Queues
<1>8. 1 \in DOMAIN inbox[t] /\ Head(inbox[t]) = inbox[t][1]
  BY <1>7
<1>9. Says(Head(inbox[t])) /\ Head(inbox[t]).about = {p} /\ ~Waits(inbox[t])
      /\ Head(inbox[t]).type \in MessageType /\ Head(inbox[t]).type # "connection"
  BY DEF IsHello, Says, Waits, MessageType
<1>10. owner[p] # t
  <2>1. Orderly(inbox[t], t, self[t], owner, participants[t])
    BY DEF TrustInv, KnownInv
  <2> QED  BY <1>8, <1>9, <2>1 DEF Orderly
<1>11. PICK to : to = IF sendAccept THEN {p} ELSE {}
  OBVIOUS
<1>12. self[t] \notin to
  BY <1>3, <1>10, <1>11
<1>13. /\ inbox'[t] = Tail(inbox[t])
       /\ \A x \in Transports \ {t} :
            inbox'[x] = IF self[x] # None /\ self[x] \in to THEN Append(inbox[x], n) ELSE inbox[x]
  <2>1. Received(t)[t] = Tail(inbox[t]) /\ \A x \in Transports \ {t} : Received(t)[x] = inbox[x]
    BY <1>7 DEF Received, Queues
  <2> QED  BY <1>1, <1>2, <1>11, <1>12, <2>1 DEF Posted
<1>14. Handles(t, n)
  BY <1>4, <1>6, <1>13 DEF Handles
<1>15. /\ Len(inbox[t]) \in 1..Len(inbox[t])
       /\ \A i \in DOMAIN inbox'[t] :
            /\ i \in 1..Len(inbox[t]) /\ i + 1 \in DOMAIN inbox[t]
            /\ inbox'[t][i] = inbox[t][i + 1]
       /\ \A q : \A j \in 1..Len(inbox[t]) : OnlyFrom(inbox[t], q, j + 1) => q = p
       /\ \A x \in Transports \ {t} :
            /\ Ready(self, inbox', x) <=> Ready(self, inbox, x)
            /\ \A i \in DOMAIN inbox'[x] :
                 \/ i \in DOMAIN inbox[x] /\ inbox'[x][i] = inbox[x][i]
                 \/ inbox'[x][i] = n /\ self[x] # None /\ inbox'[x] = Append(inbox[x], n)
            /\ OnlyFrom(inbox[x], self[t], Len(inbox[x]) + 1) =>
                 (inbox'[x] = Append(inbox[x], n) =>
                    Called(inbox'[x], self[t], Len(inbox'[x]) + 1))
            /\ Called(inbox[x], self[t], Len(inbox[x]) + 1) =>
                 Called(inbox'[x], self[t], Len(inbox'[x]) + 1)
  <2>1. \A q : {q} = {p} => q = p
    OBVIOUS
  <2>2. \A q : \A j \in 1..Len(inbox[t]) :
          OnlyFrom(inbox[t], q, j + 1) /\ Says(Head(inbox[t])) => Head(inbox[t]).about = {q}
    BY <1>14, HandledQueues
  <2>3. \A q : \A j \in 1..Len(inbox[t]) : OnlyFrom(inbox[t], q, j + 1) => q = p
    BY <1>9, <2>1, <2>2
  <2> QED  BY <1>14, <2>3, HandledQueues
<1>16. opponent[t] = None
  BY DEF IInv, TypeOK
<1>17. p # None
  BY SignalAssumption DEF Participant
<1>18. KnowsRight(t)
  <2>1. /\ Orderly(inbox[t], t, self[t], owner, participants[t])
        /\ participants[t] \subseteq 1..Len(owner)
    BY DEF TrustInv, KnownInv
  <2>2. self[t] \notin participants[t]
    BY <1>9, <2>1 DEF Orderly
  <2>3. DOMAIN << >> = {}
    OBVIOUS
  <2> QED  BY <1>5, <1>9, <1>10, <2>1, <2>2, <2>3 DEF KnowsRight
<1>19. TrustsRight(t)
  <2> SUFFICES ASSUME NEW j \in DOMAIN inbox'[t], NEW q \in Participant,
                      IsBuffer(inbox'[t][j], q), owner[q] \notin lost
               PROVE  q = p
    BY <1>5 DEF TrustsRight
  <2>1. /\ j \in 1..Len(inbox[t]) /\ j + 1 \in DOMAIN inbox[t]
        /\ IsBuffer(inbox[t][j + 1], q)
    BY <1>15
  <2>2. q # None
    BY SignalAssumption DEF Participant
  <2>3. Called(inbox[t], q, j + 1)
    BY <1>16, <2>1, <2>2 DEF TrustInv, BufferInv
  <2> QED  BY <1>15, <2>1, <2>3 DEF Called
<1>20. ASSUME NEW u \in Transports \ {t}, self[u] # None
       PROVE  CallsRight(t, u)
  <2>1. ASSUME NEW i \in DOMAIN inbox'[u], IsHello(inbox'[u][i], self[t])
        PROVE  p = self[u]
    <3>1. CASE i \in DOMAIN inbox[u] /\ inbox'[u][i] = inbox[u][i]
      <4>1. OnlyFrom(inbox[t], self[u], Len(inbox[t]) + 1)
        BY <1>3, <1>16, <1>20, <2>1, <3>1 DEF TrustInv, CallInv
      <4> QED  BY <1>15, <4>1
    <3>2. CASE inbox'[u][i] = n /\ inbox'[u] = Append(inbox[u], n)
      <4>1. Append(inbox[u], n) # inbox[u]
        <5>1. inbox[u] \in Seq(Notification)
          BY <1>7 DEF Queues
        <5>2. Len(Append(inbox[u], n)) = Len(inbox[u]) + 1 /\ Len(inbox[u]) \in Nat
          BY <1>4, <5>1, AppendParts
        <5>3. Len(inbox[u]) + 1 # Len(inbox[u])
          BY <5>2
        <5> QED  BY <5>2, <5>3
      <4> QED  BY <1>11, <1>13, <3>2, <4>1
    <3> QED  BY <1>15, <2>1, <3>1, <3>2
  <2>2. ASSUME p = self[u]
        PROVE  /\ Ready(self, inbox, u)
               /\ \/ opponent[u] = self[t]
                  \/ state[u] = "CONNECTING" /\ Called(inbox'[u], self[t], Len(inbox'[u]) + 1)
    <3>1. /\ Ready(self, inbox, u)
          /\ \/ opponent[u] = self[t]
             \/ /\ state[u] = "CONNECTING" /\ Asks(inbox[t][1])
                /\ OnlyFrom(inbox[u], self[t], Len(inbox[u]) + 1)
      BY <1>8, <1>20, <2>2 DEF TrustInv, CallInv
    <3>2. Asks(inbox[t][1]) => inbox'[u] = Append(inbox[u], n)
      BY <1>8, <1>11, <1>13, <1>20, <2>2
    <3> QED  BY <1>15, <3>1, <3>2
  <2>3. ASSUME Ready(self, inbox, u), opponent[u] = self[t]
        PROVE  p = self[u]
    <3>1. Called(inbox[t], self[u], Len(inbox[t]) + 1)
      BY <1>3, <1>16, <1>20, <2>3 DEF TrustInv, MutualInv
    <3> QED  BY <1>15, <3>1 DEF Called
  <2> QED  BY <1>5, <2>1, <2>2, <2>3 DEF CallsRight
<1> QED  BY <1>14, <1>18, <1>19, <1>20, TrustOfRead

LEMMA TrustOfNotification ==
  ASSUME IInv, FlowInv, TrustInv, AtMostTwo, NEW t \in Transports,
         handleVkWebSocketSignalServerOnNotification(t)
  PROVE  TrustInv'
<1>1. UNCHANGED <<self, owner, lost>> /\ inbox[t] # << >>
  BY DEF handleVkWebSocketSignalServerOnNotification, handleVkWebSocketSignalServerOnReady,
       OnRegisteredPeer, OnHungup, OnConnectMessage, OnAcceptMessage, OnBufferMessage, IsNext
<1>2. /\ QueueInv(inbox) /\ inbox[t] \in Seq(Notification)
      /\ participants \in [Transports -> SUBSET Participant]
      /\ got \in [Transports -> Seq(Participant \X Nat)]
  BY DEF FlowInv, Flow, FlowTypes, Queues, IInv, TypeOK
<1>3. 1 \in DOMAIN inbox[t] /\ Head(inbox[t]) = inbox[t][1] /\ Head(inbox[t]) \in Notification
  BY <1>1, <1>2
<1>4. \A p : p \in Head(inbox[t]).about /\ Head(inbox[t]).type \in MessageType =>
        Head(inbox[t]).about = {p}
  BY <1>2, <1>3 DEF QueueInv
<1>5. CASE handleVkWebSocketSignalServerOnReady(t)
  <2>1. /\ Head(inbox[t]).type = "connection"
        /\ setStateConnecting(t, Head(inbox[t]).about \ {self[t]}, Received(t))
    BY <1>5 DEF handleVkWebSocketSignalServerOnReady, IsNext
  <2> QED  BY <1>1, <2>1, TrustOfConnecting
<1>6. ASSUME inbox' = Received(t), UNCHANGED <<state, opponent, socket, got>>,
             Head(inbox[t]).type # "connection",
             state[t] = "CONNECTING" => ~Says(Head(inbox[t])),
             \A x \in Transports \ {t} : participants'[x] = participants[x],
             \A q \in participants'[t] :
               \/ q \in participants[t]
               \/ q \in Head(inbox[t]).about /\ Head(inbox[t]).type = "registered-peer"
      PROVE  TrustInv'
  BY <1>1, <1>6, TrustOfKept
<1>7. ASSUME NEW p \in Participant, OnRegisteredPeer(t, p) PROVE TrustInv'
  <2>1. /\ Head(inbox[t]).type = "registered-peer" /\ p \in Head(inbox[t]).about
        /\ participants' = [participants EXCEPT ![t] = @ \cup {p}] /\ inbox' = Received(t)
        /\ UNCHANGED <<state, opponent, socket, got>>
    BY <1>7 DEF OnRegisteredPeer, IsNext, socketVars
  <2>2. Head(inbox[t]).type # "connection" /\ ~Says(Head(inbox[t]))
    BY <2>1 DEF Says
  <2>3. /\ \A x \in Transports \ {t} : participants'[x] = participants[x]
        /\ participants'[t] = participants[t] \cup {p}
    BY <1>2, <2>1
  <2> QED  BY <1>6, <2>1, <2>2, <2>3
<1>8. ASSUME NEW p \in Participant, OnHungup(t, p) PROVE TrustInv'
  <2>1. Head(inbox[t]).type = "hungup" /\ p \in Head(inbox[t]).about
    BY <1>8 DEF OnHungup, IsNext
  <2>2. CASE /\ state[t] = "CONNECTED" /\ opponent[t] = p
             /\ setStateConnecting(t, participants[t] \ {p}, Received(t))
    <3>1. PICK others : others = participants[t] \ {p}
      OBVIOUS
    <3>2. others \subseteq participants[t] /\ setStateConnecting(t, others, Received(t))
      BY <2>2, <3>1
    <3> QED  BY <1>1, <2>1, <2>2, <3>2, TrustOfConnecting
  <2>3. CASE /\ participants' = [participants EXCEPT ![t] = @ \ {p}]
             /\ inbox' = Received(t) /\ UNCHANGED <<state, opponent, socketVars>>
    <3>1. Head(inbox[t]).type # "connection" /\ ~Says(Head(inbox[t]))
      BY <2>1 DEF Says
    <3>2. /\ \A x \in Transports \ {t} : participants'[x] = participants[x]
          /\ participants'[t] = participants[t] \ {p}
      BY <1>2, <2>3
    <3>3. UNCHANGED <<state, opponent, socket, got>> /\ inbox' = Received(t)
      BY <2>3 DEF socketVars
    <3> QED  BY <1>6, <3>1, <3>2, <3>3
  <2> QED  BY <1>8, <2>2, <2>3 DEF OnHungup
<1>9. ASSUME Ignores(t), Head(inbox[t]).type # "connection",
             state[t] = "CONNECTING" => ~Says(Head(inbox[t]))
      PROVE  TrustInv'
  <2>1. inbox' = Received(t) /\ UNCHANGED <<state, opponent, participants, socket, got>>
    BY <1>9 DEF Ignores, peerVars, socketVars
  <2> QED  BY <1>6, <1>9, <2>1
<1>10. ASSUME NEW p \in Participant, OnConnectMessage(t, p) \/ OnAcceptMessage(t, p)
       PROVE  TrustInv'
  <2>1. Head(inbox[t]).type \in {"CONNECT", "ACCEPT"} /\ p \in Head(inbox[t]).about
    BY <1>10 DEF OnConnectMessage, OnAcceptMessage, IsNext
  <2>2. IsHello(Head(inbox[t]), p)
    BY <1>4, <2>1 DEF MessageType, IsHello
  <2>3. PICK sendAccept \in BOOLEAN :
          /\ Asks(Head(inbox[t])) => sendAccept
          /\ \/ state[t] = "CONNECTING" /\ setStateConnected(t, p, sendAccept)
             \/ state[t] # "CONNECTING" /\ Ignores(t)
    <3>1. ASSUME OnConnectMessage(t, p)
          PROVE  \E sendAccept \in BOOLEAN :
                   /\ Asks(Head(inbox[t])) => sendAccept
                   /\ \/ state[t] = "CONNECTING" /\ setStateConnected(t, p, sendAccept)
                      \/ state[t] # "CONNECTING" /\ Ignores(t)
      BY <3>1 DEF OnConnectMessage
    <3>2. ASSUME OnAcceptMessage(t, p)
          PROVE  \E sendAccept \in BOOLEAN :
                   /\ Asks(Head(inbox[t])) => sendAccept
                   /\ \/ state[t] = "CONNECTING" /\ setStateConnected(t, p, sendAccept)
                      \/ state[t] # "CONNECTING" /\ Ignores(t)
      <4>1. ~Asks(Head(inbox[t]))
        BY <3>2 DEF OnAcceptMessage, IsNext, Asks
      <4> QED  BY <3>2, <4>1 DEF OnAcceptMessage
    <3> QED  BY <1>10, <3>1, <3>2
  <2>4. CASE state[t] = "CONNECTING" /\ setStateConnected(t, p, sendAccept)
    BY <1>1, <2>2, <2>3, <2>4, TrustOfConnected
  <2>5. CASE state[t] # "CONNECTING" /\ Ignores(t)
    <3>1. Head(inbox[t]).type # "connection"
      BY <2>1
    <3> QED  BY <1>9, <2>5, <3>1
  <2> QED  BY <2>3, <2>4, <2>5
<1>11. ASSUME NEW p \in Participant, OnBufferMessage(t, p) PROVE TrustInv'
  <2>1. Head(inbox[t]).type = "BUFFER" /\ p \in Head(inbox[t]).about
    BY <1>11 DEF OnBufferMessage, IsNext
  <2>2. IsBuffer(Head(inbox[t]), p)
    BY <1>4, <2>1 DEF MessageType, IsBuffer
  <2>3. Head(inbox[t]).type # "connection" /\ ~Says(Head(inbox[t]))
    BY <2>1 DEF Says
  <2>4. CASE ~socket[t] /\ Ignores(t)
    BY <1>9, <2>3, <2>4
  <2>5. CASE /\ state[t] = "CONNECTED" /\ socket[t]
             /\ got' = [got EXCEPT ![t] = Append(@, <<p, Head(inbox[t]).data[1]>>)]
             /\ inbox' = Received(t)
             /\ UNCHANGED <<peerVars, socket, written>>
    <3>1. PICK k \in Nat : k = Head(inbox[t]).data[1]
      BY <1>3, NumberType
    <3>2. /\ got'[t] = Append(got[t], <<p, k>>)
          /\ \A x \in Transports \ {t} : got'[x] = got[x]
      BY <1>2, <2>5, <3>1
    <3>3. UNCHANGED <<state, opponent, participants, socket>>
      BY <2>5 DEF peerVars
    <3> QED  BY <1>1, <2>2, <2>3, <2>5, <3>2, <3>3, TrustOfKept
  <2> QED  BY <1>11, <2>4, <2>5 DEF OnBufferMessage
<1> QED
  BY <1>5, <1>7, <1>8, <1>10, <1>11 DEF handleVkWebSocketSignalServerOnNotification

-----------------------------------------------------------------------------
LEMMA TrustOfInit == Init => TrustInv
<1> SUFFICES ASSUME Init PROVE TrustInv
  OBVIOUS
<1>1. \A t \in Transports :
        /\ inbox[t] = << >> /\ self[t] = None /\ opponent[t] = None /\ ~socket[t]
        /\ participants[t] = {} /\ got[t] = << >>
  BY DEF Init, SignalInit
<1>2. DOMAIN << >> = {} /\ Len(owner) = 0
  BY DEF Init, SignalInit
<1>3. StaleInv /\ LatestInv /\ StrangersHaveLost
  BY <1>1 DEF StaleInv, LatestInv, StrangersHaveLost
<1>4. CallInv /\ MutualInv /\ BufferInv
  BY <1>1, <1>2 DEF CallInv, MutualInv, BufferInv
<1>5. KnownInv
  <2>1. \A t \in Transports : Orderly(inbox[t], t, self[t], owner, participants[t])
    BY <1>1, <1>2 DEF Orderly
  <2> QED  BY <1>1, <1>2, <2>1 DEF KnownInv
<1> QED  BY <1>3, <1>4, <1>5 DEF TrustInv

LEMMA TrustOfNext ==
  ASSUME AtMostTwo
  PROVE  IInv /\ IInv' /\ FlowInv /\ TrustInv /\ [Next]_vars => TrustInv'
<1> SUFFICES ASSUME IInv, IInv', FlowInv, TrustInv, [Next]_vars PROVE TrustInv'
  OBVIOUS
<1>1. ASSUME lost \subseteq lost',
             UNCHANGED <<self, inbox, owner, state, opponent, participants, socket, got>>
      PROVE  TrustInv'
  BY <1>1, TrustOfLoss
<1>2. ASSUME NEW t \in Transports,
             start(t) \/ startSignalServerConnection(t) \/ UrlFails(t)
      PROVE  TrustInv'
  BY <1>1, <1>2 DEF start, FetchUrl, startSignalServerConnection, SignalStart, UrlFails,
       peerVars, socketVars
<1>3. ASSUME NEW t \in Transports, handleTransportSocketOnError(t) PROVE TrustInv'
  <2>1. /\ socket' = [socket EXCEPT ![t] = FALSE] /\ got' = [got EXCEPT ![t] = << >>]
        /\ lost' = lost \cup {t}
        /\ UNCHANGED <<self, inbox, owner, state, opponent, participants>>
    BY <1>3 DEF handleTransportSocketOnError, destroyTransportSocket, signalVars, peerVars
  <2>2. /\ \A x \in Transports : socket'[x] => socket[x] /\ got'[x] = got[x]
        /\ \A x \in Transports : got'[x] = got[x] \/ got'[x] = << >>
    BY <2>1 DEF IInv, TypeOK
  <2> QED  BY <2>1, <2>2, TrustOfLoss
<1>4. ASSUME NEW t \in Transports, stop(t) PROVE TrustInv'
  <2>1. /\ socket' = [socket EXCEPT ![t] = FALSE] /\ got' = [got EXCEPT ![t] = << >>]
        /\ self' = [self EXCEPT ![t] = None] /\ inbox' = [inbox EXCEPT ![t] = << >>]
        /\ UNCHANGED <<owner, state, opponent, participants, lost>>
    BY <1>4 DEF stop, SignalLeaves, destroyTransportSocket, peerVars
  <2>2. /\ \A x \in Transports : socket'[x] => socket[x] /\ got'[x] = got[x]
        /\ \A x \in Transports : got'[x] = got[x] \/ got'[x] = << >>
        /\ ~socket'[t]
    BY <2>1 DEF IInv, TypeOK
  <2> QED  BY <2>1, <2>2, TrustOfLeaves
<1>5. ASSUME NEW t \in Transports,
             handleVkWebSocketSignalServerOnStopped(t) \/ CrashedWebSocketCloses(t)
      PROVE  TrustInv'
  <2>1. /\ ws' = [ws EXCEPT ![t] = "none"]
        /\ self' = [self EXCEPT ![t] = None] /\ inbox' = [inbox EXCEPT ![t] = << >>]
        /\ UNCHANGED <<owner, state, opponent, participants, socket, got>>
        /\ lost \subseteq lost'
    BY <1>5 DEF handleVkWebSocketSignalServerOnStopped, CrashedWebSocketCloses, SignalLeaves,
         peerVars, socketVars
  <2>2. socket'[t] => t \in lost'
    <3>1. ws'[t] # "open"
      BY <2>1 DEF IInv, TypeOK, SignalTypeOK
    <3> QED  BY <3>1 DEF IInv, SocketInv
  <2> QED  BY <2>1, <2>2, TrustOfLeaves
<1>6. CASE UNCHANGED vars
  BY <1>1, <1>6 DEF vars, signalVars, peerVars, socketVars
<1> QED
  BY <1>2, <1>3, <1>4, <1>5, <1>6, TrustOfOpens, TrustOfHungup, TrustOfSend,
     TrustOfNotification DEF Next

(* Between two transports, a buffer of another than the opponent is pushed *)
(* to a transport socket only when that one's websocket was lost before:   *)
(* stop(), a participant that left, CONNECTs and ACCEPTs that cross do not *)
(* make it happen.                                                         *)
THEOREM CallStrangersHaveLost ==
  ASSUME AtMostTwo PROVE Spec => []StrangersHaveLost
<1>1. Init => TrustInv
  BY TrustOfInit
<1>2. IInv /\ IInv' /\ FlowInv /\ TrustInv /\ [Next]_vars => TrustInv'
  BY TrustOfNext
<1>3. TrustInv => StrangersHaveLost
  BY DEF TrustInv
<1> QED  BY <1>1, <1>2, <1>3, AlwaysInv, AlwaysFlow, PTL DEF Spec

=============================================================================
