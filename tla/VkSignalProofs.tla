---------------------------- MODULE VkSignalProofs ----------------------------
(***************************************************************************)
(* What the steps of VkSignal do to the types of its variables.  VkCall    *)
(* and VkWebRTC are composed with VkSignal, and their proofs use this.     *)
(***************************************************************************)
EXTENDS VkSignal, TLAPS, SequenceTheorems

(* Notifications wait only for who has an open websocket.                  *)
InboxInv == \A t \in Transports : inbox[t] # << >> => self[t] # None

USE DEF None

-----------------------------------------------------------------------------
(* The queues.                                                             *)

Queues == [Transports -> Seq(Notification)]

LEMMA NoticeTypes ==
  /\ \A type \in {"connection", "registered-peer", "hungup"}, about \in SUBSET Participant :
       Notice(type, about) \in Notification
  /\ \A type \in MessageType, p \in Participant, data \in Nat \X Nat :
       CustomData(type, p, data) \in Notification
  BY DEF Notice, CustomData, Notification

LEMMA PostedType ==
  ASSUME NEW box \in Queues, NEW to, NEW n \in Notification
  PROVE  /\ Posted(box, to, n) \in Queues
         /\ \A t \in Transports :
              Posted(box, to, n)[t] # << >> => box[t] # << >> \/ self[t] # None
<1>1. \A t \in Transports : Append(box[t], n) \in Seq(Notification)
  BY DEF Queues
<1> QED  BY <1>1 DEF Posted, Queues

LEMMA ReceivedType ==
  ASSUME inbox \in Queues, NEW t \in Transports, inbox[t] # << >>
  PROVE  /\ Received(t) \in Queues
         /\ Head(inbox[t]) \in Notification
         /\ \A u \in Transports : Received(t)[u] # << >> => inbox[u] # << >>
<1>1. inbox[t] \in Seq(Notification)
  BY DEF Queues
<1>2. Tail(inbox[t]) \in Seq(Notification) /\ Head(inbox[t]) \in Notification
  BY <1>1, HeadTailProperties
<1> QED  BY <1>1, <1>2 DEF Received, Queues

-----------------------------------------------------------------------------
(* The websockets.                                                         *)

LEMMA OpensTypes ==
  ASSUME SignalTypeOK, InboxInv, NEW t \in Transports, WebSocketOpens(t)
  PROVE  SignalTypeOK' /\ InboxInv'
<1> DEFINE p == Len(owner) + 1
<1>0. MaxJoins \in Nat
  BY SignalAssumption
<1>1. /\ ws[t] = "opening" /\ p <= MaxJoins
      /\ ws' = [ws EXCEPT ![t] = "open"]
      /\ self' = [self EXCEPT ![t] = p]
      /\ owner' = Append(owner, t)
      /\ members' = members \cup {p}
      /\ inbox' = [Posted(inbox, members, Notice("registered-peer", {p}))
                     EXCEPT ![t] = <<Notice("connection", members \cup {p})>>]
      /\ fetching' = fetching
  BY DEF WebSocketOpens
<1>2. /\ owner \in Seq(Transports) /\ Len(owner) \in Nat
      /\ Len(owner') = p /\ owner' \in Seq(Transports)
      /\ \A i \in 1..Len(owner) : owner'[i] = owner[i]
      /\ owner'[p] = t
  BY <1>1 DEF SignalTypeOK
<1>3. /\ p \in Participant /\ p # None /\ p \in 1..p /\ Len(owner) <= p
      /\ members \subseteq Participant /\ members \cup {p} \subseteq Participant
      /\ members \cup {p} \subseteq 1..p
      /\ \A i \in members : i \in 1..Len(owner)
  <2>1. members \subseteq 1..Len(owner)
    BY DEF SignalTypeOK
  <2>2. PICK n \in Nat : n = Len(owner)
    BY <1>2
  <2>3. n + 1 <= MaxJoins /\ p = n + 1
    BY <1>1, <2>2
  <2>4. 1..n \subseteq 1..MaxJoins /\ 1..n \subseteq 1..(n + 1) /\ n + 1 \in 1..MaxJoins
    BY <1>0, <2>3
  <2>5. n <= n + 1 /\ n + 1 # 0 /\ n + 1 \in 1..(n + 1)
    OBVIOUS
  <2> HIDE DEF p
  <2> QED  BY <2>1, <2>2, <2>3, <2>4, <2>5 DEF Participant
<1> HIDE DEF p
<1>4. inbox' \in Queues
  <2>1. /\ Notice("registered-peer", {p}) \in Notification
        /\ Notice("connection", members \cup {p}) \in Notification
    BY <1>3, NoticeTypes
  <2>2. Posted(inbox, members, Notice("registered-peer", {p})) \in Queues
    BY <2>1, PostedType DEF SignalTypeOK, Queues
  <2>3. <<Notice("connection", members \cup {p})>> \in Seq(Notification)
    BY <2>1
  <2> QED  BY <1>1, <2>2, <2>3 DEF Queues
<1>5. self' \in [Transports -> Participant \cup {None}]
  BY <1>1, <1>3 DEF SignalTypeOK
<1>6. \A u \in Transports : self'[u] # None <=> ws'[u] = "open"
  BY <1>1, <1>3 DEF SignalTypeOK
<1>7. \A u \in Transports : self'[u] # None => self'[u] \in members' /\ owner'[self'[u]] = u
  <2> SUFFICES ASSUME NEW u \in Transports, self'[u] # None
               PROVE  self'[u] \in members' /\ owner'[self'[u]] = u
    OBVIOUS
  <2>1. CASE u = t
    <3>1. self'[u] = p
      BY <1>1, <2>1 DEF SignalTypeOK
    <3> QED  BY <1>1, <1>2, <2>1, <3>1
  <2>2. CASE u # t
    <3>1. self'[u] = self[u] /\ self[u] \in members /\ owner[self[u]] = u
      BY <1>1, <2>2 DEF SignalTypeOK
    <3> QED  BY <1>1, <1>2, <1>3, <3>1
  <2> QED  BY <2>1, <2>2
<1>8. SignalTypeOK'
  <2>1. Len(owner') <= MaxJoins /\ members' \subseteq 1..Len(owner')
    BY <1>1, <1>2, <1>3
  <2>2. /\ fetching' \in [Transports -> BOOLEAN]
        /\ ws' \in [Transports -> {"none", "opening", "open", "closing"}]
    BY <1>1 DEF SignalTypeOK
  <2> QED  BY <1>2, <1>4, <1>5, <1>6, <1>7, <2>1, <2>2 DEF SignalTypeOK, Queues
<1>9. InboxInv'
  <2> SUFFICES ASSUME NEW u \in Transports, inbox'[u] # << >>
               PROVE  self'[u] # None
    BY DEF InboxInv
  <2>1. CASE u = t
    BY <1>1, <1>3, <2>1 DEF SignalTypeOK
  <2>2. CASE u # t
    <3>1. self'[u] = self[u]
      BY <1>1, <2>2 DEF SignalTypeOK
    <3>2. inbox'[u] # << >> => inbox[u] # << >> \/ self[u] # None
      <4>1. inbox'[u] = Posted(inbox, members, Notice("registered-peer", {p}))[u]
        BY <1>1, <2>2, <1>4 DEF Queues
      <4>2. Notice("registered-peer", {p}) \in Notification
        BY <1>3, NoticeTypes
      <4>3. inbox \in Queues
        BY DEF SignalTypeOK, Queues
      <4> QED  BY <4>1, <4>2, <4>3, PostedType
    <3> QED  BY <3>1, <3>2 DEF InboxInv
  <2> QED  BY <2>1, <2>2
<1> QED  BY <1>8, <1>9

LEMMA LeavesTypes ==
  ASSUME SignalTypeOK, InboxInv, NEW t \in Transports, NEW next \in {"none", "closing"},
         SignalLeaves(t, next), fetching' = fetching
  PROVE  SignalTypeOK' /\ InboxInv'
<1>1. << >> \in Seq(Notification)
  BY EmptySeq
<1> QED  BY <1>1 DEF SignalLeaves, SignalTypeOK, InboxInv

LEMMA HungupTypes ==
  ASSUME SignalTypeOK, InboxInv, NEW p \in members, Hungup(p)
  PROVE  SignalTypeOK' /\ InboxInv'
<1>1. /\ members' = members \ {p}
      /\ \A t \in Transports : self[t] # p
      /\ inbox' = Posted(inbox, members, Notice("hungup", {p}))
      /\ UNCHANGED <<fetching, ws, self, owner>>
  BY DEF Hungup
<1>2. p \in Participant
  BY SignalAssumption DEF SignalTypeOK, Participant
<1>3. inbox \in Queues /\ Notice("hungup", {p}) \in Notification
  BY <1>2, NoticeTypes DEF SignalTypeOK, Queues
<1>4. /\ inbox' \in Queues
      /\ \A t \in Transports : inbox'[t] # << >> => inbox[t] # << >> \/ self[t] # None
  BY <1>1, <1>3, PostedType
<1> QED  BY <1>1, <1>4 DEF SignalTypeOK, InboxInv, Queues

(* Only the queues change.                                                 *)
LEMMA QueueTypes ==
  ASSUME SignalTypeOK, InboxInv, inbox' \in Queues,
         UNCHANGED <<fetching, ws, self, members, owner>>,
         \A t \in Transports : inbox'[t] # << >> => inbox[t] # << >> \/ self[t] # None
  PROVE  SignalTypeOK' /\ InboxInv'
  BY DEF SignalTypeOK, InboxInv, Queues

===============================================================================
