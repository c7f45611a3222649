---------------------------- MODULE VkWebRTCProofs ----------------------------
(***************************************************************************)
(* The safety properties of VkWebRTC, for any number of transports, joins  *)
(* and failures.                                                           *)
(*                                                                         *)
(* SocketHasPeer rests on what happens to peers that were replaced or      *)
(* forgotten but not destroyed: none of them is ever connected, whatever   *)
(* is still on its way, but after a failure of its connection (Gone,       *)
(* ForgottenInv), and the peer of a transport that has lost its opponent   *)
(* is not either (LinkFact).  Once a connection has failed at one end, the *)
(* peers at both ends remain marked (PeerFact).  OffersNeverMeet           *)
(* rests on who can know of a participant while its TURN check is pending  *)
(* (UnheardFact).                                                          *)
(***************************************************************************)
EXTENDS VkWebRTC, VkSignalProofs, FiniteSetTheorems

In(q) == {q[k] : k \in DOMAIN q}

HasLeft(p) == self[owner[p]] # p

-----------------------------------------------------------------------------
(* The peers.                                                              *)

(* Whoever makes the offer is checked first and knows no other peer until  *)
(* it gets an answer, from a peer that had its SDP then; the peers a peer  *)
(* answers have ever higher numbers.  The network fails between peers that *)
(* have each other's SDP, and at both ends.                                *)
PeerFact(i) ==
  LET x == peers[i]
  IN  /\ x.sig # "stable" => x.remote = NoPeer
      /\ x.link # "sound" =>
           /\ x.awaited = "none" /\ x.remote # NoPeer
           /\ peers[x.remote].remote = i /\ peers[x.remote].link # "sound"
      /\ x.offers =>
           /\ x.sig # "new" /\ x.awaited # "answer"
           /\ x.awaited = "offer" => x.remote = NoPeer /\ (~x.closed => sdpOffer[x.of] < i)
           /\ x.remote # NoPeer =>
                /\ ~peers[x.remote].offers /\ peers[x.remote].sig = "stable"
                /\ peers[x.remote].remote >= i
      /\ ~x.offers =>
           /\ x.sig # "offer" /\ x.awaited # "offer"
           /\ x.awaited = "answer" => x.sig = "stable"
           /\ x.sig = "stable" =>
                /\ x.remote # NoPeer
                /\ peers[x.remote].offers /\ peers[x.remote].awaited = "none"
                /\ x.awaited = "answer" => peers[x.remote].remote # i

PeerInv == \A i \in DOMAIN peers : PeerFact(i)

(* Replaced, or forgotten.                                                 *)
Out(i) == peer[peers[i].of] # i

(* The answer of peer i to the offer of peer j is in the queue.            *)
Due(q, i, j) == \E n \in In(q) : n.type = "SDP_ANSWER" /\ n.data[1] = j /\ n.data[2] = i

(* Peer i reaches nobody, as things are, or its connection has failed.     *)
Apart(i) ==
  \/ peers[i].link # "sound"
  \/ /\ peers[i].sig = "stable" /\ peers[i].awaited = "none"
     /\ \A j \in DOMAIN peers : peers[i].remote = j =>
          peers[j].closed \/ (peers[j].remote # i /\ ~Due(inbox[peers[j].of], i, j))

(* ... and will never be connected to anybody, unless its connection has   *)
(* failed and recovers.                                                    *)
Gone(i) == peers[i].closed \/ (Out(i) /\ Apart(i))

FaultsInv == IsFiniteSet(lost) /\ IsFiniteSet(stopped)

ForgottenInv == \A i \in DOMAIN peers : Out(i) => Gone(i)

-----------------------------------------------------------------------------
(* The notifications.                                                      *)

(* An SDP of peer i may have come from participant p.                      *)
Refers(p, i) ==
  /\ p \in 1..Len(owner) /\ i \in DOMAIN peers
  /\ peers[i].of = owner[p]
  /\ HasLeft(p) => Gone(i)

(* Participant p may have offered peer i to t; what it would offer now it  *)
(* has offered only to its opponent.                                       *)
Offered(t, p, i) ==
  ~HasLeft(p) =>
    /\ i <= sdpOffer[owner[p]]
    /\ i = sdpOffer[owner[p]] =>
         state[owner[p]] = "CONNECTED" /\ opponent[owner[p]] = self[t]

MessageFact(t, n) ==
  /\ n.about \subseteq 1..Len(owner)
  /\ n.data[1] \in 0..Len(peers) /\ n.data[2] \in 0..Len(peers)
  /\ \A p \in n.about :
       /\ n.type = "hungup" => HasLeft(p)
       /\ n.type = "SDP_OFFER" =>
            /\ Refers(p, n.data[1]) /\ Offered(t, p, n.data[1])
            /\ peers[n.data[1]].offers /\ peers[n.data[1]].awaited = "none"
       /\ n.type = "SDP_ANSWER" =>
            /\ Refers(p, n.data[2])
            /\ ~peers[n.data[2]].offers /\ peers[n.data[2]].sig = "stable"
            /\ n.data[1] \in 1..peers[n.data[2]].remote
            /\ peers[n.data[2]].awaited = "answer" => n.data[1] < peers[n.data[2]].remote
            /\ peers[n.data[1]].offers /\ peers[n.data[1]].awaited = "none"

MessageInv == \A t \in Transports : \A n \in In(inbox[t]) : MessageFact(t, n)

(* The server's first notification, after which the peer is made.          *)
Rings(q) == q # << >> /\ Head(q).type = "connection"
RingsFirst(q) == \A k \in DOMAIN q : q[k].type = "connection" => k = 1

(* Offers come in the order of the peers' numbers.                         *)
Sorted(q) ==
  \A k, l \in DOMAIN q :
    k < l /\ q[k].type = "SDP_OFFER" /\ q[l].type = "SDP_OFFER"
          /\ q[k].about \cap q[l].about # {}
      => q[k].data[1] < q[l].data[1]

-----------------------------------------------------------------------------
(* The transports.                                                         *)

(* A transport that never started has no websocket; the address is fetched *)
(* while there is none, and until a new one is open there is no peer.      *)
Fresh(t) == working[t] = "idle" /\ \A i \in DOMAIN peers : peers[i].of # t

FetchFact(t) ==
  /\ Fresh(t) => ~fetching[t] /\ ws[t] = "none"
  /\ fetching[t] => ws[t] = "none"
  /\ fetching[t] \/ ws[t] = "opening" => peer[t] = NoPeer

(* A transport in the call has a peer that is not destroyed, and only a    *)
(* transport in the call has.                                              *)
MemberFact(t) ==
  /\ RingsFirst(inbox[t])
  /\ Rings(inbox[t]) => peer[t] = NoPeer
  /\ self[t] # None => Rings(inbox[t]) \/ (peer[t] # NoPeer /\ working[t] = "working")
  /\ peer[t] # NoPeer => (self[t] # None <=> ~peers[peer[t]].closed)
  /\ working[t] # "working" /\ peer[t] # NoPeer => peers[peer[t]].closed

OfferFact(t) ==
  /\ sdpOffer[t] # NoPeer =>
       LET x == peers[sdpOffer[t]] IN x.of = t /\ x.offers /\ x.awaited = "none"
  /\ peer[t] # NoPeer /\ peers[peer[t]].offers /\ peers[peer[t]].awaited = "none" =>
       sdpOffer[t] = peer[t]
  /\ peer[t] # NoPeer /\ ~peers[peer[t]].offers => sdpOffer[t] # NoPeer

Answering(t, p) == HasRole(t, "answer", p) /\ peer[t] # NoPeer /\ ~peers[peer[t]].offers

(* The next offer of the opponent is a later one.                          *)
OrderFact(t) ==
  /\ Sorted(inbox[t])
  /\ \A p \in 1..Len(owner) : Answering(t, p) =>
       /\ \A n \in In(inbox[t]) :
            n.type = "SDP_OFFER" /\ p \in n.about => peers[peer[t]].remote < n.data[1]
       /\ self[t] # None /\ peers[peer[t]].remote # NoPeer =>
            Offered(t, p, peers[peer[t]].remote)

(* The peer of t and the one that it has the SDP of have each other's.     *)
Joined(t) ==
  /\ peer[t] # NoPeer /\ ~peers[peer[t]].closed /\ peers[peer[t]].remote # NoPeer
  /\ peers[peers[peer[t]].remote].remote = peer[t]

(* Then no other offer comes, while the opponent stays with its peer.      *)
PairedFact(t) ==
  Joined(t) => \A p \in 1..Len(owner) : Answering(t, p) =>
    /\ \A n \in In(inbox[t]) : n.type = "SDP_OFFER" => p \notin n.about
    /\ ~HasLeft(p) => peer[owner[p]] = peers[peer[t]].remote

(* Nobody can have noticed that t is in the call, except by the server's   *)
(* notification: it has not said CONNECT to anybody.                       *)
Unheard(t) ==
  self[t] # None =>
    /\ \A u \in Transports : opponent[u] # self[t]
    /\ \A u \in Transports : \A n \in In(inbox[u]) :
         n.type \in {"CONNECT", "ACCEPT", "SDP_OFFER"} => self[t] \notin n.about
    /\ \A n \in In(inbox[t]) : n.type \notin {"ACCEPT", "SDP_OFFER"}

(* The state is still that of an earlier participant, while the new peer   *)
(* is checked.                                                             *)
Stale(t) ==
  /\ state[t] = "CONNECTED" /\ role[t] = "answer"
  /\ peer[t] # NoPeer /\ peers[peer[t]].offers

UnheardFact(t) == Rings(inbox[t]) \/ Stale(t) => Unheard(t)

(* The peer that this.peer has the SDP of belongs to the opponent, or will *)
(* never be connected to another one while its connection has not failed.  *)
LinkFact(t) ==
  LET j == peers[peer[t]].remote
  IN  peer[t] # NoPeer /\ j # NoPeer =>
        Gone(j) \/ (state[t] = "CONNECTED" /\ Refers(opponent[t], j))

SocketFact(t) ==
  socket[t] => (state[t] = "CONNECTED" /\ CanSend(t)) \/ Escaped(t)

TransportFact(t) ==
  /\ FetchFact(t) /\ MemberFact(t) /\ OfferFact(t) /\ OrderFact(t)
  /\ UnheardFact(t) /\ LinkFact(t) /\ SocketFact(t)
  /\ opponent[t] \in 0..Len(owner)

IInv ==
  /\ TypeOK /\ FaultsInv
  /\ InboxInv /\ PeerInv /\ ForgottenInv /\ MessageInv
  /\ \A t \in Transports : TransportFact(t) /\ PairedFact(t)

USE DEF None, NoPeer

-----------------------------------------------------------------------------
(* Queues.                                                                 *)

LEMMA InSeq ==
  ASSUME NEW S, NEW q \in Seq(S)
  PROVE  /\ In(q) \subseteq S
         /\ In(q) = {} <=> q = << >>
         /\ \A n \in S : Append(q, n) \in Seq(S) /\ In(Append(q, n)) = In(q) \cup {n}
         /\ q # << >> => /\ Head(q) \in In(q) /\ Tail(q) \in Seq(S)
                         /\ In(Tail(q)) \subseteq In(q)
<1>1. DOMAIN q = 1..Len(q) /\ Len(q) \in Nat /\ \A k \in 1..Len(q) : q[k] \in S
  OBVIOUS
<1>2. In(q) \subseteq S
  BY <1>1 DEF In
<1>3. In(q) = {} <=> q = << >>
  <2>1. q = << >> <=> Len(q) = 0
    BY EmptySeq
  <2>2. Len(q) # 0 => 1 \in DOMAIN q
    BY <1>1
  <2>3. Len(q) = 0 => DOMAIN q = {}
    BY <1>1
  <2> QED  BY <2>1, <2>2, <2>3 DEF In
<1>4. ASSUME NEW n \in S
      PROVE  Append(q, n) \in Seq(S) /\ In(Append(q, n)) = In(q) \cup {n}
  <2>1. /\ Append(q, n) \in Seq(S) /\ DOMAIN Append(q, n) = 1..(Len(q) + 1)
        /\ \A k \in 1..Len(q) : Append(q, n)[k] = q[k]
        /\ Append(q, n)[Len(q) + 1] = n
    BY AppendProperties
  <2>2. \A k \in 1..(Len(q) + 1) : k \in 1..Len(q) \/ k = Len(q) + 1
    BY <1>1
  <2>3. 1..Len(q) \subseteq 1..(Len(q) + 1) /\ Len(q) + 1 \in 1..(Len(q) + 1)
    BY <1>1
  <2> QED  BY <1>1, <2>1, <2>2, <2>3 DEF In
<1>5. ASSUME q # << >>
      PROVE  Head(q) \in In(q) /\ Tail(q) \in Seq(S) /\ In(Tail(q)) \subseteq In(q)
  <2>1. /\ Head(q) = q[1] /\ Tail(q) \in Seq(S) /\ Len(Tail(q)) = Len(q) - 1 /\ Len(q) >= 1
        /\ \A k \in 1..(Len(q) - 1) : Tail(q)[k] = q[k + 1]
    BY <1>1, <1>5, HeadTailProperties, EmptySeq
  <2>2. DOMAIN Tail(q) = 1..(Len(q) - 1) /\ 1 \in 1..Len(q)
    BY <1>1, <2>1
  <2>3. \A k \in 1..(Len(q) - 1) : k + 1 \in 1..Len(q)
    BY <1>1, <2>1
  <2> QED  BY <1>1, <2>1, <2>2, <2>3 DEF In
<1> QED  BY <1>2, <1>3, <1>4, <1>5

LEMMA RingsSeq ==
  ASSUME NEW q \in Seq(Notification), RingsFirst(q)
  PROVE  /\ \A n \in Notification : n.type # "connection" =>
              RingsFirst(Append(q, n)) /\ (Rings(Append(q, n)) <=> Rings(q))
         /\ q # << >> => RingsFirst(Tail(q)) /\ ~Rings(Tail(q))
         /\ ~Rings(q) => \A n \in In(q) : n.type # "connection"
<1>1. DOMAIN q = 1..Len(q) /\ Len(q) \in Nat
  OBVIOUS
<1>2. ASSUME NEW n \in Notification, n.type # "connection"
      PROVE  RingsFirst(Append(q, n)) /\ (Rings(Append(q, n)) <=> Rings(q))
  <2>1. /\ Append(q, n) # << >> /\ DOMAIN Append(q, n) = 1..(Len(q) + 1)
        /\ \A k \in 1..Len(q) : Append(q, n)[k] = q[k]
        /\ Append(q, n)[Len(q) + 1] = n
        /\ Head(Append(q, n)) = IF Len(q) = 0 THEN n ELSE Head(q)
    BY AppendProperties
  <2>2. RingsFirst(Append(q, n))
    BY <1>1, <1>2, <2>1 DEF RingsFirst
  <2>3. q = << >> <=> Len(q) = 0
    BY EmptySeq
  <2> QED  BY <1>2, <2>1, <2>2, <2>3 DEF Rings
<1>3. ASSUME q # << >>
      PROVE  RingsFirst(Tail(q)) /\ ~Rings(Tail(q))
  <2>1. /\ Tail(q) \in Seq(Notification) /\ Len(Tail(q)) = Len(q) - 1 /\ Len(q) >= 1
        /\ \A k \in 1..(Len(q) - 1) : Tail(q)[k] = q[k + 1]
    BY <1>1, <1>3, HeadTailProperties, EmptySeq
  <2>2. DOMAIN Tail(q) = 1..(Len(q) - 1)
    BY <1>1, <2>1
  <2>3. \A k \in 1..(Len(q) - 1) : Tail(q)[k].type # "connection"
    BY <1>1, <2>1 DEF RingsFirst
  <2>4. Tail(q) # << >> => Head(Tail(q)) = Tail(q)[1] /\ 1 \in 1..(Len(q) - 1)
    BY <1>1, <2>1, EmptySeq
  <2> QED  BY <2>2, <2>3, <2>4 DEF RingsFirst, Rings
<1>4. ASSUME ~Rings(q), NEW n \in In(q)
      PROVE  n.type # "connection"
  <2>1. PICK k \in DOMAIN q : n = q[k]
    BY DEF In
  <2>2. q # << >> /\ Head(q) = q[1]
    BY <1>1, <2>1
  <2> QED  BY <1>4, <2>1, <2>2 DEF Rings, RingsFirst
<1> QED  BY <1>2, <1>3, <1>4

Earlier(m, n) ==
  m.type = "SDP_OFFER" /\ n.type = "SDP_OFFER" /\ m.about \cap n.about # {}
    => m.data[1] < n.data[1]

LEMMA SortedSeq ==
  ASSUME NEW q \in Seq(Notification), Sorted(q)
  PROVE  /\ \A n \in Notification : (\A m \in In(q) : Earlier(m, n)) => Sorted(Append(q, n))
         /\ q # << >> => Sorted(Tail(q)) /\ \A n \in In(Tail(q)) : Earlier(Head(q), n)
<1>1. DOMAIN q = 1..Len(q) /\ Len(q) \in Nat
  OBVIOUS
<1>2. \A k, l \in 1..Len(q) : k < l => Earlier(q[k], q[l])
  BY <1>1 DEF Sorted, Earlier
<1>3. ASSUME NEW n \in Notification, \A m \in In(q) : Earlier(m, n)
      PROVE  Sorted(Append(q, n))
  <2> DEFINE r == Append(q, n)
  <2>1. /\ DOMAIN r = 1..(Len(q) + 1)
        /\ \A k \in 1..Len(q) : r[k] = q[k]
        /\ r[Len(q) + 1] = n
    BY AppendProperties
  <2>2. \A k \in 1..Len(q) : Earlier(q[k], n)
    BY <1>1, <1>3 DEF In
  <2> HIDE DEF r
  <2>3. \A k, l \in 1..(Len(q) + 1) : k < l => Earlier(r[k], r[l])
    <3> SUFFICES ASSUME NEW k \in 1..(Len(q) + 1), NEW l \in 1..(Len(q) + 1), k < l
                 PROVE  Earlier(r[k], r[l])
      OBVIOUS
    <3>1. k \in 1..Len(q) /\ (l \in 1..Len(q) \/ l = Len(q) + 1)
      BY <1>1
    <3> QED  BY <1>2, <2>1, <2>2, <3>1
  <2>4. Sorted(r)
    BY <2>1, <2>3 DEF Sorted, Earlier
  <2> QED  BY <2>4 DEF r
<1>4. ASSUME q # << >>
      PROVE  Sorted(Tail(q)) /\ \A n \in In(Tail(q)) : Earlier(Head(q), n)
  <2> DEFINE r == Tail(q)
  <2>1. /\ r \in Seq(Notification) /\ Len(r) = Len(q) - 1 /\ Len(q) >= 1
        /\ Head(q) = q[1] /\ 1 \in 1..Len(q)
        /\ \A k \in 1..(Len(q) - 1) : r[k] = q[k + 1]
    BY <1>1, <1>4, HeadTailProperties, EmptySeq
  <2>2. DOMAIN r = 1..(Len(q) - 1)
    BY <1>1, <2>1
  <2> HIDE DEF r
  <2>3. \A k \in 1..(Len(q) - 1) : k + 1 \in 1..Len(q) /\ 1 < k + 1
    BY <1>1
  <2>4. \A k, l \in 1..(Len(q) - 1) : k < l => Earlier(r[k], r[l])
    BY <1>1, <1>2, <2>1, <2>3
  <2>5. Sorted(r)
    BY <2>2, <2>4 DEF Sorted, Earlier
  <2>6. \A n \in In(r) : Earlier(Head(q), n)
    BY <1>2, <2>1, <2>2, <2>3 DEF In
  <2> QED  BY <2>5, <2>6 DEF r
<1> QED  BY <1>3, <1>4

LEMMA PostedQueues ==
  ASSUME NEW box \in Queues, NEW to, NEW n \in Notification, n.type # "connection",
         NEW u \in Transports, RingsFirst(box[u])
  PROVE  /\ In(Posted(box, to, n)[u]) \subseteq In(box[u]) \cup {n}
         /\ self[u] = None \/ self[u] \notin to => Posted(box, to, n)[u] = box[u]
         /\ RingsFirst(Posted(box, to, n)[u])
         /\ Rings(Posted(box, to, n)[u]) <=> Rings(box[u])
         /\ Sorted(box[u]) /\ (self[u] \in to => \A m \in In(box[u]) : Earlier(m, n))
              => Sorted(Posted(box, to, n)[u])
<1>1. box[u] \in Seq(Notification)
  BY DEF Queues
<1>2. CASE self[u] # None /\ self[u] \in to
  <2>1. Posted(box, to, n)[u] = Append(box[u], n)
    BY <1>2 DEF Posted
  <2> QED  BY <1>1, <1>2, <2>1, InSeq, RingsSeq, SortedSeq
<1>3. CASE ~(self[u] # None /\ self[u] \in to)
  <2>1. Posted(box, to, n)[u] = box[u]
    BY <1>3 DEF Posted
  <2> QED  BY <1>3, <2>1
<1> QED  BY <1>2, <1>3

LEMMA ReceivedQueues ==
  ASSUME inbox \in Queues, NEW t \in Transports, inbox[t] # << >>,
         NEW u \in Transports, RingsFirst(inbox[u]), Sorted(inbox[u])
  PROVE  /\ In(Received(t)[u]) \subseteq In(inbox[u])
         /\ u # t => Received(t)[u] = inbox[u]
         /\ RingsFirst(Received(t)[u])
         /\ Rings(Received(t)[u]) => u # t /\ Rings(inbox[u])
         /\ Sorted(Received(t)[u])
         /\ u = t => \A n \in In(Received(t)[u]) : Earlier(Head(inbox[t]), n)
<1>1. inbox[u] \in Seq(Notification)
  BY DEF Queues
<1>2. CASE u = t
  <2>1. Received(t)[u] = Tail(inbox[u])
    BY <1>2 DEF Received, Queues
  <2> QED  BY <1>1, <1>2, <2>1, InSeq, RingsSeq, SortedSeq
<1>3. CASE u # t
  <2>1. Received(t)[u] = inbox[u]
    BY <1>3 DEF Received, Queues
  <2> QED  BY <1>3, <2>1
<1> QED  BY <1>2, <1>3

-----------------------------------------------------------------------------
(* What every step does to participants and peers.                         *)

LEMMA PeerTypes ==
  ASSUME TypeOK
  PROVE  /\ DOMAIN peers = 1..Len(peers) /\ Len(peers) \in Nat
         /\ \A i \in 1..Len(peers) :
              /\ peers[i] \in Peer(Transports) /\ peers[i].of \in Transports
              /\ peers[i].remote \in 0..Len(peers)
              /\ peers[i].sig \in {"new", "offer", "stable"}
              /\ peers[i].awaited \in {"none", "offer", "answer"}
              /\ peers[i].channel \in {"none", "open", "closed"}
              /\ peers[i].offers \in BOOLEAN /\ peers[i].closed \in BOOLEAN
              /\ peers[i].link \in {"sound", "broken", "recovered"}
         /\ \A t \in Transports :
              /\ peer[t] \in 0..Len(peers) /\ sdpOffer[t] \in 0..Len(peers)
              /\ peer[t] # NoPeer => peer[t] \in 1..Len(peers) /\ peers[peer[t]].of = t
<1>1. /\ peers \in Seq(Peer(Transports))
      /\ peer \in [Transports -> 0..Len(peers)]
      /\ sdpOffer \in [Transports -> 0..Len(peers)]
      /\ \A i \in DOMAIN peers : peers[i].remote \in 0..Len(peers)
      /\ \A t \in Transports : peer[t] # NoPeer => peers[peer[t]].of = t
  BY DEF TypeOK, WebRTCTypeOK
<1>2. DOMAIN peers = 1..Len(peers) /\ Len(peers) \in Nat
  BY <1>1
<1>3. \A i \in 1..Len(peers) : peers[i] \in Peer(Transports)
  BY <1>1
<1> QED  BY <1>1, <1>2, <1>3 DEF Peer

LEMMA OwnerTypes ==
  ASSUME TypeOK
  PROVE  /\ DOMAIN owner = 1..Len(owner) /\ Len(owner) \in Nat
         /\ \A p \in 1..Len(owner) : owner[p] \in Transports
         /\ \A t \in Transports : self[t] # None =>
              /\ self[t] \in 1..Len(owner) /\ owner[self[t]] = t /\ self[t] \in Participant
              /\ ~HasLeft(self[t])
         /\ \A t, u \in Transports : self[t] # None /\ self[t] = self[u] => t = u
         /\ 1..Len(owner) \subseteq Participant
<1>1. /\ owner \in Seq(Transports) /\ members \subseteq 1..Len(owner)
      /\ Len(owner) <= MaxJoins
      /\ \A t \in Transports : self[t] # None => self[t] \in members /\ owner[self[t]] = t
  BY DEF TypeOK, SignalTypeOK
<1>2. 1..Len(owner) \subseteq Participant
  BY <1>1, SignalAssumption DEF Participant
<1>3. DOMAIN owner = 1..Len(owner) /\ Len(owner) \in Nat
      /\ \A p \in 1..Len(owner) : owner[p] \in Transports
  BY <1>1
<1>4. \A t \in Transports : self[t] # None => self[t] \in 1..Len(owner) /\ owner[self[t]] = t
  BY <1>1
<1>5. \A t, u \in Transports : self[t] # None /\ self[t] = self[u] => t = u
  BY <1>4
<1> QED  BY <1>2, <1>3, <1>4, <1>5 DEF HasLeft

LEMMA DueIn ==
  ASSUME TypeOK, NEW i \in DOMAIN peers, NEW j \in DOMAIN peers
  PROVE  AnswerIsDue(i, j) <=> Due(inbox[peers[j].of], i, j)
<1>1. inbox[peers[j].of] \in Seq(Notification)
  BY PeerTypes DEF TypeOK, SignalTypeOK
<1>2. PICK q \in Seq(Notification) : q = inbox[peers[j].of]
  BY <1>1
<1>3. \A k \in DOMAIN q : q[k] \in Notification
  OBVIOUS
<1>4. \A n \in Notification : n.data = <<j, i>> <=> n.data[1] = j /\ n.data[2] = i
  BY DEF Notification
<1> QED  BY <1>2, <1>3, <1>4 DEF AnswerIsDue, Due, In

(* A connection that the library gives up was closed, or reaches nobody.   *)
LEMMA UnreachableApart ==
  ASSUME TypeOK, NEW i \in DOMAIN peers, Unreachable(i)
  PROVE  peers[i].closed \/ Apart(i)
<1>1. CASE peers[i].closed \/ peers[i].link # "sound"
  BY <1>1 DEF Apart
<1>2. CASE ~(peers[i].closed \/ peers[i].link # "sound")
  <2>1. /\ peers[i].sig = "stable" /\ peers[i].awaited = "none"
        /\ peers[i].remote # NoPeer =>
             \/ peers[peers[i].remote].closed
             \/ ~(peers[peers[i].remote].remote = i \/ AnswerIsDue(i, peers[i].remote))
    BY <1>2 DEF Unreachable
  <2>2. ASSUME NEW j \in DOMAIN peers, peers[i].remote = j
        PROVE  peers[j].closed \/ (peers[j].remote # i /\ ~Due(inbox[peers[j].of], i, j))
    <3>1. j # NoPeer
      BY PeerTypes
    <3> QED  BY <2>1, <2>2, <3>1, DueIn
  <2> QED  BY <2>1, <2>2 DEF Apart
<1> QED  BY <1>1, <1>2

(* A peer that is gone remains so, if the answer it has not got yet is not *)
(* going to come.                                                          *)
LEMMA GoneStays ==
  ASSUME TypeOK, NEW i \in DOMAIN peers, Gone(i),
         DOMAIN peers \subseteq DOMAIN peers', NoPeer \notin DOMAIN peers',
         peers[i].closed => peers'[i].closed,
         Out(i) => /\ Out(i)'
                   /\ peers[i].link # "sound" => peers'[i].link # "sound"
                   /\ peers'[i].sig = peers[i].sig /\ peers'[i].remote = peers[i].remote
                   /\ peers[i].awaited = "none" => peers'[i].awaited = "none",
         \A j \in DOMAIN peers :
           /\ Out(i) /\ peers[i].sig = "stable" /\ peers[i].awaited = "none"
           /\ peers[i].remote = j
           => /\ peers[j].closed => peers'[j].closed
              /\ peers[j].remote # i /\ ~Due(inbox[peers[j].of], i, j)
                   => peers'[j].closed
                        \/ (peers'[j].remote # i /\ ~Due(inbox'[peers'[j].of], i, j))
  PROVE  Gone(i)'
<1>1. CASE peers[i].closed
  BY <1>1 DEF Gone
<1>2. CASE ~peers[i].closed
  <2>1. Out(i) /\ Apart(i) /\ Out(i)'
    BY <1>2 DEF Gone
  <2>2. CASE peers[i].link # "sound"
    BY <2>1, <2>2 DEF Gone, Apart
  <2>3. CASE peers[i].link = "sound"
    <3>1. /\ peers[i].sig = "stable" /\ peers[i].awaited = "none"
          /\ peers'[i].sig = "stable" /\ peers'[i].awaited = "none"
          /\ peers'[i].remote = peers[i].remote
      BY <2>1, <2>3 DEF Apart
    <3>2. peers[i].remote \in DOMAIN peers \/ peers[i].remote = NoPeer
      BY PeerTypes
    <3>3. ASSUME NEW j \in DOMAIN peers', peers'[i].remote = j
          PROVE  peers'[j].closed \/ (peers'[j].remote # i /\ ~Due(inbox'[peers'[j].of], i, j))
      BY <2>1, <2>3, <3>1, <3>2, <3>3 DEF Apart
    <3> QED  BY <2>1, <3>1, <3>3 DEF Gone, Apart
  <2> QED  BY <2>2, <2>3
<1> QED  BY <1>1, <1>2

(* The steps in which nobody gets an SDP.                                  *)
Frame ==
  /\ DOMAIN peers \subseteq DOMAIN peers' /\ NoPeer \notin DOMAIN peers'
  /\ \A i \in DOMAIN peers :
       /\ peers'[i].of = peers[i].of /\ peers'[i].offers = peers[i].offers
       /\ peers'[i].sig = peers[i].sig /\ peers'[i].remote = peers[i].remote
       /\ peers'[i].awaited \in {peers[i].awaited, "none"}
       /\ peers[i].closed => peers'[i].closed
       /\ peers[i].link # "sound" => peers'[i].link # "sound"
       /\ Out(i) => Out(i)'
  /\ \A u \in Transports : \A n \in In(inbox'[u]) :
       n.type = "SDP_ANSWER" =>
         \/ n \in In(inbox[u])
         \/ n.data[2] \in DOMAIN peers /\ peers[n.data[2]].awaited # "none"

LEMMA FrameGone ==
  ASSUME TypeOK, Frame, NEW i \in DOMAIN peers, Gone(i)
  PROVE  Gone(i)'
<1>1. ASSUME NEW j \in DOMAIN peers, peers[i].awaited = "none",
             ~Due(inbox[peers[j].of], i, j)
      PROVE  ~Due(inbox'[peers'[j].of], i, j)
  <2>1. peers'[j].of = peers[j].of /\ peers[j].of \in Transports
    BY PeerTypes DEF Frame
  <2> QED  BY <1>1, <2>1 DEF Frame, Due
<1> QED  BY <1>1, GoneStays DEF Frame

(* Participants never come back, and leave no peer behind that could still *)
(* be connected.                                                           *)
OwnersPass ==
  /\ Len(owner) <= Len(owner') /\ \A p \in 1..Len(owner) : owner'[p] = owner[p]
  /\ \A p \in 1..Len(owner) : HasLeft(p) => HasLeft(p)'
  /\ \A p \in 1..Len(owner), i \in DOMAIN peers :
       ~HasLeft(p) /\ HasLeft(p)' /\ peers[i].of = owner[p] => Gone(i)'

PeersPass ==
  /\ Len(peers) <= Len(peers')
  /\ \A i \in DOMAIN peers :
       /\ peers'[i].of = peers[i].of /\ peers'[i].offers = peers[i].offers
       /\ peers[i].sig = "stable" => peers'[i].sig = "stable"
       /\ peers[i].offers /\ peers[i].awaited = "none" => peers'[i].awaited = "none"
       /\ ~peers[i].offers =>
            /\ peers[i].remote <= peers'[i].remote
            /\ peers'[i].awaited = "answer" =>
                 peers[i].awaited = "answer" \/ peers[i].remote < peers'[i].remote
       /\ Gone(i) => Gone(i)'

(* What is offered has an ever higher number, and goes to the opponent.    *)
OffersPass ==
  /\ \A t \in Transports : sdpOffer[t] <= sdpOffer'[t]
  /\ \A t, u \in Transports :
       /\ self[t] # None /\ self'[t] = self[t] /\ sdpOffer'[u] = sdpOffer[u]
       /\ state[u] = "CONNECTED" /\ opponent[u] = self[t]
       => state'[u] = "CONNECTED" /\ opponent'[u] = self[t]

Passes == OwnersPass /\ PeersPass /\ OffersPass

LEMMA PeersNext ==
  ASSUME TypeOK'
  PROVE  /\ DOMAIN peers' = 1..Len(peers') /\ Len(peers') \in Nat /\ NoPeer \notin DOMAIN peers'
         /\ DOMAIN owner' = 1..Len(owner') /\ Len(owner') \in Nat
         /\ \A t \in Transports : sdpOffer'[t] \in Nat
<1>1. /\ peers' \in Seq(Peer(Transports)) /\ owner' \in Seq(Transports)
      /\ sdpOffer' \in [Transports -> 0..Len(peers')]
  BY DEF TypeOK, WebRTCTypeOK, SignalTypeOK
<1>2. DOMAIN peers' = 1..Len(peers') /\ Len(peers') \in Nat
  BY <1>1
<1>3. DOMAIN owner' = 1..Len(owner') /\ Len(owner') \in Nat
  BY <1>1
<1>4. \A t \in Transports : sdpOffer'[t] \in 0..Len(peers')
  BY <1>1
<1>5. \A t \in Transports : sdpOffer'[t] \in Nat
  BY <1>2, <1>4
<1>6. NoPeer \notin DOMAIN peers'
  BY <1>2
<1> QED  BY <1>2, <1>3, <1>5, <1>6

LEMMA FramePeersPass ==
  ASSUME TypeOK, TypeOK', Frame
  PROVE  PeersPass
<1>1. Len(peers) <= Len(peers')
  <2>1. /\ 1..Len(peers) \subseteq 1..Len(peers')
        /\ Len(peers) \in Nat /\ Len(peers') \in Nat
    BY PeerTypes, PeersNext DEF Frame
  <2> QED  BY <2>1
<1>2. ASSUME NEW i \in DOMAIN peers
      PROVE  /\ peers'[i].of = peers[i].of /\ peers'[i].offers = peers[i].offers
             /\ peers[i].sig = "stable" => peers'[i].sig = "stable"
             /\ peers[i].offers /\ peers[i].awaited = "none" => peers'[i].awaited = "none"
             /\ peers'[i].remote = peers[i].remote /\ peers[i].remote \in Nat
             /\ peers'[i].awaited = "answer" => peers[i].awaited = "answer"
  BY PeerTypes DEF Frame
<1>3. \A i \in DOMAIN peers : Gone(i) => Gone(i)'
  BY FrameGone
<1> QED  BY <1>1, <1>2, <1>3 DEF PeersPass

LEMMA RefersStays ==
  ASSUME TypeOK, TypeOK', OwnersPass, PeersPass, NEW p, NEW i, Refers(p, i)
  PROVE  Refers(p, i)'
<1>1. p \in 1..Len(owner) /\ i \in DOMAIN peers /\ peers[i].of = owner[p]
  BY DEF Refers
<1>2. p \in 1..Len(owner') /\ owner'[p] = owner[p]
  BY <1>1, OwnerTypes, PeersNext DEF OwnersPass
<1>3. i \in DOMAIN peers' /\ peers'[i].of = peers[i].of
  BY <1>1, PeerTypes, PeersNext DEF PeersPass
<1>4. HasLeft(p)' => Gone(i)'
  BY <1>1 DEF Refers, OwnersPass, PeersPass
<1> QED  BY <1>1, <1>2, <1>3, <1>4 DEF Refers

LEMMA OfferedStays ==
  ASSUME TypeOK, TypeOK', Passes, NEW t \in Transports, NEW p \in 1..Len(owner), NEW i \in Nat,
         self[t] # None, self'[t] = self[t], Offered(t, p, i)
  PROVE  Offered(t, p, i)'
<1>1. owner'[p] = owner[p] /\ owner[p] \in Transports
  BY OwnerTypes DEF Passes, OwnersPass
<1>2. PICK u \in Transports : u = owner[p]
  BY <1>1
<1>3. /\ sdpOffer[u] \in Nat /\ sdpOffer'[u] \in Nat /\ sdpOffer[u] <= sdpOffer'[u]
  BY PeerTypes, PeersNext DEF Passes, OffersPass
<1>4. SUFFICES ASSUME ~HasLeft(p)'
               PROVE  /\ i <= sdpOffer'[u]
                      /\ i = sdpOffer'[u] => state'[u] = "CONNECTED" /\ opponent'[u] = self'[t]
  BY <1>1, <1>2 DEF Offered
<1>5. /\ i <= sdpOffer[u]
      /\ i = sdpOffer[u] => state[u] = "CONNECTED" /\ opponent[u] = self[t]
  BY <1>2, <1>4 DEF Offered, Passes, OwnersPass
<1>6. i <= sdpOffer'[u] /\ (i = sdpOffer'[u] => sdpOffer[u] = i)
  BY <1>3, <1>5
<1> QED  BY <1>5, <1>6 DEF Passes, OffersPass

(* What is true of a notification on its way remains true.                 *)
LEMMA MessageFactStays ==
  ASSUME TypeOK, TypeOK', Passes, NEW t \in Transports, NEW n \in Notification,
         self[t] # None, self'[t] = self[t], MessageFact(t, n)
  PROVE  MessageFact(t, n)'
<1>1. n.about \subseteq 1..Len(owner')
  BY OwnerTypes, PeersNext DEF MessageFact, Passes, OwnersPass
<1>2. n.data[1] \in 0..Len(peers') /\ n.data[2] \in 0..Len(peers')
  BY PeerTypes, PeersNext DEF MessageFact, Passes, PeersPass
<1>3. SUFFICES ASSUME NEW p \in n.about
      PROVE  /\ n.type = "hungup" => HasLeft(p)'
             /\ n.type = "SDP_OFFER" =>
                  /\ Refers(p, n.data[1])' /\ Offered(t, p, n.data[1])'
                  /\ peers'[n.data[1]].offers /\ peers'[n.data[1]].awaited = "none"
             /\ n.type = "SDP_ANSWER" =>
                  /\ Refers(p, n.data[2])'
                  /\ ~peers'[n.data[2]].offers /\ peers'[n.data[2]].sig = "stable"
                  /\ n.data[1] \in 1..peers'[n.data[2]].remote
                  /\ peers'[n.data[2]].awaited = "answer" => n.data[1] < peers'[n.data[2]].remote
                  /\ peers'[n.data[1]].offers /\ peers'[n.data[1]].awaited = "none"
  BY <1>1, <1>2 DEF MessageFact
<1>4. p \in 1..Len(owner)
  BY DEF MessageFact
<1>5. n.type = "hungup" => HasLeft(p)'
  BY <1>4 DEF MessageFact, Passes, OwnersPass
<1>6. ASSUME n.type = "SDP_OFFER"
      PROVE  /\ Refers(p, n.data[1])' /\ Offered(t, p, n.data[1])'
             /\ peers'[n.data[1]].offers /\ peers'[n.data[1]].awaited = "none"
  <2>1. /\ Refers(p, n.data[1]) /\ Offered(t, p, n.data[1])
        /\ peers[n.data[1]].offers /\ peers[n.data[1]].awaited = "none"
    BY <1>6 DEF MessageFact
  <2>2. n.data[1] \in DOMAIN peers /\ n.data[1] \in Nat
    BY <2>1, PeerTypes DEF Refers
  <2>3. Refers(p, n.data[1])' /\ Offered(t, p, n.data[1])'
    BY <1>4, <2>1, <2>2, RefersStays, OfferedStays DEF Passes
  <2> QED  BY <2>1, <2>2, <2>3 DEF Passes, PeersPass
<1>7. ASSUME n.type = "SDP_ANSWER"
      PROVE  /\ Refers(p, n.data[2])'
             /\ ~peers'[n.data[2]].offers /\ peers'[n.data[2]].sig = "stable"
             /\ n.data[1] \in 1..peers'[n.data[2]].remote
             /\ peers'[n.data[2]].awaited = "answer" => n.data[1] < peers'[n.data[2]].remote
             /\ peers'[n.data[1]].offers /\ peers'[n.data[1]].awaited = "none"
  <2>1. /\ Refers(p, n.data[2])
        /\ ~peers[n.data[2]].offers /\ peers[n.data[2]].sig = "stable"
        /\ n.data[1] \in 1..peers[n.data[2]].remote
        /\ peers[n.data[2]].awaited = "answer" => n.data[1] < peers[n.data[2]].remote
        /\ peers[n.data[1]].offers /\ peers[n.data[1]].awaited = "none"
    BY <1>7 DEF MessageFact
  <2>2. PICK i \in DOMAIN peers : i = n.data[2]
    BY <2>1 DEF Refers
  <2>3. i \in DOMAIN peers' /\ peers'[i].remote \in Nat /\ peers[i].remote \in Nat
    <3>1. i \in DOMAIN peers'
      BY PeerTypes, PeersNext DEF Passes, PeersPass
    <3>2. peers'[i].remote \in 0..Len(peers') /\ peers[i].remote \in 0..Len(peers)
      BY <3>1 DEF TypeOK, WebRTCTypeOK
    <3> QED  BY <3>1, <3>2, PeerTypes, PeersNext
  <2>4. /\ ~peers'[i].offers /\ peers'[i].sig = "stable" /\ peers[i].remote <= peers'[i].remote
        /\ peers'[i].awaited = "answer" =>
             peers[i].awaited = "answer" \/ peers[i].remote < peers'[i].remote
    BY <2>1, <2>2 DEF Passes, PeersPass
  <2>5. /\ n.data[1] \in 1..peers'[i].remote
        /\ peers'[i].awaited = "answer" => n.data[1] < peers'[i].remote
    BY <2>1, <2>2, <2>3, <2>4
  <2>6. peers'[n.data[1]].offers /\ peers'[n.data[1]].awaited = "none"
    <3>1. peers[i].remote \in 0..Len(peers)
      BY PeerTypes
    <3>2. n.data[1] \in DOMAIN peers
      BY <2>1, <2>2, <3>1, PeerTypes
    <3> QED  BY <2>1, <3>2 DEF Passes, PeersPass
  <2> QED  BY <2>1, <2>2, <2>4, <2>5, <2>6, RefersStays DEF Passes
<1> QED  BY <1>5, <1>6, <1>7

LEMMA MessageStep ==
  ASSUME IInv, TypeOK', Passes,
         \A u \in Transports : \A n \in In(inbox'[u]) :
           (n \in In(inbox[u]) /\ self'[u] = self[u]) \/ MessageFact(u, n)'
  PROVE  MessageInv'
<1> SUFFICES ASSUME NEW u \in Transports, NEW n \in In(inbox'[u]),
                    n \in In(inbox[u]), self'[u] = self[u]
             PROVE  MessageFact(u, n)'
  BY DEF MessageInv
<1>1. inbox[u] \in Seq(Notification)
  BY DEF IInv, TypeOK, SignalTypeOK
<1>2. n \in Notification /\ inbox[u] # << >>
  BY <1>1, InSeq
<1>3. self[u] # None /\ MessageFact(u, n)
  BY <1>2 DEF IInv, InboxInv, MessageInv
<1> QED  BY <1>2, <1>3, MessageFactStays DEF IInv

LEMMA FactsOf ==
  ASSUME IInv, NEW t \in Transports
  PROVE  /\ FetchFact(t) /\ MemberFact(t) /\ OfferFact(t) /\ OrderFact(t)
         /\ UnheardFact(t) /\ LinkFact(t) /\ SocketFact(t) /\ PairedFact(t)
         /\ opponent[t] \in 0..Len(owner)
         /\ inbox[t] \in Seq(Notification) /\ inbox \in Queues
  BY DEF IInv, TransportFact, TypeOK, SignalTypeOK, Queues

-----------------------------------------------------------------------------
(* What a step leaves of the facts about a transport that has no part in   *)
(* it.                                                                     *)

KeepsPeer(u) ==
  /\ peer'[u] = peer[u]
  /\ peer[u] # NoPeer =>
       /\ peers'[peer[u]].remote = peers[peer[u]].remote
       /\ peers'[peer[u]].closed = peers[peer[u]].closed
       /\ peers[peer[u]].offers => peers'[peer[u]].awaited = peers[peer[u]].awaited
  /\ \A i \in DOMAIN peers : peers[i].of = u =>
       /\ peers'[i].channel = peers[i].channel
       /\ peers[i].link # "sound" => peers'[i].link # "sound"
  /\ \A i \in DOMAIN peers' : i \notin DOMAIN peers => peers'[i].of # u

Keeps(u) ==
  /\ fetching'[u] = fetching[u] /\ ws'[u] = ws[u] /\ self'[u] = self[u]
  /\ working'[u] = working[u] /\ state'[u] = state[u] /\ role'[u] = role[u]
  /\ opponent'[u] = opponent[u] /\ sdpOffer'[u] = sdpOffer[u] /\ socket'[u] = socket[u]
  /\ KeepsPeer(u)

(* What is added to the queue of u.                                        *)
Gets(u) ==
  /\ RingsFirst(inbox'[u]) /\ (Rings(inbox'[u]) <=> Rings(inbox[u]))
  /\ Sorted(inbox'[u])
  /\ \A n \in In(inbox'[u]) : n.type = "SDP_OFFER" =>
       n \in In(inbox[u]) \/ \A p \in n.about :
         Answering(u, p) => ~Joined(u) /\ peers[peer[u]].remote < n.data[1]

(* Nobody hears of u in this step.                                         *)
Hides(u) ==
  Unheard(u) /\ self[u] # None =>
    /\ \A v \in Transports : opponent'[v] # self[u]
    /\ \A v \in Transports : \A n \in In(inbox'[v]) :
         n.type \in {"CONNECT", "ACCEPT", "SDP_OFFER"} =>
           n \in In(inbox[v]) \/ self[u] \notin n.about
    /\ \A n \in In(inbox'[u]) :
         n.type \in {"ACCEPT", "SDP_OFFER"} => n \in In(inbox[u])

LEMMA UnheardStays ==
  ASSUME NEW u \in Transports, self'[u] \in {self[u], None}, Unheard(u), Hides(u)
  PROVE  Unheard(u)'
<1> SUFFICES ASSUME self'[u] # None PROVE Unheard(u)'
  BY DEF Unheard
<1>1. self'[u] = self[u] /\ self[u] # None
  OBVIOUS
<1>2. \A v \in Transports : opponent'[v] # self'[u]
  BY <1>1 DEF Hides
<1>3. ASSUME NEW v \in Transports, NEW n \in In(inbox'[v]),
             n.type \in {"CONNECT", "ACCEPT", "SDP_OFFER"}
      PROVE  self'[u] \notin n.about
  BY <1>1, <1>3 DEF Hides, Unheard
<1>4. ASSUME NEW n \in In(inbox'[u])
      PROVE  n.type \notin {"ACCEPT", "SDP_OFFER"}
  BY <1>1 DEF Hides, Unheard
<1> QED  BY <1>2, <1>3, <1>4 DEF Unheard

LEMMA LinkStays ==
  ASSUME IInv, TypeOK', OwnersPass, PeersPass, NEW u \in Transports,
         peer'[u] = peer[u],
         peer[u] # NoPeer => peers'[peer[u]].remote = peers[peer[u]].remote,
         peer[u] # NoPeer /\ peers[peer[u]].remote # NoPeer
           => \/ state[u] # "CONNECTED" \/ Gone(peers[peer[u]].remote)
              \/ state'[u] = "CONNECTED" /\ opponent'[u] = opponent[u]
  PROVE  LinkFact(u)'
<1> SUFFICES ASSUME peer[u] # NoPeer, peers'[peer[u]].remote # NoPeer
             PROVE  \/ Gone(peers[peer[u]].remote)'
                    \/ (state'[u] = "CONNECTED" /\ Refers(opponent[u], peers[peer[u]].remote)'
                         /\ opponent'[u] = opponent[u])
  BY DEF LinkFact
<1>1. PICK j \in DOMAIN peers : j = peers[peer[u]].remote
  <2>1. peers[peer[u]].remote \in 0..Len(peers) /\ peers[peer[u]].remote # NoPeer
    BY PeerTypes DEF IInv
  <2> QED  BY <2>1, PeerTypes DEF IInv
<1>2. Gone(j) \/ (state[u] = "CONNECTED" /\ Refers(opponent[u], j))
  BY <1>1, FactsOf DEF LinkFact
<1>3. Gone(j) => Gone(j)'
  BY DEF PeersPass
<1>4. Refers(opponent[u], j) /\ opponent'[u] = opponent[u] => Refers(opponent[u], j)'
  <2>1. \A p : Refers(p, j) => Refers(p, j)'
    BY RefersStays DEF IInv
  <2> QED  BY <2>1 DEF Refers
<1> QED  BY <1>1, <1>2, <1>3, <1>4

LEMMA OrderStays ==
  ASSUME IInv, TypeOK', Passes, NEW u \in Transports,
         self'[u] \in {self[u], None}, state'[u] = state[u], role'[u] = role[u],
         opponent'[u] = opponent[u], peer'[u] = peer[u],
         peer[u] # NoPeer => peers'[peer[u]].remote = peers[peer[u]].remote,
         Gets(u)
  PROVE  OrderFact(u)'
<1> SUFFICES ASSUME NEW p \in 1..Len(owner'), Answering(u, p)'
             PROVE  /\ \A n \in In(inbox'[u]) : n.type = "SDP_OFFER" /\ p \in n.about
                         => peers'[peer'[u]].remote < n.data[1]
                    /\ self'[u] # None /\ peers'[peer'[u]].remote # NoPeer =>
                         Offered(u, p, peers[peer[u]].remote)'
  BY DEF OrderFact, Gets
<1>1. peer[u] \in DOMAIN peers
  BY PeerTypes DEF IInv, Answering
<1>2. Answering(u, p)
  BY <1>1 DEF Answering, HasRole, Passes, PeersPass
<1>3. p \in 1..Len(owner)
  <2>1. opponent[u] = p /\ opponent[u] \in 0..Len(owner) /\ Len(owner) \in Nat /\ Len(owner') \in Nat
    BY <1>2, FactsOf, OwnerTypes, PeersNext DEF IInv, Answering, HasRole
  <2> QED  BY <2>1
<1>4. /\ \A n \in In(inbox[u]) :
           n.type = "SDP_OFFER" /\ p \in n.about => peers[peer[u]].remote < n.data[1]
      /\ self[u] # None /\ peers[peer[u]].remote # NoPeer =>
           Offered(u, p, peers[peer[u]].remote)
  BY <1>2, <1>3, FactsOf DEF OrderFact
<1>5. peers[peer[u]].remote \in Nat
  BY <1>1, PeerTypes DEF IInv
<1>6. peers'[peer'[u]].remote = peers[peer[u]].remote
  BY <1>1, PeerTypes DEF IInv
<1>7. ASSUME NEW n \in In(inbox'[u]), n.type = "SDP_OFFER", p \in n.about
      PROVE  peers[peer[u]].remote < n.data[1]
  BY <1>2, <1>4, <1>7 DEF Gets
<1>8. ASSUME self'[u] # None, peers[peer[u]].remote # NoPeer
      PROVE  Offered(u, p, peers[peer[u]].remote)'
  <2>1. self'[u] = self[u] /\ self[u] # None /\ Offered(u, p, peers[peer[u]].remote)
    BY <1>4, <1>8
  <2>2. PICK j \in Nat : j = peers[peer[u]].remote
    BY <1>5
  <2>3. Offered(u, p, j)'
    BY <1>3, <2>1, <2>2, OfferedStays DEF IInv
  <2>4. (peers[peer[u]].remote)' = j
    BY <1>6, <2>2
  <2> QED  BY <2>3, <2>4 DEF Offered
<1> QED  BY <1>6, <1>7, <1>8

(* A channel that has opened after a failure is marked as long as it is    *)
(* open.                                                                   *)
LEMMA EscapedStays ==
  ASSUME NEW u \in Transports, Escaped(u), DOMAIN peers \subseteq DOMAIN peers',
         \A i \in DOMAIN peers :
           /\ peers'[i].of = peers[i].of
           /\ peers[i].of = u /\ peers[i].channel = "open" /\ peers[i].link # "sound"
                => peers'[i].channel = "open" /\ peers'[i].link # "sound"
  PROVE  Escaped(u)'
<1>1. PICK i \in DOMAIN peers :
        peers[i].of = u /\ peers[i].channel = "open" /\ peers[i].link # "sound"
  BY DEF Escaped
<1>2. /\ i \in DOMAIN peers' /\ peers'[i].of = u
      /\ peers'[i].channel = "open" /\ peers'[i].link # "sound"
  BY <1>1
<1> QED  BY <1>2 DEF Escaped

LEMMA BystanderStep ==
  ASSUME IInv, TypeOK', Passes, NEW u \in Transports, Keeps(u), Gets(u), Hides(u)
  PROVE  TransportFact(u)'
<1>0. /\ DOMAIN peers \subseteq DOMAIN peers' /\ Len(peers) <= Len(peers')
      /\ peer[u] \in 0..Len(peers) /\ sdpOffer[u] \in 0..Len(peers)
      /\ peer[u] # NoPeer => peer[u] \in DOMAIN peers
      /\ sdpOffer[u] # NoPeer => sdpOffer[u] \in DOMAIN peers
  BY PeerTypes, PeersNext DEF IInv, Passes, PeersPass
<1>1. FetchFact(u)'
  <2>1. \A i \in DOMAIN peers : peers'[i].of = peers[i].of
    BY DEF Passes, PeersPass
  <2> QED  BY <1>0, <2>1, FactsOf DEF Keeps, KeepsPeer, FetchFact, Fresh
<1>2. MemberFact(u)'
  BY FactsOf DEF Keeps, KeepsPeer, Gets, MemberFact
<1>3. OfferFact(u)'
  <2>1. sdpOffer[u] # NoPeer => /\ peers'[sdpOffer[u]].of = u
                                /\ peers'[sdpOffer[u]].offers
                                /\ peers'[sdpOffer[u]].awaited = "none"
    BY <1>0, FactsOf DEF OfferFact, Passes, PeersPass
  <2>2. peer[u] # NoPeer => peers'[peer[u]].offers = peers[peer[u]].offers
    BY <1>0 DEF Passes, PeersPass
  <2> QED  BY <2>1, <2>2, FactsOf DEF OfferFact, Keeps, KeepsPeer
<1>4. OrderFact(u)'
  BY OrderStays DEF Keeps, KeepsPeer
<1>5. UnheardFact(u)'
  <2>1. Rings(inbox'[u]) \/ Stale(u)' => Rings(inbox[u]) \/ Stale(u)
    BY <1>0 DEF Keeps, KeepsPeer, Gets, Stale, Passes, PeersPass
  <2>2. Unheard(u) => Unheard(u)'
    BY UnheardStays DEF Keeps
  <2> QED  BY <2>1, <2>2, FactsOf DEF UnheardFact
<1>6. LinkFact(u)'
  BY LinkStays DEF Keeps, KeepsPeer, Passes
<1>7. SocketFact(u)'
  <2>1. CanSend(u) => CanSend(u)'
    BY <1>0, PeerTypes DEF IInv, CanSend, Keeps, KeepsPeer
  <2>2. \A i \in DOMAIN peers : peers'[i].of = peers[i].of
    BY DEF Passes, PeersPass
  <2>3. Escaped(u) => Escaped(u)'
    BY <1>0, <2>2, EscapedStays DEF Keeps, KeepsPeer
  <2> QED  BY <2>1, <2>3, FactsOf DEF SocketFact, Keeps
<1>8. opponent'[u] \in 0..Len(owner')
  <2>1. /\ opponent'[u] = opponent[u] /\ opponent[u] \in 0..Len(owner)
        /\ Len(owner) <= Len(owner') /\ Len(owner) \in Nat /\ Len(owner') \in Nat
    BY FactsOf, OwnerTypes, PeersNext DEF IInv, Keeps, Passes, OwnersPass
  <2> QED  BY <2>1
<1> QED  BY <1>1, <1>2, <1>3, <1>4, <1>5, <1>6, <1>7, <1>8 DEF TransportFact

(* A peer whose SDP the opponent's peer has got is the opponent's peer,    *)
(* and was offered to nobody else.                                         *)
LEMMA JoinedMeans ==
  ASSUME IInv, NEW t \in Transports, NEW p \in 1..Len(owner),
         Joined(t), Answering(t, p), ~HasLeft(p)
  PROVE  /\ owner[p] \in Transports /\ self[t] # None
         /\ peer[owner[p]] = peers[peer[t]].remote
         /\ sdpOffer[owner[p]] = peers[peer[t]].remote
         /\ state[owner[p]] = "CONNECTED" /\ opponent[owner[p]] = self[t]
<1>1. PICK u \in Transports : u = owner[p]
  BY OwnerTypes DEF IInv
<1>2. PICK k \in DOMAIN peers : k = peer[t]
  BY PeerTypes DEF IInv, Joined
<1>3. /\ ~peers[k].offers /\ ~peers[k].closed /\ peers[k].remote # NoPeer
      /\ peer[u] = peers[k].remote
  BY <1>1, <1>2, FactsOf DEF PairedFact, Joined, Answering
<1>4. self[t] # None
  BY <1>2, <1>3, FactsOf DEF MemberFact, Joined
<1>5. Offered(t, p, peers[k].remote)
  BY <1>2, <1>3, <1>4, FactsOf DEF OrderFact
<1>6. peers[peers[k].remote].offers /\ peers[peers[k].remote].awaited = "none"
  BY <1>3 DEF IInv, PeerInv, PeerFact
<1>7. sdpOffer[u] = peers[k].remote
  BY <1>3, <1>6, FactsOf DEF OfferFact
<1> QED  BY <1>1, <1>2, <1>3, <1>4, <1>5, <1>7 DEF Offered

LEMMA PairedStays ==
  ASSUME IInv, TypeOK', Passes, NEW u \in Transports,
         state'[u] = state[u], role'[u] = role[u], opponent'[u] = opponent[u],
         peer'[u] = peer[u],
         peer[u] # NoPeer => peers'[peer[u]].remote = peers[peer[u]].remote,
         Joined(u)' => Joined(u), Gets(u),
         \A p \in 1..Len(owner) : Joined(u) /\ Answering(u, p) /\ ~HasLeft(p)' =>
           peer'[owner[p]] = peer[owner[p]]
  PROVE  PairedFact(u)'
<1> SUFFICES ASSUME Joined(u)', NEW p \in 1..Len(owner'), Answering(u, p)'
             PROVE  /\ \A n \in In(inbox'[u]) : n.type = "SDP_OFFER" => p \notin n.about
                    /\ ~HasLeft(p)' => peer'[owner'[p]] = peers'[peer'[u]].remote
  BY DEF PairedFact
<1>1. peer[u] \in DOMAIN peers
  BY PeerTypes DEF IInv, Answering
<1>2. Answering(u, p) /\ Joined(u)
  BY <1>1 DEF Answering, HasRole, Passes, PeersPass
<1>3. p \in 1..Len(owner)
  <2>1. opponent[u] = p /\ opponent[u] \in 0..Len(owner) /\ Len(owner) \in Nat /\ Len(owner') \in Nat
    BY <1>2, FactsOf, OwnerTypes, PeersNext DEF IInv, Answering, HasRole
  <2> QED  BY <2>1
<1>4. /\ \A n \in In(inbox[u]) : n.type = "SDP_OFFER" => p \notin n.about
      /\ ~HasLeft(p) => peer[owner[p]] = peers[peer[u]].remote
  BY <1>2, <1>3, FactsOf DEF PairedFact
<1>5. \A n \in In(inbox'[u]) : n.type = "SDP_OFFER" => p \notin n.about
  BY <1>2, <1>4 DEF Gets
<1>6. ~HasLeft(p)' => peer'[owner'[p]] = peers'[peer'[u]].remote
  <2>1. owner'[p] = owner[p] /\ (HasLeft(p) => HasLeft(p)')
    BY <1>3 DEF Passes, OwnersPass
  <2>2. peers'[peer'[u]].remote = peers[peer[u]].remote
    BY <1>1, PeerTypes DEF IInv
  <2> QED  BY <1>2, <1>3, <1>4, <2>1, <2>2
<1> QED  BY <1>5, <1>6

LEMMA ForgottenStays ==
  ASSUME IInv, TypeOK', PeersPass,
         \A i \in DOMAIN peers : Out(i)' => Out(i) \/ Gone(i)',
         \A i \in DOMAIN peers' : i \notin DOMAIN peers => ~Out(i)'
  PROVE  ForgottenInv'
<1> SUFFICES ASSUME NEW i \in DOMAIN peers', Out(i)' PROVE Gone(i)'
  BY DEF ForgottenInv
<1>1. i \in DOMAIN peers
  OBVIOUS
<1>2. Out(i) => Gone(i)
  BY <1>1 DEF IInv, ForgottenInv
<1> QED  BY <1>1, <1>2 DEF PeersPass

(* Two peers with each other's SDP are those of their transports, if their *)
(* connection has not failed.                                              *)
LEMMA MatchedMeans ==
  ASSUME IInv, NEW i \in DOMAIN peers, Matched(i)
  PROVE  /\ peers[i].remote \in DOMAIN peers /\ Matched(peers[i].remote)
         /\ peers[i].awaited = "none" /\ peers[peers[i].remote].remote = i
         /\ peers[i].link = "sound" =>
              ~Out(i) /\ ~Gone(i) /\ peers[peers[i].remote].link = "sound"
<1>1. PICK j \in DOMAIN peers : j = peers[i].remote
  BY PeerTypes DEF IInv, Matched
<1>2. /\ peers[j].remote = i /\ i # NoPeer
      /\ \A k \in {i, j} : peers[k].sig = "stable" /\ ~peers[k].closed
  BY <1>1, PeerTypes DEF IInv, Matched
<1>3. ASSUME NEW k \in DOMAIN peers, NEW l \in DOMAIN peers, peers[k].remote = l,
             peers[l].remote = k, peers[k].sig = "stable"
      PROVE  peers[k].awaited = "none"
  <2>1. PeerFact(k) /\ l # NoPeer
    BY PeerTypes DEF IInv, PeerInv
  <2>2. /\ peers[k].awaited \in {"none", "offer", "answer"}
        /\ peers[k].offers \in BOOLEAN
    BY PeerTypes DEF IInv
  <2> QED  BY <1>3, <2>1, <2>2 DEF PeerFact
<1>4. Matched(j)
  BY <1>1, <1>2 DEF Matched
<1>5. peers[i].awaited = "none"
  BY <1>1, <1>2, <1>3
<1>6. ASSUME peers[i].link = "sound"
      PROVE  ~Out(i) /\ ~Gone(i) /\ peers[j].link = "sound"
  <2>1. ~Gone(i)
    BY <1>1, <1>2, <1>6 DEF Gone, Apart
  <2>2. PeerFact(j)
    BY DEF IInv, PeerInv
  <2> QED  BY <1>2, <1>6, <2>1, <2>2 DEF IInv, ForgottenInv, PeerFact
<1> QED  BY <1>1, <1>2, <1>4, <1>5, <1>6

LEMMA FramePeerInv ==
  ASSUME IInv, TypeOK', Frame,
         \A i \in DOMAIN peers :
           /\ peers'[i].awaited = "offer" /\ ~peers'[i].closed => sdpOffer'[peers[i].of] < i
           /\ peers'[i].link # "sound" =>
                peers[i].link # "sound"
                  \/ (Matched(i) /\ peers'[peers[i].remote].link # "sound"),
         \A i \in DOMAIN peers' : i \notin DOMAIN peers => PeerFact(i)'
  PROVE  PeerInv'
<1> SUFFICES ASSUME NEW i \in DOMAIN peers PROVE PeerFact(i)'
  BY DEF PeerInv
<1>1. PeerFact(i) /\ peers[i].awaited \in {"none", "offer", "answer"}
  BY PeerTypes DEF IInv, PeerInv
<1>2. /\ peers'[i].of = peers[i].of /\ peers'[i].offers = peers[i].offers
      /\ peers'[i].sig = peers[i].sig /\ peers'[i].remote = peers[i].remote
      /\ peers'[i].awaited \in {peers[i].awaited, "none"}
      /\ peers[i].closed => peers'[i].closed
  BY DEF Frame
<1>3. peers[i].remote # NoPeer =>
        LET r == peers[i].remote
        IN  /\ peers'[r].offers = peers[r].offers /\ peers'[r].sig = peers[r].sig
            /\ peers'[r].remote = peers[r].remote
            /\ peers[r].awaited = "none" => peers'[r].awaited = "none"
            /\ peers[r].link # "sound" => peers'[r].link # "sound"
  <2>1. peers[i].remote # NoPeer => peers[i].remote \in DOMAIN peers
    BY PeerTypes DEF IInv
  <2> QED  BY <2>1 DEF Frame
<1>4. peers'[i].link # "sound" =>
        /\ peers[i].awaited = "none" /\ peers[i].remote # NoPeer
        /\ peers[peers[i].remote].remote = i /\ peers'[peers[i].remote].link # "sound"
  <2>1. CASE peers[i].link # "sound"
    BY <1>1, <1>3, <2>1 DEF PeerFact
  <2>2. CASE peers[i].link = "sound"
    BY <2>2, MatchedMeans DEF Matched
  <2> QED  BY <2>1, <2>2
<1>5. peers'[i].awaited = "offer" /\ ~peers'[i].closed => sdpOffer'[peers[i].of] < i
  OBVIOUS
<1> QED  BY <1>1, <1>2, <1>3, <1>4, <1>5 DEF PeerFact

LEMMA SameOwners ==
  ASSUME owner' = owner, self' = self
  PROVE  OwnersPass
  BY DEF OwnersPass, HasLeft

LEMMA SameOffers ==
  ASSUME TypeOK, sdpOffer' = sdpOffer, state' = state, opponent' = opponent
  PROVE  OffersPass
<1>1. \A t \in Transports : sdpOffer[t] <= sdpOffer[t]
  BY PeerTypes
<1> QED  BY <1>1 DEF OffersPass

-----------------------------------------------------------------------------
(* Steps in which only the way to the signal server changes, or a process  *)
(* ends.                                                                   *)

quietVars == <<self, inbox, owner, peers, peer, sdpOffer, socket, state, role, opponent>>

LEMMA QuietStep ==
  ASSUME IInv, TypeOK', InboxInv', FaultsInv', UNCHANGED quietVars,
         \A t \in Transports : FetchFact(t)' /\ MemberFact(t)'
  PROVE  IInv'
<1>0. /\ self' = self /\ inbox' = inbox /\ owner' = owner /\ peers' = peers /\ peer' = peer
      /\ sdpOffer' = sdpOffer /\ socket' = socket /\ state' = state /\ role' = role
      /\ opponent' = opponent
  BY DEF quietVars
<1>1. PeerInv'
  BY <1>0 DEF IInv, PeerInv, PeerFact
<1>2. \A i : Gone(i)' <=> Gone(i)
  BY <1>0 DEF Gone, Out, Apart, Due
<1>3. ForgottenInv'
  BY <1>0, <1>2 DEF IInv, ForgottenInv, Out
<1>4. /\ \A p, i : Refers(p, i)' <=> Refers(p, i)
      /\ \A t, p, i : Offered(t, p, i)' <=> Offered(t, p, i)
      /\ \A t, p : Answering(t, p)' <=> Answering(t, p)
  BY <1>0, <1>2 DEF Refers, Offered, HasLeft, Answering, HasRole
<1>5. MessageInv'
  <2>1. \A t, n : MessageFact(t, n)' <=> MessageFact(t, n)
    BY <1>0, <1>4 DEF MessageFact, HasLeft
  <2> QED  BY <1>0, <2>1 DEF IInv, MessageInv
<1>6. ASSUME NEW t \in Transports PROVE TransportFact(t)' /\ PairedFact(t)'
  <2>1. OfferFact(t)' /\ SocketFact(t)' /\ opponent'[t] \in 0..Len(owner')
    BY <1>0, FactsOf DEF OfferFact, SocketFact, CanSend, Escaped
  <2>2. OrderFact(t)'
    BY <1>0, <1>4, FactsOf DEF OrderFact
  <2>3. UnheardFact(t)'
    BY <1>0, FactsOf DEF UnheardFact, Unheard, Stale
  <2>4. LinkFact(t)'
    BY <1>0, <1>2, <1>4, FactsOf DEF LinkFact, Refers, HasLeft
  <2>5. PairedFact(t)'
    BY <1>0, <1>4, FactsOf DEF PairedFact, Joined, HasLeft
  <2> QED  BY <2>1, <2>2, <2>3, <2>4, <2>5 DEF TransportFact
<1> QED  BY <1>1, <1>3, <1>5, <1>6 DEF IInv

LEMMA FaultTypes ==
  ASSUME IInv, NEW t \in Transports,
         \/ UNCHANGED <<lost, stopped>>
         \/ t \notin lost /\ FaultsLeft /\ lost' = lost \cup {t} /\ stopped' = stopped
         \/ t \notin stopped /\ FaultsLeft /\ stopped' = stopped \cup {t} /\ lost' = lost
  PROVE  /\ FaultsInv' /\ lost' \subseteq Transports /\ stopped' \subseteq Transports
         /\ Cardinality(lost') + Cardinality(stopped') <= MaxFaults
<1>1. /\ IsFiniteSet(lost) /\ IsFiniteSet(stopped)
      /\ lost \subseteq Transports /\ stopped \subseteq Transports
      /\ Cardinality(lost) + Cardinality(stopped) <= MaxFaults
  BY DEF IInv, TypeOK, FaultsInv
<1>2. /\ Cardinality(lost) \in Nat /\ Cardinality(stopped) \in Nat /\ MaxFaults \in Nat
  BY <1>1, FS_CardinalityType, WebRTCAssumption
<1>3. CASE UNCHANGED <<lost, stopped>>
  BY <1>1, <1>3 DEF FaultsInv
<1>4. CASE t \notin lost /\ FaultsLeft /\ lost' = lost \cup {t} /\ stopped' = stopped
  <2>1. IsFiniteSet(lost') /\ Cardinality(lost') = Cardinality(lost) + 1
    BY <1>1, <1>4, FS_AddElement
  <2>2. Cardinality(lost') + Cardinality(stopped') <= MaxFaults
    BY <1>2, <1>4, <2>1 DEF FaultsLeft
  <2> QED  BY <1>1, <1>4, <2>1, <2>2 DEF FaultsInv
<1>5. CASE t \notin stopped /\ FaultsLeft /\ stopped' = stopped \cup {t} /\ lost' = lost
  <2>1. IsFiniteSet(stopped') /\ Cardinality(stopped') = Cardinality(stopped) + 1
    BY <1>1, <1>5, FS_AddElement
  <2>2. Cardinality(lost') + Cardinality(stopped') <= MaxFaults
    BY <1>2, <1>5, <2>1 DEF FaultsLeft
  <2> QED  BY <1>1, <1>5, <2>1, <2>2 DEF FaultsInv
<1> QED  BY <1>3, <1>4, <1>5

(* The types of what is not of the signal server.                          *)
WorkTypeOK ==
  /\ working \in [Transports -> {"idle", "starting", "working", "stopping"}]
  /\ state \in [Transports -> {"none", "CONNECTING", "CONNECTED"}]
  /\ opponent \in [Transports -> Participant \cup {None}]
  /\ participants \in [Transports -> SUBSET Participant]
  /\ role \in [Transports -> {"none", "offer", "answer"}]
  /\ crashed \in [Transports -> BOOLEAN]
  /\ \A t \in Transports : opponent[t] # None <=> state[t] = "CONNECTED"
  /\ \A t \in Transports : state[t] # "none" => turnServerConnectionSuccess[t]

LEMMA Types ==
  IInv => SignalTypeOK /\ InboxInv /\ WebRTCTypeOK(Transports) /\ WorkTypeOK
  BY DEF IInv, TypeOK, WorkTypeOK

LEMMA TypesNext ==
  ASSUME IInv, NEW t \in Transports,
         SignalTypeOK', WebRTCTypeOK(Transports)', WorkTypeOK',
         \/ UNCHANGED <<lost, stopped>>
         \/ t \notin lost /\ FaultsLeft /\ lost' = lost \cup {t} /\ stopped' = stopped
         \/ t \notin stopped /\ FaultsLeft /\ stopped' = stopped \cup {t} /\ lost' = lost
  PROVE  TypeOK' /\ FaultsInv'
  BY FaultTypes DEF TypeOK, WorkTypeOK

LEMMA StartStep ==
  ASSUME IInv, NEW t \in Transports, start(t) \/ startSignalServerConnection(t)
  PROVE  IInv'
<1>1. CASE start(t)
  <2>1. /\ working' = [working EXCEPT ![t] = "starting"] /\ Fresh(t)
        /\ fetching' = [fetching EXCEPT ![t] = TRUE]
        /\ UNCHANGED <<ws, self, inbox, members, owner, webRTCVars, peerVars, faultVars>>
    BY <1>1 DEF start, FetchUrl, Becomes, Fresh
  <2>2. SignalTypeOK' /\ InboxInv' /\ WebRTCTypeOK(Transports)' /\ WorkTypeOK'
    BY <2>1, Types DEF SignalTypeOK, InboxInv, WebRTCTypeOK, WorkTypeOK,
                       webRTCVars, peerVars, faultVars
  <2>3. TypeOK' /\ FaultsInv'
    BY <2>1, <2>2, TypesNext DEF faultVars
  <2>4. UNCHANGED quietVars
    BY <2>1 DEF quietVars, webRTCVars, peerVars
  <2>5. ASSUME NEW u \in Transports PROVE FetchFact(u)' /\ MemberFact(u)'
    <3>1. CASE u # t
      BY <2>1, <2>4, <3>1, FactsOf, Types DEF FetchFact, Fresh, MemberFact, quietVars,
                                              WorkTypeOK, SignalTypeOK
    <3>2. CASE u = t
      <4>1. ws[t] = "none" /\ self[t] = None /\ peer[t] = NoPeer /\ inbox[t] = << >>
        <5>1. peer[t] = NoPeer
          BY <2>1, PeerTypes DEF Fresh, IInv
        <5>2. ws[t] = "none"
          BY <2>1, FactsOf DEF FetchFact
        <5> QED  BY <5>1, <5>2, Types DEF SignalTypeOK, InboxInv
      <4>2. fetching'[t] /\ working'[t] = "starting"
        BY <2>1, Types DEF WorkTypeOK, SignalTypeOK
      <4> QED  BY <2>1, <2>4, <3>2, <4>1, <4>2, FactsOf DEF FetchFact, Fresh, MemberFact, quietVars
    <3> QED  BY <3>1, <3>2
  <2> QED  BY <2>2, <2>3, <2>4, <2>5, QuietStep
<1>2. CASE startSignalServerConnection(t)
  <2>1. /\ fetching[t] /\ fetching' = [fetching EXCEPT ![t] = FALSE]
        /\ ws' = [ws EXCEPT ![t] = "opening"]
        /\ UNCHANGED <<self, inbox, members, owner, webRTCVars, working, peerVars, faultVars>>
    BY <1>2 DEF startSignalServerConnection, SignalStart
  <2>2. SignalTypeOK' /\ InboxInv' /\ WebRTCTypeOK(Transports)' /\ WorkTypeOK'
    <3>1. ws[t] = "none"
      BY <2>1, FactsOf DEF FetchFact
    <3>2. SignalTypeOK' /\ InboxInv'
      BY <2>1, <3>1, Types DEF SignalTypeOK, InboxInv
    <3> QED  BY <2>1, <3>2, Types DEF WebRTCTypeOK, WorkTypeOK, webRTCVars, peerVars, faultVars
  <2>3. TypeOK' /\ FaultsInv'
    BY <2>1, <2>2, TypesNext DEF faultVars
  <2>4. UNCHANGED quietVars
    BY <2>1 DEF quietVars, webRTCVars, peerVars
  <2>5. ASSUME NEW u \in Transports PROVE FetchFact(u)' /\ MemberFact(u)'
    BY <2>1, <2>4, FactsOf, Types DEF FetchFact, Fresh, MemberFact, quietVars, SignalTypeOK
  <2> QED  BY <2>2, <2>3, <2>4, <2>5, QuietStep
<1> QED  BY <1>1, <1>2

(* A process ends, and nothing else happens.                               *)
LEMMA CrashStep ==
  ASSUME IInv, NEW t \in Transports, Crashes(t),
         \/ UNCHANGED <<lost, stopped>>
         \/ CanFail(t) /\ lost' = lost \cup {t} /\ stopped' = stopped,
         fetching' \in {fetching, [fetching EXCEPT ![t] = FALSE]},
         UNCHANGED <<ws, self, inbox, members, owner, webRTCVars, working, peerVars>>
  PROVE  IInv'
<1>1. /\ UNCHANGED quietVars /\ ws' = ws /\ working' = working
      /\ crashed' = [crashed EXCEPT ![t] = TRUE]
  BY DEF quietVars, webRTCVars, peerVars, Crashes
<1>2. SignalTypeOK' /\ InboxInv' /\ WebRTCTypeOK(Transports)' /\ WorkTypeOK'
  <2>1. SignalTypeOK' /\ InboxInv'
    BY Types DEF SignalTypeOK, InboxInv
  <2>2. WebRTCTypeOK(Transports)'
    BY Types DEF WebRTCTypeOK, webRTCVars
  <2> QED  BY <1>1, <2>1, <2>2, Types DEF WorkTypeOK, webRTCVars, peerVars
<1>3. TypeOK' /\ FaultsInv'
  BY <1>2, TypesNext DEF CanFail
<1>4. ASSUME NEW u \in Transports PROVE FetchFact(u)' /\ MemberFact(u)'
  <2>1. fetching'[u] => fetching[u]
    BY Types DEF SignalTypeOK
  <2> QED  BY <1>1, <2>1, FactsOf DEF FetchFact, Fresh, MemberFact, quietVars
<1> QED  BY <1>1, <1>2, <1>3, <1>4, QuietStep

LEMMA FailureSteps ==
  ASSUME IInv, NEW t \in Transports,
         \/ UrlFails(t) \/ GatheringFails(t) \/ AwaitRejects(t)
         \/ WriteWithoutChannel(t) \/ DataWithoutSocket(t)
  PROVE  IInv'
<1>1. CASE UrlFails(t)
  BY <1>1, CrashStep DEF UrlFails
<1>2. CASE GatheringFails(t)
  BY <1>2, CrashStep DEF GatheringFails, signalVars
<1>3. CASE AwaitRejects(t)
  BY <1>3, CrashStep DEF AwaitRejects, signalVars
<1>4. CASE DataWithoutSocket(t)
  BY <1>4, CrashStep DEF DataWithoutSocket, signalVars
<1>5. CASE WriteWithoutChannel(t)
  BY <1>5, CrashStep DEF WriteWithoutChannel, signalVars
<1> QED  BY <1>1, <1>2, <1>3, <1>4, <1>5

-----------------------------------------------------------------------------
(* Steps in which only the queues change.                                  *)

LEMMA QueueStep ==
  ASSUME IInv, TypeOK', FaultsInv', InboxInv',
         UNCHANGED <<fetching, ws, self, owner, webRTCVars, working, state, opponent, role>>,
         \A u \in Transports :
           /\ RingsFirst(inbox'[u]) /\ (Rings(inbox'[u]) <=> Rings(inbox[u]))
           /\ Sorted(inbox'[u])
           /\ \A n \in In(inbox'[u]) :
                n \in In(inbox[u])
                  \/ (n.type \in {"registered-peer", "hungup"} /\ MessageFact(u, n)')
  PROVE  IInv'
<1>1. /\ peers' = peers /\ peer' = peer /\ sdpOffer' = sdpOffer /\ socket' = socket
  BY DEF webRTCVars
<1>2. Frame
  BY <1>1, PeerTypes DEF IInv, Frame, Out
<1>3. Passes
  BY <1>1, <1>2, FramePeersPass, SameOwners, SameOffers DEF Passes, IInv
<1>4. PeerInv'
  BY <1>1 DEF IInv, PeerInv, PeerFact
<1>5. ForgottenInv'
  BY <1>1, <1>3, ForgottenStays DEF Passes, Out
<1>6. MessageInv'
  BY <1>3, MessageStep
<1>7. ASSUME NEW u \in Transports PROVE TransportFact(u)' /\ PairedFact(u)'
  <2>1. Keeps(u)
    BY <1>1 DEF Keeps, KeepsPeer
  <2>2. Gets(u)
    BY DEF Gets
  <2>3. Hides(u)
    <3>1. \A v \in Transports : Unheard(u) /\ self[u] # None => opponent'[v] # self[u]
      BY DEF Unheard
    <3>2. ASSUME NEW v \in Transports, NEW n \in In(inbox'[v]),
                 n.type \in {"CONNECT", "ACCEPT", "SDP_OFFER"}
          PROVE  n \in In(inbox[v])
      BY <3>2
    <3> QED  BY <3>1, <3>2 DEF Hides
  <2>4. TransportFact(u)'
    BY <1>3, <2>1, <2>2, <2>3, BystanderStep
  <2>5. Joined(u)' => Joined(u)
    BY <1>1 DEF Joined
  <2> QED  BY <1>1, <1>3, <2>2, <2>4, <2>5, PairedStays
<1> QED  BY <1>4, <1>5, <1>6, <1>7 DEF IInv

LEMMA HungupStep ==
  ASSUME IInv, ParticipantHungup
  PROVE  IInv'
<1>1. PICK p \in members : Hungup(p)
  BY DEF ParticipantHungup
<1>2. /\ UNCHANGED <<fetching, ws, self, owner, webRTCVars, working, peerVars, faultVars>>
      /\ inbox' = Posted(inbox, members, Notice("hungup", {p}))
      /\ \A t \in Transports : self[t] # p
  BY <1>1 DEF ParticipantHungup, Hungup
<1>3. SignalTypeOK' /\ InboxInv'
  BY <1>1, HungupTypes, Types
<1>4. TypeOK' /\ FaultsInv'
  BY <1>2, <1>3, Types DEF IInv, TypeOK, WebRTCTypeOK, webRTCVars, peerVars, faultVars, FaultsInv
<1>5. p \in 1..Len(owner) /\ p \in Participant /\ HasLeft(p)'
  BY <1>2, OwnerTypes DEF IInv, TypeOK, SignalTypeOK, HasLeft
<1>6. \A u : MessageFact(u, Notice("hungup", {p}))'
  <2>1. 0 \in 0..Len(peers')
    BY <1>2, PeerTypes DEF IInv, webRTCVars
  <2> QED  BY <1>2, <1>5, <2>1 DEF MessageFact, Notice
<1>7. Notice("hungup", {p}) \in Notification /\ Notice("hungup", {p}).type = "hungup"
  BY <1>5, NoticeTypes DEF Notice
<1>8. ASSUME NEW u \in Transports
      PROVE  /\ RingsFirst(inbox'[u]) /\ (Rings(inbox'[u]) <=> Rings(inbox[u]))
             /\ Sorted(inbox'[u])
             /\ \A n \in In(inbox'[u]) : n \in In(inbox[u]) \/ n = Notice("hungup", {p})
  <2>1. RingsFirst(inbox[u]) /\ Sorted(inbox[u]) /\ inbox \in Queues
    BY FactsOf DEF MemberFact, OrderFact
  <2>2. PICK n \in Notification : n = Notice("hungup", {p}) /\ n.type = "hungup"
    BY <1>7
  <2>3. \A m : Earlier(m, n)
    BY <2>2 DEF Earlier
  <2>4. /\ In(Posted(inbox, members, n)[u]) \subseteq In(inbox[u]) \cup {n}
        /\ RingsFirst(Posted(inbox, members, n)[u])
        /\ Rings(Posted(inbox, members, n)[u]) <=> Rings(inbox[u])
        /\ Sorted(Posted(inbox, members, n)[u])
    BY <2>1, <2>2, <2>3, PostedQueues
  <2> QED  BY <1>2, <2>2, <2>4
<1> QED  BY <1>2, <1>3, <1>4, <1>6, <1>7, <1>8, QueueStep DEF peerVars

LEMMA HeadFacts ==
  ASSUME IInv, NEW t \in Transports, inbox[t] # << >>
  PROVE  /\ Head(inbox[t]) \in In(inbox[t]) /\ Head(inbox[t]) \in Notification
         /\ MessageFact(t, Head(inbox[t])) /\ self[t] # None
         /\ Received(t) \in Queues
         /\ \A u \in Transports : Received(t)[u] # << >> => inbox[u] # << >>
         /\ Head(inbox[t]).type # "connection" =>
              /\ ~Rings(inbox[t]) /\ working[t] = "working"
              /\ peer[t] \in DOMAIN peers /\ ~peers[peer[t]].closed
<1>1. inbox[t] \in Seq(Notification) /\ inbox \in Queues
  BY FactsOf
<1>2. Head(inbox[t]) \in In(inbox[t]) /\ Head(inbox[t]) \in Notification
  BY <1>1, InSeq
<1>3. MessageFact(t, Head(inbox[t])) /\ self[t] # None
  BY <1>2 DEF IInv, MessageInv, InboxInv
<1>4. /\ Received(t) \in Queues
      /\ \A u \in Transports : Received(t)[u] # << >> => inbox[u] # << >>
  BY <1>1, ReceivedType
<1>5. ASSUME Head(inbox[t]).type # "connection"
      PROVE  /\ ~Rings(inbox[t]) /\ working[t] = "working"
             /\ peer[t] \in DOMAIN peers /\ ~peers[peer[t]].closed
  <2>1. ~Rings(inbox[t])
    BY <1>5 DEF Rings
  <2>2. peer[t] # NoPeer /\ working[t] = "working" /\ ~peers[peer[t]].closed
    BY <1>3, <2>1, FactsOf DEF MemberFact
  <2> QED  BY <2>1, <2>2, PeerTypes DEF IInv
<1> QED  BY <1>2, <1>3, <1>4, <1>5

LEMMA ReceiveStep ==
  ASSUME IInv, NEW t \in Transports, inbox[t] # << >>, Head(inbox[t]).type # "connection",
         inbox' = Received(t), participants' \in [Transports -> SUBSET Participant],
         UNCHANGED <<fetching, ws, self, members, owner, webRTCVars, working,
                     state, opponent, role, lost, stopped>>,
         crashed' \in {crashed, [crashed EXCEPT ![t] = TRUE]}
  PROVE  IInv'
<1>1. SignalTypeOK' /\ InboxInv'
  BY HeadFacts, QueueTypes, Types
<1>2. TypeOK' /\ FaultsInv'
  <2>1. WebRTCTypeOK(Transports)' /\ WorkTypeOK'
    BY Types DEF WebRTCTypeOK, WorkTypeOK, webRTCVars
  <2> QED  BY <1>1, <2>1, TypesNext
<1>3. ASSUME NEW u \in Transports
      PROVE  /\ RingsFirst(inbox'[u]) /\ (Rings(inbox'[u]) <=> Rings(inbox[u]))
             /\ Sorted(inbox'[u]) /\ In(inbox'[u]) \subseteq In(inbox[u])
  <2>1. RingsFirst(inbox[u]) /\ Sorted(inbox[u]) /\ inbox \in Queues
    BY FactsOf DEF MemberFact, OrderFact
  <2> QED  BY <2>1, ReceivedQueues, HeadFacts
<1> QED  BY <1>1, <1>2, <1>3, QueueStep

LEMMA IgnoringSteps ==
  ASSUME IInv, NEW t \in Transports, NEW p \in Participant,
         UNCHANGED <<fetching, ws, self, members, owner, working, lost, stopped>>,
         \/ OnRegisteredPeer(t, p)
         \/ IsNext(t, "hungup", p) /\ OnHungup(t, p)
              /\ ~(state[t] = "CONNECTED" /\ opponent[t] = p)
         \/ \E type \in MessageType : IsNext(t, type, p) /\ Ignores(t)
  PROVE  IInv'
<1>0. participants \in [Transports -> SUBSET Participant]
  BY Types DEF WorkTypeOK
<1>1. CASE OnRegisteredPeer(t, p)
  BY <1>0, <1>1, ReceiveStep DEF OnRegisteredPeer, IsNext
<1>2. CASE OnHungup(t, p) /\ ~(state[t] = "CONNECTED" /\ opponent[t] = p)
  BY <1>0, <1>2, ReceiveStep DEF OnHungup, IsNext
<1>3. CASE \E type \in MessageType : IsNext(t, type, p) /\ Ignores(t)
  <2>1. /\ inbox[t] # << >> /\ Head(inbox[t]).type # "connection"
        /\ inbox' = Received(t)
        /\ UNCHANGED <<webRTCVars, state, opponent, participants, role, crashed>>
    BY <1>3 DEF IsNext, Ignores, MessageType, peerVars
  <2> QED  BY <1>0, <2>1, ReceiveStep
<1> QED  BY <1>1, <1>2, <1>3

-----------------------------------------------------------------------------
(* Steps in which a transport leaves the call, and its peers are closed.   *)

LEMMA LeaveStep ==
  ASSUME IInv, NEW t \in Transports, TypeOK', FaultsInv', InboxInv',
         self' = [self EXCEPT ![t] = None], inbox' = [inbox EXCEPT ![t] = << >>],
         UNCHANGED <<fetching, owner, peer, sdpOffer, state, opponent, role>>,
         \A u \in Transports \ {t} :
           ws'[u] = ws[u] /\ working'[u] = working[u] /\ socket'[u] = socket[u],
         socket'[t] => socket[t] /\ peers' = peers,
         ws'[t] \in {"none", "closing"}, ws[t] = "none" => ws'[t] = "none",
         working'[t] = "idle" => working[t] = "idle",
         DOMAIN peers' = DOMAIN peers,
         \A i \in DOMAIN peers :
           peers'[i] = peers[i]
             \/ (peers[i].of = t /\ peers'[i] = [peers[i] EXCEPT !.closed = TRUE]),
         peer[t] # NoPeer => peers'[peer[t]].closed
  PROVE  IInv'
<1>1. ASSUME NEW i \in DOMAIN peers
      PROVE  /\ peers'[i].of = peers[i].of /\ peers'[i].offers = peers[i].offers
             /\ peers'[i].sig = peers[i].sig /\ peers'[i].remote = peers[i].remote
             /\ peers'[i].awaited = peers[i].awaited /\ peers'[i].link = peers[i].link
             /\ peers'[i].channel = peers[i].channel
             /\ peers[i].closed => peers'[i].closed
             /\ peers[i].of # t => peers'[i] = peers[i]
             /\ Out(i)' <=> Out(i)
  <2>1. peers[i] \in Peer(Transports)
    BY PeerTypes DEF IInv
  <2>2. /\ peers'[i].of = peers[i].of /\ peers'[i].offers = peers[i].offers
        /\ peers'[i].sig = peers[i].sig /\ peers'[i].remote = peers[i].remote
        /\ peers'[i].awaited = peers[i].awaited /\ peers'[i].link = peers[i].link
        /\ peers'[i].channel = peers[i].channel
        /\ peers[i].closed => peers'[i].closed
    BY <2>1 DEF Peer
  <2> QED  BY <2>2 DEF Out
<1>2. /\ inbox'[t] = << >> /\ self'[t] = None
      /\ \A u \in Transports \ {t} : inbox'[u] = inbox[u] /\ self'[u] = self[u]
  BY Types DEF SignalTypeOK
<1>3. \A u \in Transports : In(inbox'[u]) \subseteq In(inbox[u])
  BY <1>2 DEF In
<1>4. Frame
  <2>1. NoPeer \notin DOMAIN peers'
    BY PeersNext
  <2> QED  BY <1>1, <1>3, <2>1 DEF Frame
<1>5. \A i \in DOMAIN peers : peers[i].of = t => Gone(i)'
  <2> SUFFICES ASSUME NEW i \in DOMAIN peers, peers[i].of = t PROVE Gone(i)'
    OBVIOUS
  <2>1. CASE Out(i)
    BY <1>4, <2>1, FrameGone DEF IInv, ForgottenInv
  <2>2. CASE ~Out(i)
    BY <2>2, PeerTypes DEF IInv, Out, Gone
  <2> QED  BY <2>1, <2>2
<1>6. OwnersPass
  <2>1. \A p \in 1..Len(owner) : HasLeft(p) => HasLeft(p)'
    BY <1>2, OwnerTypes DEF HasLeft, IInv
  <2>2. \A p \in 1..Len(owner) : ~HasLeft(p) /\ HasLeft(p)' => owner[p] = t
    BY <1>2, OwnerTypes DEF HasLeft, IInv
  <2> QED  BY <1>5, <2>1, <2>2, OwnerTypes DEF OwnersPass, IInv
<1>7. Passes
  <2>1. OffersPass
    <3>1. \A u \in Transports : sdpOffer[u] <= sdpOffer[u]
      BY PeerTypes DEF IInv
    <3> QED  BY <3>1 DEF OffersPass
  <2> QED  BY <1>4, <1>6, <2>1, FramePeersPass DEF Passes, IInv
<1>8. PeerInv'
  <2>1. ASSUME NEW i \in DOMAIN peers
        PROVE  peers'[i].awaited = "offer" /\ ~peers'[i].closed => sdpOffer'[peers[i].of] < i
    BY <1>1 DEF IInv, PeerInv, PeerFact
  <2> QED  BY <1>1, <1>4, <2>1, FramePeerInv
<1>9. ForgottenInv'
  BY <1>1, <1>7, ForgottenStays DEF Passes
<1>10. MessageInv'
  <2>1. In(inbox'[t]) = {}
    BY <1>2 DEF In
  <2> QED  BY <1>2, <1>7, <2>1, MessageStep
<1>11. ASSUME NEW u \in Transports \ {t} PROVE TransportFact(u)' /\ PairedFact(u)'
  <2>1. peer[u] # NoPeer => peer[u] \in DOMAIN peers /\ peers[peer[u]].of # t
    BY PeerTypes DEF IInv
  <2>2. Keeps(u)
    BY <1>1, <1>2, <2>1 DEF Keeps, KeepsPeer
  <2>3. Gets(u)
    BY <1>2, FactsOf DEF Gets, MemberFact, OrderFact
  <2>4. Hides(u)
    BY <1>3 DEF Hides, Unheard
  <2>5. Joined(u)' => Joined(u)
    <3>1. ASSUME peer[u] # NoPeer, peers[peer[u]].remote # NoPeer
          PROVE  peers'[peers[peer[u]].remote].remote = peers[peers[peer[u]].remote].remote
      <4>1. peers[peer[u]].remote \in DOMAIN peers
        BY <2>1, <3>1, PeerTypes DEF IInv
      <4> QED  BY <1>1, <4>1
    <3> QED  BY <1>1, <2>1, <3>1 DEF Joined
  <2> QED  BY <1>1, <1>7, <2>1, <2>2, <2>3, <2>4, <2>5, BystanderStep, PairedStays
             DEF Keeps
<1>12. TransportFact(t)' /\ PairedFact(t)'
  <2>0. In(inbox'[t]) = {} /\ ~Rings(inbox'[t]) /\ RingsFirst(inbox'[t]) /\ Sorted(inbox'[t])
    BY <1>2 DEF In, Rings, RingsFirst, Sorted
  <2>1. FetchFact(t)'
    <3>1. Fresh(t)' => Fresh(t)
      BY <1>1 DEF Fresh
    <3> QED  BY <3>1, FactsOf DEF FetchFact
  <2>2. MemberFact(t)'
    BY <1>2, <2>0 DEF MemberFact
  <2>3. OfferFact(t)'
    <3>1. sdpOffer[t] # NoPeer => sdpOffer[t] \in DOMAIN peers
      BY PeerTypes DEF IInv
    <3>2. peer[t] # NoPeer => peer[t] \in DOMAIN peers
      BY PeerTypes DEF IInv
    <3> QED  BY <1>1, <3>1, <3>2, FactsOf DEF OfferFact
  <2>4. OrderFact(t)'
    BY <1>2, <2>0 DEF OrderFact
  <2>5. UnheardFact(t)'
    BY <1>2 DEF UnheardFact, Unheard
  <2>6. LinkFact(t)'
    <3>1. peer[t] # NoPeer => peers'[peer[t]].remote = peers[peer[t]].remote
      BY <1>1, PeerTypes DEF IInv
    <3> QED  BY <1>7, <3>1, LinkStays DEF Passes
  <2>7. SocketFact(t)'
    BY FactsOf DEF SocketFact, CanSend, Escaped
  <2>8. PairedFact(t)'
    BY DEF PairedFact, Joined
  <2> QED  BY <2>1, <2>2, <2>3, <2>4, <2>5, <2>6, <2>7, <2>8, FactsOf DEF TransportFact
<1> QED  BY <1>8, <1>9, <1>10, <1>11, <1>12 DEF IInv

LEMMA DestroyedPeers ==
  ASSUME IInv, NEW t \in Transports,
         \/ peers' = WithoutPeer(t)
         \/ peers' = [i \in DOMAIN peers |->
              IF peers[i].of = t THEN [peers[i] EXCEPT !.closed = TRUE] ELSE peers[i]]
         \/ peers' = peers /\ (peer[t] # NoPeer => peers[peer[t]].closed)
  PROVE  /\ peers' \in Seq(Peer(Transports)) /\ Len(peers') = Len(peers)
         /\ DOMAIN peers' = DOMAIN peers
         /\ \A i \in DOMAIN peers :
              peers'[i] = peers[i]
                \/ (peers[i].of = t /\ peers'[i] = [peers[i] EXCEPT !.closed = TRUE])
         /\ peer[t] # NoPeer => peers'[peer[t]].closed
<1>0. /\ peers \in Seq(Peer(Transports)) /\ DOMAIN peers = 1..Len(peers) /\ Len(peers) \in Nat
      /\ \A i \in DOMAIN peers : peers[i] \in Peer(Transports)
      /\ peer[t] # NoPeer => peer[t] \in DOMAIN peers /\ peers[peer[t]].of = t
  BY PeerTypes DEF IInv, TypeOK, WebRTCTypeOK
<1>1. \A x \in Peer(Transports) : [x EXCEPT !.closed = TRUE] \in Peer(Transports)
                                  /\ [x EXCEPT !.closed = TRUE].closed
  BY DEF Peer
<1>2. CASE peers' = WithoutPeer(t) /\ peer[t] # NoPeer
  <2>1. peers' = [peers EXCEPT ![peer[t]] = [@ EXCEPT !.closed = TRUE]]
    BY <1>2 DEF WithoutPeer
  <2>2. PICK k \in 1..Len(peers) : k = peer[t] /\ peers[k].of = t
    BY <1>0, <1>2
  <2>3. PICK x \in Peer(Transports) : x = [peers[k] EXCEPT !.closed = TRUE] /\ x.closed
    BY <1>0, <1>1, <2>2
  <2>4. peers' = [peers EXCEPT ![k] = x]
    BY <2>1, <2>2, <2>3
  <2>5. peers' \in Seq(Peer(Transports)) /\ Len(peers') = Len(peers)
    BY <1>0, <2>4
  <2>6. \A i \in 1..Len(peers) : peers'[i] = IF i = k THEN x ELSE peers[i]
    BY <1>0, <2>4
  <2>7. DOMAIN peers' = DOMAIN peers
    BY <1>0, <2>4
  <2>8. \A i \in DOMAIN peers :
          peers'[i] = peers[i]
            \/ (peers[i].of = t /\ peers'[i] = [peers[i] EXCEPT !.closed = TRUE])
    BY <1>0, <2>2, <2>3, <2>6
  <2>9. peers'[peer[t]].closed
    BY <2>2, <2>3, <2>6
  <2> QED  BY <2>5, <2>7, <2>8, <2>9
<1>3. CASE peers' = WithoutPeer(t) /\ peer[t] = NoPeer
  BY <1>0, <1>3 DEF WithoutPeer
<1>4. CASE peers' = [i \in DOMAIN peers |->
              IF peers[i].of = t THEN [peers[i] EXCEPT !.closed = TRUE] ELSE peers[i]]
  <2>1. /\ DOMAIN peers' = 1..Len(peers)
        /\ \A i \in 1..Len(peers) : peers'[i] =
             IF peers[i].of = t THEN [peers[i] EXCEPT !.closed = TRUE] ELSE peers[i]
    BY <1>0, <1>4
  <2>2. \A i \in 1..Len(peers) : peers'[i] \in Peer(Transports)
    BY <1>0, <1>1, <2>1
  <2>3. peers' \in [1..Len(peers) -> Peer(Transports)]
    BY <1>0, <1>1, <1>4
  <2>4. peers' \in Seq(Peer(Transports)) /\ Len(peers') = Len(peers)
    BY <1>0, <2>3, SeqDef, LenProperties
  <2> QED  BY <1>0, <1>1, <2>1, <2>4
<1>5. CASE peers' = peers /\ (peer[t] # NoPeer => peers[peer[t]].closed)
  BY <1>0, <1>5
<1> QED  BY <1>2, <1>3, <1>4, <1>5

LEMMA DestroyedTypes ==
  ASSUME IInv, NEW t \in Transports,
         peers' \in Seq(Peer(Transports)), Len(peers') = Len(peers),
         \A i \in DOMAIN peers :
           peers'[i].remote = peers[i].remote /\ peers'[i].of = peers[i].of,
         socket' \in {socket, [socket EXCEPT ![t] = FALSE]},
         UNCHANGED <<peer, sdpOffer, turnServerConnectionSuccess>>
  PROVE  WebRTCTypeOK(Transports)'
<1>1. DOMAIN peers' = DOMAIN peers
  BY PeerTypes DEF IInv
<1>2. \A u \in Transports : peer[u] # NoPeer => peer[u] \in DOMAIN peers
  BY PeerTypes DEF IInv
<1> QED  BY <1>1, <1>2, Types DEF WebRTCTypeOK

LEMMA LeavesInv ==
  ASSUME IInv, NEW t \in Transports, NEW next \in {"none", "closing"},
         SignalLeaves(t, next), ws[t] = "none" => next = "none", fetching' = fetching,
         \/ peers' = WithoutPeer(t)
         \/ peers' = [i \in DOMAIN peers |->
              IF peers[i].of = t THEN [peers[i] EXCEPT !.closed = TRUE] ELSE peers[i]]
         \/ peers' = peers /\ (peer[t] # NoPeer => peers[peer[t]].closed),
         socket' = [socket EXCEPT ![t] = FALSE] \/ (socket' = socket /\ peers' = peers),
         working' \in {working, [working EXCEPT ![t] = "stopping"]},
         crashed' \in {crashed, [crashed EXCEPT ![t] = TRUE]},
         \/ UNCHANGED <<lost, stopped>>
         \/ t \notin lost /\ FaultsLeft /\ lost' = lost \cup {t} /\ stopped' = stopped
         \/ t \notin stopped /\ FaultsLeft /\ stopped' = stopped \cup {t} /\ lost' = lost,
         UNCHANGED <<peer, sdpOffer, turnServerConnectionSuccess, peerVars>>
  PROVE  IInv'
<1>1. /\ peers' \in Seq(Peer(Transports)) /\ Len(peers') = Len(peers)
      /\ DOMAIN peers' = DOMAIN peers
      /\ \A i \in DOMAIN peers :
           peers'[i] = peers[i]
             \/ (peers[i].of = t /\ peers'[i] = [peers[i] EXCEPT !.closed = TRUE])
      /\ peer[t] # NoPeer => peers'[peer[t]].closed
  BY DestroyedPeers
<1>2. /\ ws' = [ws EXCEPT ![t] = next] /\ self' = [self EXCEPT ![t] = None]
      /\ inbox' = [inbox EXCEPT ![t] = << >>]
      /\ UNCHANGED <<members, owner>>
  BY DEF SignalLeaves
<1>3. /\ SignalTypeOK' /\ InboxInv'
  BY Types, LeavesTypes
<1>4. WebRTCTypeOK(Transports)'
  <2>1. \A i \in DOMAIN peers : peers[i] \in Peer(Transports)
    BY PeerTypes DEF IInv
  <2>2. \A i \in DOMAIN peers :
          peers'[i].remote = peers[i].remote /\ peers'[i].of = peers[i].of
    BY <1>1, <2>1 DEF Peer
  <2> QED  BY <1>1, <2>2, DestroyedTypes
<1>5. WorkTypeOK'
  BY Types DEF WorkTypeOK, peerVars
<1>6. TypeOK' /\ FaultsInv'
  BY <1>3, <1>4, <1>5, TypesNext
<1>7. \A u \in Transports \ {t} :
        ws'[u] = ws[u] /\ working'[u] = working[u] /\ socket'[u] = socket[u]
  BY <1>2, Types DEF SignalTypeOK, WebRTCTypeOK, WorkTypeOK
<1>8. /\ socket'[t] => socket[t] /\ peers' = peers
      /\ ws'[t] \in {"none", "closing"} /\ (ws[t] = "none" => ws'[t] = "none")
      /\ working'[t] = "idle" => working[t] = "idle"
  BY <1>2, Types DEF SignalTypeOK, WebRTCTypeOK, WorkTypeOK
<1> QED  BY <1>1, <1>2, <1>3, <1>6, <1>7, <1>8, LeaveStep DEF peerVars

LEMMA LeavingSteps ==
  ASSUME IInv, NEW t \in Transports,
         \/ stop(t) \/ handleVkWebSocketSignalServerOnError(t)
         \/ handleVkWebSocketSignalServerOnStopped(t) \/ CrashedProcessEnds(t)
  PROVE  IInv'
<1>0. working[t] # "working" => (peer[t] # NoPeer => peers[peer[t]].closed)
  BY FactsOf DEF MemberFact
<1>1. CASE stop(t)
  <2>1. PICK next \in {"none", "closing"} : SignalLeaves(t, next) /\ (ws[t] = "none" => next = "none")
    BY <1>1 DEF stop
  <2> QED  BY <1>1, <2>1, LeavesInv
             DEF stop, stopWebRTC, destroyTransportSocket, Becomes, Crashes
<1>2. CASE handleVkWebSocketSignalServerOnError(t)
  <2>1. CASE working[t] = "working"
    <3>1. SignalLeaves(t, "closing") /\ ws[t] # "none"
      BY <1>2, <2>1 DEF handleVkWebSocketSignalServerOnError
    <3>2. /\ working' = [working EXCEPT ![t] = "stopping"] /\ stopWebRTC(t)
          /\ CanFail(t) /\ lost' = lost \cup {t}
          /\ UNCHANGED <<crashed, fetching, peerVars, stopped>>
      BY <1>2, <2>1 DEF handleVkWebSocketSignalServerOnError, Becomes
    <3> QED  BY <3>1, <3>2, LeavesInv DEF stopWebRTC, destroyTransportSocket, CanFail
  <2>2. CASE working[t] # "working"
    BY <1>2, <2>2, CrashStep DEF handleVkWebSocketSignalServerOnError
  <2> QED  BY <2>1, <2>2
<1>3. CASE handleVkWebSocketSignalServerOnStopped(t)
  <2>1. /\ SignalLeaves(t, "none")
        /\ \/ UNCHANGED <<lost, stopped>>
           \/ t \notin lost /\ FaultsLeft /\ lost' = lost \cup {t} /\ stopped' = stopped
        /\ UNCHANGED <<fetching, peerVars, crashed>>
    BY <1>3 DEF handleVkWebSocketSignalServerOnStopped, CanFail
  <2>2. \/ working[t] = "working" /\ Becomes(t, "stopping") /\ stopWebRTC(t)
        \/ working[t] # "working" /\ UNCHANGED <<working, webRTCVars>>
    BY <1>3 DEF handleVkWebSocketSignalServerOnStopped
  <2> QED  BY <1>0, <2>1, <2>2, LeavesInv
             DEF stopWebRTC, destroyTransportSocket, Becomes, webRTCVars
<1>4. CASE CrashedProcessEnds(t)
  BY <1>4, LeavesInv DEF CrashedProcessEnds, destroyTransportSocket, faultVars
<1> QED  BY <1>1, <1>2, <1>3, <1>4

-----------------------------------------------------------------------------
(* A websocket opens: nobody knows the new participant yet.                *)

LEMMA OpenStep ==
  ASSUME IInv, NEW t \in Transports, handleVkWebSocketSignalServerOnStarted(t)
  PROVE  IInv'
<1> DEFINE p == Len(owner) + 1
           r == Notice("registered-peer", {p})
           c == Notice("connection", members \cup {p})
<1>1. /\ ws[t] = "opening" /\ p <= MaxJoins
      /\ ws' = [ws EXCEPT ![t] = "open"] /\ self' = [self EXCEPT ![t] = p]
      /\ owner' = Append(owner, t) /\ members' = members \cup {p}
      /\ inbox' = [Posted(inbox, members, r) EXCEPT ![t] = <<c>>]
      /\ UNCHANGED <<fetching, webRTCVars, working, peerVars, faultVars>>
  BY DEF handleVkWebSocketSignalServerOnStarted, WebSocketOpens
<1>2. /\ owner \in Seq(Transports) /\ Len(owner) \in Nat /\ Len(owner') = p
      /\ \A q \in 1..Len(owner) : owner'[q] = owner[q]
      /\ owner'[p] = t /\ members \subseteq 1..Len(owner)
  BY <1>1, Types DEF SignalTypeOK
<1>3. /\ p \in 1..p /\ p \notin 0..Len(owner) /\ 1..Len(owner) \subseteq 1..p /\ p \in Nat
      /\ p \in Participant /\ Len(owner) <= p
  BY <1>1, <1>2, SignalAssumption DEF Participant
<1>4. r \in Notification /\ c \in Notification
  <2>1. 1..Len(owner) \subseteq Participant
    BY OwnerTypes DEF IInv
  <2>2. {p} \subseteq Participant /\ members \cup {p} \subseteq Participant
    BY <1>2, <1>3, <2>1
  <2> QED  BY <2>2, NoticeTypes
<1>5. /\ r.type = "registered-peer" /\ r.about = {p} /\ r.data = <<0, 0>>
      /\ c.type = "connection" /\ c.about = members \cup {p} /\ c.data = <<0, 0>>
  BY DEF Notice
<1> HIDE DEF p, r, c
<1>6. self[t] = None /\ inbox[t] = << >> /\ peer[t] = NoPeer
  BY <1>1, Types, FactsOf DEF SignalTypeOK, InboxInv, FetchFact
<1>7. SignalTypeOK' /\ InboxInv'
  BY Types, OpensTypes DEF handleVkWebSocketSignalServerOnStarted
<1>8. TypeOK' /\ FaultsInv'
  BY <1>1, <1>7, Types DEF IInv, TypeOK, WebRTCTypeOK, webRTCVars, peerVars, faultVars, FaultsInv
<1>9. ASSUME NEW u \in Transports \ {t}
      PROVE  /\ RingsFirst(inbox'[u]) /\ (Rings(inbox'[u]) <=> Rings(inbox[u]))
             /\ Sorted(inbox'[u]) /\ In(inbox'[u]) \subseteq In(inbox[u]) \cup {r}
             /\ self'[u] = self[u]
  <2>1. RingsFirst(inbox[u]) /\ Sorted(inbox[u]) /\ inbox \in Queues
    BY FactsOf DEF MemberFact, OrderFact
  <2>2. \A m : Earlier(m, r)
    BY <1>5 DEF Earlier
  <2>3. /\ In(Posted(inbox, members, r)[u]) \subseteq In(inbox[u]) \cup {r}
        /\ RingsFirst(Posted(inbox, members, r)[u])
        /\ Rings(Posted(inbox, members, r)[u]) <=> Rings(inbox[u])
        /\ Sorted(Posted(inbox, members, r)[u])
    BY <1>4, <1>5, <2>1, <2>2, PostedQueues
  <2>4. Posted(inbox, members, r) \in Queues
    BY <1>4, <2>1, PostedType
  <2>5. inbox'[u] = Posted(inbox, members, r)[u]
    BY <1>1, <2>4 DEF Queues
  <2> QED  BY <1>1, <2>3, <2>5, Types DEF SignalTypeOK
<1>10. /\ inbox'[t] = <<c>> /\ In(inbox'[t]) = {c} /\ Rings(inbox'[t])
       /\ RingsFirst(inbox'[t]) /\ Sorted(inbox'[t]) /\ self'[t] = p
  <2>1. inbox \in Queues
    BY FactsOf
  <2>2. Posted(inbox, members, r) \in Queues
    BY <1>4, <2>1, PostedType
  <2>3. inbox'[t] = <<c>>
    BY <1>1, <2>2 DEF Queues
  <2>4. self'[t] = p
    BY <1>1, Types DEF SignalTypeOK
  <2>5. DOMAIN <<c>> = 1..1 /\ <<c>>[1] = c /\ <<c>> # << >> /\ Head(<<c>>) = c
    OBVIOUS
  <2>6. 1..1 = {1}
    OBVIOUS
  <2>7. In(inbox'[t]) = {c}
    BY <2>3, <2>5, <2>6 DEF In
  <2>8. Rings(inbox'[t]) /\ RingsFirst(inbox'[t])
    BY <1>5, <2>3, <2>5, <2>6 DEF Rings, RingsFirst
  <2>9. Sorted(inbox'[t])
    BY <2>3, <2>5, <2>6 DEF Sorted
  <2> QED  BY <2>3, <2>4, <2>7, <2>8, <2>9
<1>11. \A u \in Transports : In(inbox'[u]) \subseteq In(inbox[u]) \cup {r, c}
  BY <1>9, <1>10
<1>12. /\ peers' = peers /\ peer' = peer /\ sdpOffer' = sdpOffer /\ socket' = socket
       /\ state' = state /\ opponent' = opponent /\ role' = role
  BY <1>1 DEF webRTCVars, peerVars
<1>13. Frame
  <2>1. \A u \in Transports : \A n \in In(inbox'[u]) : n.type = "SDP_ANSWER" => n \in In(inbox[u])
    BY <1>5, <1>11
  <2> QED  BY <1>12, <2>1, PeerTypes DEF IInv, Frame, Out
<1>14. Passes
  <2>1. ASSUME NEW q \in 1..Len(owner)
        PROVE  HasLeft(q)' <=> HasLeft(q)
    <3>1. q # p /\ q # None
      BY <1>2, <1>3
    <3>2. owner'[q] = owner[q] /\ owner[q] \in Transports
      BY <1>2, OwnerTypes DEF IInv
    <3> QED  BY <1>6, <1>9, <1>10, <3>1, <3>2 DEF HasLeft
  <2>2. OwnersPass
    BY <1>2, <1>3, <2>1 DEF OwnersPass
  <2> QED  BY <1>8, <1>12, <1>13, <2>2, FramePeersPass, SameOffers DEF Passes, IInv
<1>15. PeerInv'
  BY <1>12 DEF IInv, PeerInv, PeerFact
<1>16. ForgottenInv'
  BY <1>8, <1>12, <1>14, ForgottenStays DEF Passes, Out
<1>17. MessageInv'
  <2>1. ASSUME NEW u, NEW n, n \in {r, c}
        PROVE  MessageFact(u, n)'
    <3>1. n.about \subseteq 1..Len(owner')
      BY <1>2, <1>3, <1>5, <2>1
    <3>2. 0 \in 0..Len(peers')
      BY <1>12, PeerTypes DEF IInv
    <3> QED  BY <1>5, <2>1, <3>1, <3>2 DEF MessageFact
  <2> QED  BY <1>8, <1>9, <1>10, <1>14, <2>1, MessageStep
<1>18. ASSUME NEW u \in Transports \ {t} PROVE TransportFact(u)' /\ PairedFact(u)'
  <2>1. Keeps(u)
    BY <1>1, <1>9, <1>12, Types DEF Keeps, KeepsPeer, SignalTypeOK
  <2>2. Gets(u)
    BY <1>5, <1>9 DEF Gets
  <2>3. Hides(u)
    <3>1. \A v \in Transports : Unheard(u) /\ self[u] # None => opponent'[v] # self[u]
      BY <1>12 DEF Unheard
    <3>2. ASSUME NEW v \in Transports, NEW n \in In(inbox'[v]),
                 n.type \in {"CONNECT", "ACCEPT", "SDP_OFFER"}
          PROVE  n \in In(inbox[v])
      BY <1>5, <1>11, <3>2
    <3> QED  BY <3>1, <3>2 DEF Hides
  <2>4. TransportFact(u)'
    BY <1>8, <1>14, <2>1, <2>2, <2>3, BystanderStep
  <2>5. Joined(u)' => Joined(u)
    BY <1>12 DEF Joined
  <2> QED  BY <1>8, <1>12, <1>14, <2>2, <2>4, <2>5, PairedStays
<1>19. TransportFact(t)' /\ PairedFact(t)'
  <2>1. FetchFact(t)'
    <3>1. Fresh(t)' => Fresh(t)
      BY <1>1, <1>12 DEF Fresh
    <3>2. ws'[t] = "open"
      BY <1>1, Types DEF SignalTypeOK
    <3> QED  BY <1>1, <3>1, <3>2, FactsOf DEF FetchFact
  <2>2. MemberFact(t)'
    BY <1>6, <1>10, <1>12 DEF MemberFact
  <2>3. OfferFact(t)'
    BY <1>12, FactsOf DEF OfferFact
  <2>4. OrderFact(t)'
    BY <1>6, <1>10, <1>12 DEF OrderFact, Answering
  <2>5. UnheardFact(t)'
    <3>1. \A u \in Transports : opponent'[u] # self'[t]
      BY <1>3, <1>10, <1>12, FactsOf
    <3>2. ASSUME NEW u \in Transports, NEW n \in In(inbox'[u]),
                 n.type \in {"CONNECT", "ACCEPT", "SDP_OFFER"}
          PROVE  self'[t] \notin n.about
      <4>1. n \in In(inbox[u])
        BY <1>5, <1>11, <3>2
      <4>2. n.about \subseteq 1..Len(owner)
        BY <4>1 DEF IInv, MessageInv, MessageFact
      <4>3. p \notin 1..Len(owner)
        BY <1>2, <1>3
      <4> QED  BY <1>10, <4>2, <4>3
    <3>3. \A n \in In(inbox'[t]) : n.type \notin {"ACCEPT", "SDP_OFFER"}
      BY <1>5, <1>10
    <3> QED  BY <3>1, <3>2, <3>3 DEF UnheardFact, Unheard
  <2>6. LinkFact(t)' /\ PairedFact(t)'
    BY <1>6, <1>12 DEF LinkFact, PairedFact, Joined
  <2>7. SocketFact(t)'
    BY <1>12, FactsOf DEF SocketFact, CanSend, Escaped
  <2>8. opponent'[t] \in 0..Len(owner')
    BY <1>2, <1>3, <1>12, FactsOf
  <2> QED  BY <2>1, <2>2, <2>3, <2>4, <2>5, <2>6, <2>7, <2>8 DEF TransportFact
<1> QED  BY <1>7, <1>8, <1>15, <1>16, <1>17, <1>18, <1>19 DEF IInv

-----------------------------------------------------------------------------
(* Steps of the data channel and of the network.                           *)

LEMMA ChannelStep ==
  ASSUME IInv, TypeOK', FaultsInv',
         UNCHANGED <<signalVars, peer, sdpOffer, working, state, opponent, role>>,
         DOMAIN peers' = DOMAIN peers,
         \A i \in DOMAIN peers :
           /\ peers'[i].of = peers[i].of /\ peers'[i].offers = peers[i].offers
           /\ peers'[i].sig = peers[i].sig /\ peers'[i].remote = peers[i].remote
           /\ peers'[i].awaited = peers[i].awaited /\ peers'[i].closed = peers[i].closed
           /\ peers[i].link # "sound" => peers'[i].link # "sound"
           /\ peers'[i].link # "sound" =>
                peers[i].link # "sound"
                  \/ (Matched(i) /\ peers'[peers[i].remote].link # "sound"),
         \A u \in Transports : SocketFact(u)'
  PROVE  IInv'
<1>1. /\ self' = self /\ inbox' = inbox /\ owner' = owner /\ fetching' = fetching /\ ws' = ws
  BY DEF signalVars
<1>2. \A i \in DOMAIN peers : Out(i)' <=> Out(i)
  BY DEF Out
<1>3. Frame
  BY <1>1, <1>2, PeerTypes DEF IInv, Frame
<1>4. Passes
  BY <1>1, <1>3, FramePeersPass, SameOwners, SameOffers DEF Passes, IInv
<1>5. PeerInv'
  <2>1. ASSUME NEW i \in DOMAIN peers
        PROVE  peers'[i].awaited = "offer" /\ ~peers'[i].closed => sdpOffer'[peers[i].of] < i
    BY DEF IInv, PeerInv, PeerFact
  <2> QED  BY <1>3, <2>1, FramePeerInv
<1>6. ForgottenInv'
  BY <1>2, <1>4, ForgottenStays DEF Passes
<1>7. MessageInv'
  BY <1>1, <1>4, MessageStep
<1>8. ASSUME NEW u \in Transports PROVE TransportFact(u)' /\ PairedFact(u)'
  <2>0. /\ peer[u] # NoPeer => peer[u] \in DOMAIN peers
        /\ sdpOffer[u] # NoPeer => sdpOffer[u] \in DOMAIN peers
    BY PeerTypes DEF IInv
  <2>1. FetchFact(u)'
    <3>1. Fresh(u)' => Fresh(u)
      BY DEF Fresh
    <3> QED  BY <1>1, <3>1, FactsOf DEF FetchFact
  <2>2. MemberFact(u)'
    BY <1>1, <2>0, FactsOf DEF MemberFact
  <2>3. OfferFact(u)'
    BY <2>0, FactsOf DEF OfferFact
  <2>4. Gets(u)
    BY <1>1, FactsOf DEF Gets, MemberFact, OrderFact
  <2>5. OrderFact(u)'
    BY <1>1, <1>4, <2>0, <2>4, OrderStays
  <2>6. UnheardFact(u)'
    BY <1>1, <2>0, FactsOf DEF UnheardFact, Unheard, Stale
  <2>7. LinkFact(u)'
    BY <1>4, <2>0, LinkStays DEF Passes
  <2>8. PairedFact(u)'
    <3>1. Joined(u)' => Joined(u)
      <4>1. ASSUME peer[u] # NoPeer, peers[peer[u]].remote # NoPeer
            PROVE  peers'[peers[peer[u]].remote].remote = peers[peers[peer[u]].remote].remote
        BY <2>0, <4>1, PeerTypes DEF IInv
      <4> QED  BY <2>0, <4>1 DEF Joined
    <3> QED  BY <1>4, <2>0, <2>4, <3>1, PairedStays
  <2>9. opponent'[u] \in 0..Len(owner')
    BY <1>1, FactsOf
  <2> QED  BY <2>1, <2>2, <2>3, <2>5, <2>6, <2>7, <2>8, <2>9 DEF TransportFact
<1>9. InboxInv'
  BY <1>1 DEF IInv, InboxInv
<1> QED  BY <1>5, <1>6, <1>7, <1>8, <1>9 DEF IInv

LEMMA SeqUpdate ==
  ASSUME NEW S, NEW q \in Seq(S), NEW k \in 1..Len(q), NEW z \in S
  PROVE  /\ [q EXCEPT ![k] = z] \in Seq(S) /\ Len([q EXCEPT ![k] = z]) = Len(q)
         /\ [q EXCEPT ![k] = z][k] = z
         /\ \A i \in DOMAIN q : i # k => [q EXCEPT ![k] = z][i] = q[i]
  OBVIOUS

(* One field of one peer changes, or it gets an SDP.                       *)
LEMMA PeerUpdate ==
  ASSUME IInv, NEW i \in DOMAIN peers, NEW x \in Peer(Transports),
         peers' = [peers EXCEPT ![i] = x]
  PROVE  /\ peers' \in Seq(Peer(Transports)) /\ Len(peers') = Len(peers)
         /\ DOMAIN peers' = DOMAIN peers
         /\ peers'[i] = x /\ \A k \in DOMAIN peers : k # i => peers'[k] = peers[k]
  BY DEF IInv, TypeOK, WebRTCTypeOK

LEMMA SameTypes ==
  ASSUME IInv, UNCHANGED <<signalVars, state, opponent, participants, role, working>>,
         WebRTCTypeOK(Transports)',
         \A t \in Transports : turnServerConnectionSuccess'[t] = turnServerConnectionSuccess[t],
         crashed' \in [Transports -> BOOLEAN]
  PROVE  SignalTypeOK' /\ InboxInv' /\ WorkTypeOK'
<1>1. SignalTypeOK' /\ InboxInv'
  BY Types DEF SignalTypeOK, InboxInv, signalVars
<1> QED  BY <1>1, Types DEF WorkTypeOK

LEMMA ChannelSteps ==
  ASSUME IInv, NEW t \in Transports, ChannelOpens(t) \/ ChannelCloses(t)
  PROVE  IInv'
<1>1. PICK i \in DOMAIN peers :
        /\ peers[i].of = t
        /\ handlePeerOnDataChannelOpened(i) \/ handlePeerOnDataChannelClosed(i)
  BY DEF ChannelOpens, ChannelCloses
<1>2. UNCHANGED <<signalVars, working, peerVars, faultVars,
                  peer, sdpOffer, turnServerConnectionSuccess>>
  BY <1>1 DEF ChannelOpens, ChannelCloses, handlePeerOnDataChannelOpened,
              handlePeerOnDataChannelClosed
<1>3. PICK ch \in {"open", "closed"}, b \in BOOLEAN :
        /\ peers' = [peers EXCEPT ![i].channel = ch]
        /\ socket' = [socket EXCEPT ![t] = b]
        /\ b => ch = "open" /\ Matched(i)
        /\ ch = "closed" => ~b
  BY <1>1 DEF handlePeerOnDataChannelOpened, handlePeerOnDataChannelClosed,
              createTransportSocket, destroyTransportSocket
<1>4. PICK x \in Peer(Transports) : x = [peers[i] EXCEPT !.channel = ch]
  <2>1. peers[i] \in Peer(Transports)
    BY PeerTypes DEF IInv
  <2>2. \A y \in Peer(Transports) : [y EXCEPT !.channel = ch] \in Peer(Transports)
    BY DEF Peer
  <2> QED  BY <2>1, <2>2
<1>5. /\ x.of = peers[i].of /\ x.offers = peers[i].offers
      /\ x.sig = peers[i].sig /\ x.remote = peers[i].remote
      /\ x.awaited = peers[i].awaited /\ x.closed = peers[i].closed
      /\ x.link = peers[i].link /\ x.channel = ch
  BY <1>4, PeerTypes DEF IInv, Peer
<1>6. /\ peers' \in Seq(Peer(Transports)) /\ Len(peers') = Len(peers)
      /\ DOMAIN peers' = DOMAIN peers
      /\ peers'[i] = x /\ \A k \in DOMAIN peers : k # i => peers'[k] = peers[k]
  <2>1. peers' = [peers EXCEPT ![i] = x]
    BY <1>3, <1>4
  <2> QED  BY <2>1, PeerUpdate
<1>7. \A k \in DOMAIN peers :
        /\ peers'[k].of = peers[k].of /\ peers'[k].offers = peers[k].offers
        /\ peers'[k].sig = peers[k].sig /\ peers'[k].remote = peers[k].remote
        /\ peers'[k].awaited = peers[k].awaited /\ peers'[k].closed = peers[k].closed
        /\ peers'[k].link = peers[k].link
  BY <1>5, <1>6
<1>8. TypeOK' /\ FaultsInv'
  <2>1. WebRTCTypeOK(Transports)'
    <3>1. \A u \in Transports : peer[u] # NoPeer => peer[u] \in DOMAIN peers
      BY PeerTypes DEF IInv
    <3>2. socket' \in [Transports -> BOOLEAN]
      BY <1>3, Types DEF WebRTCTypeOK
    <3> QED  BY <1>2, <1>6, <1>7, <3>1, <3>2, Types DEF WebRTCTypeOK
  <2>2. SignalTypeOK' /\ WorkTypeOK'
    BY <1>2, <2>1, SameTypes, Types DEF peerVars, faultVars, WorkTypeOK
  <2> QED  BY <1>2, <2>1, <2>2, TypesNext DEF faultVars
<1>9. ASSUME NEW u \in Transports PROVE SocketFact(u)'
  <2>1. CASE u # t
    <3>1. socket'[u] = socket[u]
      BY <1>3, <2>1, Types DEF WebRTCTypeOK
    <3>2. peer[u] # NoPeer => peer[u] \in DOMAIN peers /\ peer[u] # i
      BY <1>1, <2>1, PeerTypes DEF IInv
    <3>3. CanSend(u) => CanSend(u)'
      BY <1>2, <1>6, <3>2 DEF CanSend
    <3>4. \A k \in DOMAIN peers :
            /\ peers'[k].of = peers[k].of
            /\ peers[k].of = u => peers'[k] = peers[k]
      BY <1>1, <1>6, <1>7, <2>1
    <3>5. Escaped(u) => Escaped(u)'
      BY <1>6, <3>4, EscapedStays
    <3> QED  BY <1>2, <3>1, <3>3, <3>5, FactsOf DEF SocketFact, peerVars
  <2>2. CASE u = t /\ ~b
    BY <1>3, <2>2, Types DEF SocketFact, WebRTCTypeOK
  <2>3. CASE u = t /\ b /\ peers[i].link # "sound"
    <3>1. Escaped(t)'
      BY <1>1, <1>3, <1>5, <1>6, <2>3 DEF Escaped
    <3> QED  BY <2>3, <3>1 DEF SocketFact
  <2>4. CASE u = t /\ b /\ peers[i].link = "sound"
    <3>1. Matched(i) /\ ~peers[i].closed
      BY <1>3, <2>4 DEF Matched
    <3>2. /\ peers[i].remote \in DOMAIN peers /\ Matched(peers[i].remote) /\ ~Out(i)
          /\ ~Gone(peers[i].remote)
      BY <2>4, <3>1, MatchedMeans
    <3>3. peer[t] = i /\ i # NoPeer /\ peers[i].remote # NoPeer
      BY <1>1, <3>2, PeerTypes DEF IInv, Out
    <3>4. state[t] = "CONNECTED"
      BY <3>2, <3>3, FactsOf DEF LinkFact
    <3>5. CanSend(t)'
      BY <1>2, <1>3, <1>5, <1>6, <2>4, <3>1, <3>3 DEF CanSend
    <3> QED  BY <1>2, <2>4, <3>4, <3>5 DEF SocketFact, peerVars
  <2> QED  BY <2>1, <2>2, <2>3, <2>4
<1> QED  BY <1>2, <1>6, <1>7, <1>8, <1>9, ChannelStep DEF peerVars

(* The link of some peers is marked.                                       *)
LEMMA LinkStep ==
  ASSUME IInv, NEW t \in Transports, NEW ends \in SUBSET DOMAIN peers,
         NEW value \in {"broken", "recovered"},
         peers' \in Seq(Peer(Transports)), Len(peers') = Len(peers),
         \A k \in DOMAIN peers : peers'[k] =
           IF k \in ends THEN [peers[k] EXCEPT !.link = value] ELSE peers[k],
         \A k \in ends : Matched(k) /\ (peers[k].link = "sound" => peers[k].remote \in ends),
         \/ lost' = lost
         \/ CanFail(t) /\ lost' = lost \cup {t},
         UNCHANGED <<signalVars, working, peerVars, crashed, stopped,
                     peer, sdpOffer, turnServerConnectionSuccess, socket>>
  PROVE  IInv'
<1>1. \A y \in Peer(Transports) :
        LET x == [y EXCEPT !.link = value]
        IN  /\ x \in Peer(Transports)
            /\ x.of = y.of /\ x.offers = y.offers /\ x.sig = y.sig /\ x.remote = y.remote
            /\ x.awaited = y.awaited /\ x.closed = y.closed /\ x.channel = y.channel
            /\ x.link = value
  BY DEF Peer
<1>2. /\ DOMAIN peers = 1..Len(peers) /\ Len(peers) \in Nat
      /\ \A k \in DOMAIN peers : peers[k] \in Peer(Transports)
  BY PeerTypes DEF IInv
<1>3. ASSUME NEW k \in DOMAIN peers
      PROVE  /\ peers'[k] \in Peer(Transports)
             /\ peers'[k].of = peers[k].of /\ peers'[k].offers = peers[k].offers
             /\ peers'[k].sig = peers[k].sig /\ peers'[k].remote = peers[k].remote
             /\ peers'[k].awaited = peers[k].awaited /\ peers'[k].closed = peers[k].closed
             /\ peers'[k].channel = peers[k].channel
             /\ peers'[k].link = IF k \in ends THEN value ELSE peers[k].link
  <2>1. PICK y \in Peer(Transports) : y = peers[k]
    BY <1>2
  <2>2. CASE k \in ends
    <3>1. peers'[k] = [y EXCEPT !.link = value]
      BY <2>1, <2>2
    <3> QED  BY <1>1, <2>1, <2>2, <3>1
  <2>3. CASE k \notin ends
    BY <1>2, <2>3
  <2> QED  BY <2>2, <2>3
<1>4. ASSUME NEW k \in DOMAIN peers
      PROVE  /\ peers[k].link # "sound" => peers'[k].link # "sound"
             /\ peers'[k].link # "sound" =>
                  peers[k].link # "sound"
                    \/ (Matched(k) /\ peers'[peers[k].remote].link # "sound")
  <2>1. value # "sound"
    OBVIOUS
  <2> QED  BY <1>3, <2>1
<1>5. DOMAIN peers' = DOMAIN peers
  BY <1>2
<1>6. TypeOK' /\ FaultsInv'
  <2>1. WebRTCTypeOK(Transports)'
    BY <1>3, DestroyedTypes
  <2>2. SignalTypeOK' /\ WorkTypeOK'
    BY <2>1, SameTypes, Types DEF peerVars, WorkTypeOK
  <2> QED  BY <2>1, <2>2, TypesNext DEF CanFail
<1>7. ASSUME NEW u \in Transports PROVE SocketFact(u)'
  <2>1. peer[u] # NoPeer => peer[u] \in DOMAIN peers
    BY PeerTypes DEF IInv
  <2>2. CanSend(u) => CanSend(u)'
    BY <1>3, <2>1 DEF CanSend
  <2>3. Escaped(u) => Escaped(u)'
    BY <1>3, <1>4, <1>5, EscapedStays
  <2> QED  BY <2>2, <2>3, FactsOf DEF SocketFact, peerVars
<1> QED  BY <1>3, <1>4, <1>5, <1>6, <1>7, ChannelStep DEF peerVars

LEMMA NetworkSteps ==
  ASSUME IInv, NEW t \in Transports, ConnectionFails(t) \/ ConnectionRecovers(t)
  PROVE  IInv'
<1>0. /\ peers \in Seq(Peer(Transports)) /\ DOMAIN peers = 1..Len(peers)
      /\ \A k \in DOMAIN peers : peers[k] \in Peer(Transports)
  BY PeerTypes DEF IInv, TypeOK, WebRTCTypeOK
<1>1. CASE ConnectionFails(t)
  <2>1. PICK i \in DOMAIN peers : peers[i].of = t /\ NetworkFails(i)
    BY <1>1 DEF ConnectionFails
  <2>2. /\ CanFail(t) /\ lost' = lost \cup {t}
        /\ UNCHANGED <<signalVars, working, peerVars, crashed, stopped,
                       peer, sdpOffer, turnServerConnectionSuccess, socket>>
    BY <1>1, <2>1 DEF ConnectionFails, NetworkFails
  <2>3. PICK j \in DOMAIN peers :
          j = peers[i].remote /\ peers[j].remote = i /\ Matched(i) /\ Matched(j)
    BY <2>1, MatchedMeans DEF NetworkFails
  <2>4. /\ peers' \in Seq(Peer(Transports)) /\ Len(peers') = Len(peers)
        /\ \A k \in DOMAIN peers : peers'[k] =
             IF k \in {i, j} THEN [peers[k] EXCEPT !.link = "broken"] ELSE peers[k]
    <3> DEFINE Marked(y) == [y EXCEPT !.link = "broken"]
    <3>1. \A y \in Peer(Transports) : Marked(y) \in Peer(Transports) /\ Marked(Marked(y)) = Marked(y)
      BY DEF Peer
    <3> HIDE DEF Marked
    <3>2. PICK w \in Seq(Peer(Transports)) :
            /\ w = [peers EXCEPT ![i] = Marked(peers[i])] /\ Len(w) = Len(peers)
            /\ w[i] = Marked(peers[i]) /\ \A k \in DOMAIN peers : k # i => w[k] = peers[k]
      <4>1. i \in 1..Len(peers) /\ Marked(peers[i]) \in Peer(Transports)
        BY <1>0, <3>1
      <4>2. /\ [peers EXCEPT ![i] = Marked(peers[i])] \in Seq(Peer(Transports))
            /\ Len([peers EXCEPT ![i] = Marked(peers[i])]) = Len(peers)
            /\ [peers EXCEPT ![i] = Marked(peers[i])][i] = Marked(peers[i])
            /\ \A k \in DOMAIN peers :
                 k # i => [peers EXCEPT ![i] = Marked(peers[i])][k] = peers[k]
        BY <1>0, <4>1, SeqUpdate
      <4> QED  BY <4>2
    <3>3. j \in 1..Len(w) /\ w[j] \in Peer(Transports) /\ DOMAIN w = DOMAIN peers
      BY <1>0, <3>2
    <3>4. /\ [w EXCEPT ![j] = Marked(w[j])] \in Seq(Peer(Transports))
          /\ Len([w EXCEPT ![j] = Marked(w[j])]) = Len(peers)
          /\ [w EXCEPT ![j] = Marked(w[j])][j] = Marked(w[j])
          /\ \A k \in DOMAIN peers : k # j => [w EXCEPT ![j] = Marked(w[j])][k] = w[k]
      BY <3>1, <3>2, <3>3, SeqUpdate
    <3>5. peers' = [w EXCEPT ![j] = Marked(w[j])]
      <4>1. peers' = [peers EXCEPT ![i].link = "broken", ![j].link = "broken"]
        BY <2>1, <2>3 DEF NetworkFails
      <4> QED  BY <3>2, <4>1 DEF Marked
    <3>6. \A k \in DOMAIN peers :
            peers'[k] = IF k \in {i, j} THEN Marked(peers[k]) ELSE peers[k]
      BY <1>0, <3>1, <3>2, <3>4, <3>5
    <3> QED  BY <3>4, <3>5, <3>6 DEF Marked
  <2> QED  BY <2>2, <2>3, <2>4, LinkStep
<1>2. CASE ConnectionRecovers(t)
  <2>1. PICK i \in DOMAIN peers : peers[i].of = t /\ NetworkRecovers(i)
    BY <1>2 DEF ConnectionRecovers
  <2>2. /\ UNCHANGED <<signalVars, working, peerVars, crashed, stopped, lost,
                       peer, sdpOffer, turnServerConnectionSuccess, socket>>
    BY <1>2, <2>1 DEF ConnectionRecovers, NetworkRecovers, faultVars
  <2>3. /\ peers' \in Seq(Peer(Transports)) /\ Len(peers') = Len(peers)
        /\ \A k \in DOMAIN peers : peers'[k] =
             IF k \in {i} THEN [peers[k] EXCEPT !.link = "recovered"] ELSE peers[k]
    <3>1. peers' = [peers EXCEPT ![i] = [peers[i] EXCEPT !.link = "recovered"]]
      BY <2>1 DEF NetworkRecovers
    <3>2. [peers[i] EXCEPT !.link = "recovered"] \in Peer(Transports)
      BY <1>0 DEF Peer
    <3> QED  BY <1>0, <3>1, <3>2, PeerUpdate
  <2> QED  BY <2>1, <2>2, <2>3, LinkStep DEF NetworkRecovers
<1> QED  BY <1>1, <1>2

-----------------------------------------------------------------------------
(* A peer is forgotten, and its transport leaves the call if it has not.   *)

LEMMA DisconnectStep ==
  ASSUME IInv, NEW t \in Transports, handlePeerOnDisconnected(t)
  PROVE  IInv'
<1>0. PICK i \in DOMAIN peers : i = peer[t]
  BY PeerTypes DEF handlePeerOnDisconnected, IInv
<1>1. /\ peers[i].of = t
      /\ peers[i].closed \/ Apart(i)
  BY <1>0, PeerTypes, UnreachableApart DEF handlePeerOnDisconnected, IInv
<1>2. /\ peer' = [peer EXCEPT ![t] = NoPeer] /\ socket' = [socket EXCEPT ![t] = FALSE]
      /\ UNCHANGED <<peers, sdpOffer, turnServerConnectionSuccess, peerVars, lost, stopped>>
      /\ working' \in {working, [working EXCEPT ![t] = "idle"]}
  BY DEF handlePeerOnDisconnected, forgetPeer, destroyTransportSocket, Becomes
<1>3. /\ self' = [self EXCEPT ![t] = None] /\ inbox' = [inbox EXCEPT ![t] = << >>]
      /\ owner' = owner /\ members' = members
      /\ ws' \in {ws, [ws EXCEPT ![t] = "none"]}
      /\ fetching' \in {fetching, [fetching EXCEPT ![t] = TRUE]}
      /\ crashed' \in {crashed, [crashed EXCEPT ![t] = TRUE]}
      /\ fetching'[t] => ws'[t] = "none"
      /\ SignalTypeOK' /\ InboxInv'
  <2>0. SignalTypeOK /\ InboxInv
    BY Types
  <2>1. CASE /\ SignalLeaves(t, "none") /\ fetching' = [fetching EXCEPT ![t] = TRUE]
             /\ UNCHANGED crashed
    <3>1. SignalTypeOK' /\ InboxInv'
      <4>1. << >> \in Seq(Notification)
        BY EmptySeq
      <4> QED  BY <2>0, <2>1, <4>1 DEF SignalLeaves, SignalTypeOK, InboxInv
    <3> QED  BY <2>0, <2>1, <3>1 DEF SignalLeaves, SignalTypeOK
  <2>2. CASE self[t] = None /\ UNCHANGED signalVars /\ (UNCHANGED crashed \/ Crashes(t))
    <3>1. inbox[t] = << >>
      BY <2>0, <2>2 DEF InboxInv
    <3>2. self' = [self EXCEPT ![t] = None] /\ inbox' = [inbox EXCEPT ![t] = << >>]
      BY <2>0, <2>2, <3>1 DEF SignalTypeOK, signalVars
    <3>3. SignalTypeOK' /\ InboxInv'
      BY <2>0, <2>2 DEF SignalTypeOK, InboxInv, signalVars
    <3>4. fetching[t] => ws[t] = "none"
      BY FactsOf DEF FetchFact
    <3> QED  BY <2>2, <3>2, <3>3, <3>4 DEF Crashes, signalVars
  <2>3. ASSUME ~turnServerConnectionSuccess[t] PROVE self[t] = None
    <3>1. sdpOffer[t] = NoPeer
      BY <2>3, Types DEF WebRTCTypeOK
    <3>2. peers[i].offers /\ peers[i].awaited # "none"
      BY <1>0, <3>1, PeerTypes, FactsOf DEF OfferFact, IInv
    <3>3. PeerFact(i)
      BY <1>1 DEF IInv, PeerInv
    <3>4. peers[i].closed
      BY <1>1, <3>2, <3>3 DEF PeerFact, Apart
    <3> QED  BY <1>0, <3>4, FactsOf, PeerTypes DEF MemberFact, IInv
  <2>4. ws[t] = "none" => self[t] = None
    BY <2>0 DEF SignalTypeOK
  <2> QED  BY <2>1, <2>2, <2>3, <2>4 DEF handlePeerOnDisconnected
<1>4. /\ peer'[t] = NoPeer /\ ~socket'[t] /\ self'[t] = None /\ inbox'[t] = << >>
      /\ \A u \in Transports \ {t} :
           /\ peer'[u] = peer[u] /\ socket'[u] = socket[u] /\ self'[u] = self[u]
           /\ inbox'[u] = inbox[u] /\ ws'[u] = ws[u] /\ fetching'[u] = fetching[u]
           /\ working'[u] = working[u]
  BY <1>2, <1>3, Types DEF SignalTypeOK, WebRTCTypeOK, WorkTypeOK
<1>5. /\ state' = state /\ opponent' = opponent /\ role' = role
  BY <1>2 DEF peerVars
<1>6. TypeOK' /\ FaultsInv'
  <2>1. WebRTCTypeOK(Transports)'
    BY <1>2, PeerTypes, Types DEF WebRTCTypeOK, IInv
  <2>2. WorkTypeOK'
    BY <1>2, <1>3, Types DEF WorkTypeOK, peerVars
  <2> QED  BY <1>2, <1>3, <2>1, <2>2, TypesNext
<1>7. \A u \in Transports : In(inbox'[u]) \subseteq In(inbox[u])
  BY <1>4 DEF In
<1>8. \A k \in DOMAIN peers : (Out(k) => Out(k)') /\ (Out(k)' => Out(k) \/ k = i)
  <2> SUFFICES ASSUME NEW k \in DOMAIN peers
               PROVE  (Out(k) => Out(k)') /\ (Out(k)' => Out(k) \/ k = i)
    OBVIOUS
  <2>1. k # NoPeer /\ peers[k].of \in Transports
    BY PeerTypes DEF IInv
  <2>2. CASE peers[k].of = t
    BY <1>2, <1>4, <1>0, <2>1, <2>2 DEF Out
  <2>3. CASE peers[k].of # t
    BY <1>2, <1>4, <2>1, <2>3 DEF Out
  <2> QED  BY <2>2, <2>3
<1>9. Frame
  <2>1. NoPeer \notin DOMAIN peers'
    BY <1>6, PeersNext
  <2>2. \A k \in DOMAIN peers : peers[k].awaited \in {peers[k].awaited, "none"}
    OBVIOUS
  <2> QED  BY <1>2, <1>7, <1>8, <2>1, <2>2 DEF Frame
<1>10. PeersPass
  BY <1>6, <1>9, FramePeersPass DEF IInv
<1>11. ForgottenInv'
  <2>1. Gone(i)'
    <3>1. (peers[i].closed => peers'[i].closed) /\ Out(i)'
      BY <1>1, <1>2, <1>4, PeerTypes DEF Out, IInv
    <3>2. Apart(i) => Apart(i)'
      <4>1. \A u \in Transports : \A k, j : Due(inbox'[u], k, j) => Due(inbox[u], k, j)
        BY <1>7 DEF Due
      <4>2. \A j \in DOMAIN peers : peers[j].of \in Transports
        BY PeerTypes DEF IInv
      <4> QED  BY <1>2, <4>1, <4>2 DEF Apart
    <3> QED  BY <1>1, <3>1, <3>2 DEF Gone
  <2>2. \A k \in DOMAIN peers : Out(k)' => Out(k) \/ Gone(k)'
    <3> SUFFICES ASSUME NEW k \in DOMAIN peers, Out(k)', ~Out(k) PROVE Gone(k)'
      OBVIOUS
    <3>1. k = i
      BY <1>8
    <3> QED  BY <2>1, <3>1
  <2> QED  BY <1>2, <1>6, <1>10, <2>2, ForgottenStays
<1>12. \A k \in DOMAIN peers : peers[k].of = t => Gone(k)'
  <2>1. \A k \in DOMAIN peers : peers[k].of = t => Out(k)'
    BY <1>2, <1>4, PeerTypes DEF Out, IInv
  <2> QED  BY <1>2, <1>11, <2>1 DEF ForgottenInv
<1>13. OwnersPass
  <2>1. \A p \in 1..Len(owner) : HasLeft(p) => HasLeft(p)'
    BY <1>3, <1>4, OwnerTypes DEF HasLeft, IInv
  <2>2. \A p \in 1..Len(owner) : ~HasLeft(p) /\ HasLeft(p)' => owner[p] = t
    BY <1>3, <1>4, OwnerTypes DEF HasLeft, IInv
  <2> QED  BY <1>3, <1>12, <2>1, <2>2, OwnerTypes DEF OwnersPass, IInv
<1>14. Passes
  <2>1. OffersPass
    BY <1>2, <1>5, SameOffers DEF IInv
  <2> QED  BY <1>10, <1>13, <2>1 DEF Passes
<1>15. PeerInv'
  BY <1>2 DEF IInv, PeerInv, PeerFact
<1>16. MessageInv'
  <2>1. In(inbox'[t]) = {}
    BY <1>4 DEF In
  <2> QED  BY <1>4, <1>6, <1>14, <2>1, MessageStep
<1>17. ASSUME NEW u \in Transports \ {t} PROVE TransportFact(u)' /\ PairedFact(u)'
  <2>1. Keeps(u)
    BY <1>2, <1>4, <1>5 DEF Keeps, KeepsPeer
  <2>2. Gets(u)
    BY <1>4, FactsOf DEF Gets, MemberFact, OrderFact
  <2>3. Hides(u)
    BY <1>5, <1>7 DEF Hides, Unheard
  <2>4. Joined(u)' => Joined(u)
    BY <1>2, <1>4 DEF Joined
  <2>5. \A p \in 1..Len(owner) : ~HasLeft(p)' => peer'[owner[p]] = peer[owner[p]]
    BY <1>3, <1>4, OwnerTypes DEF HasLeft, IInv
  <2> QED  BY <1>2, <1>4, <1>5, <1>6, <1>14, <2>1, <2>2, <2>3, <2>4, <2>5,
              BystanderStep, PairedStays
<1>18. TransportFact(t)' /\ PairedFact(t)'
  <2>0. In(inbox'[t]) = {} /\ ~Rings(inbox'[t]) /\ RingsFirst(inbox'[t]) /\ Sorted(inbox'[t])
    BY <1>4 DEF In, Rings, RingsFirst, Sorted
  <2>1. FetchFact(t)'
    <3>1. ~Fresh(t)'
      BY <1>1, <1>2 DEF Fresh
    <3> QED  BY <1>3, <1>4, <3>1 DEF FetchFact
  <2>2. MemberFact(t)' /\ OrderFact(t)' /\ UnheardFact(t)'
    BY <1>4, <2>0 DEF MemberFact, OrderFact, Answering, UnheardFact, Unheard
  <2>3. OfferFact(t)'
    BY <1>2, <1>4, FactsOf DEF OfferFact
  <2>4. LinkFact(t)' /\ PairedFact(t)' /\ SocketFact(t)'
    BY <1>4 DEF LinkFact, PairedFact, Joined, SocketFact
  <2> QED  BY <1>3, <1>5, <2>1, <2>2, <2>3, <2>4, FactsOf DEF TransportFact
<1> QED  BY <1>3, <1>6, <1>11, <1>15, <1>16, <1>17, <1>18 DEF IInv

-----------------------------------------------------------------------------
(* The state becomes CONNECTING, and CONNECT is said to the others.        *)

LEMMA MessageOf ==
  ASSUME TypeOK, NEW t \in Transports, self[t] # None
  PROVE  \A type \in MessageType, i \in Nat, j \in Nat :
           \E n \in Notification :
             /\ n = CustomData(type, self[t], <<i, j>>)
             /\ n.type = type /\ n.about = {self[t]} /\ n.data[1] = i /\ n.data[2] = j
<1> TAKE type \in MessageType, i \in Nat, j \in Nat
<1>1. self[t] \in Participant /\ <<i, j>> \in Nat \X Nat
  BY OwnerTypes
<1>2. CustomData(type, self[t], <<i, j>>) \in Notification
  BY <1>1, NoticeTypes
<1> QED  BY <1>2 DEF CustomData

LEMMA ConnectMessage ==
  ASSUME TypeOK, NEW t \in Transports, self[t] # None
  PROVE  \E n \in Notification :
           /\ n = CustomData("CONNECT", self[t], <<0, 0>>)
           /\ n.type = "CONNECT" /\ n.about = {self[t]} /\ n.data[1] = 0 /\ n.data[2] = 0
<1>1. "CONNECT" \in MessageType /\ 0 \in Nat
  BY DEF MessageType
<1> QED  BY <1>1, MessageOf

LEMMA ConnectingStep ==
  ASSUME IInv, TypeOK', FaultsInv', InboxInv', NEW t \in Transports,
         self[t] # None, ~Rings(inbox[t]),
         state' = [state EXCEPT ![t] = "CONNECTING"],
         opponent' = [opponent EXCEPT ![t] = None],
         socket' = [socket EXCEPT ![t] = FALSE],
         UNCHANGED <<role, fetching, ws, self, owner, peer, working>>,
         Frame, OffersPass, PeerInv', OfferFact(t)',
         \A u \in Transports \ {t} : sdpOffer'[u] = sdpOffer[u],
         DOMAIN peers' = DOMAIN peers,
         \A k \in DOMAIN peers :
           /\ peers'[k].closed = peers[k].closed /\ peers'[k].channel = peers[k].channel
           /\ k # peer[t] => peers'[k] = peers[k],
         peer[t] # NoPeer /\ peers[peer[t]].remote # NoPeer
           => state[t] # "CONNECTED" \/ Gone(peers[peer[t]].remote),
         NEW others,
         \/ inbox' = Posted(inbox, others, CustomData("CONNECT", self[t], <<0, 0>>))
         \/ /\ inbox[t] # << >>
            /\ inbox' = Posted(Received(t), others, CustomData("CONNECT", self[t], <<0, 0>>))
  PROVE  IInv'
<1>1. PICK n \in Notification :
        /\ n = CustomData("CONNECT", self[t], <<0, 0>>)
        /\ n.type = "CONNECT" /\ n.about = {self[t]} /\ n.data[1] = 0 /\ n.data[2] = 0
  BY ConnectMessage DEF IInv
<1>2. \A m : Earlier(m, n)
  BY <1>1 DEF Earlier
<1>3. ASSUME NEW u \in Transports
      PROVE  /\ RingsFirst(inbox'[u]) /\ (Rings(inbox'[u]) <=> Rings(inbox[u]))
             /\ Sorted(inbox'[u]) /\ In(inbox'[u]) \subseteq In(inbox[u]) \cup {n}
  <2>1. RingsFirst(inbox[u]) /\ Sorted(inbox[u]) /\ inbox \in Queues
    BY FactsOf DEF MemberFact, OrderFact
  <2>2. PICK box \in Queues :
          /\ inbox' = Posted(box, others, n)
          /\ RingsFirst(box[u]) /\ (Rings(box[u]) <=> Rings(inbox[u])) /\ Sorted(box[u])
          /\ In(box[u]) \subseteq In(inbox[u])
    <3>1. CASE inbox' = Posted(inbox, others, n)
      BY <2>1, <3>1
    <3>2. CASE inbox[t] # << >> /\ inbox' = Posted(Received(t), others, n)
      <4>1. Received(t) \in Queues
        BY <3>2, HeadFacts
      <4>2. /\ RingsFirst(Received(t)[u]) /\ (Rings(Received(t)[u]) <=> Rings(inbox[u]))
            /\ Sorted(Received(t)[u]) /\ In(Received(t)[u]) \subseteq In(inbox[u])
        BY <2>1, <3>2, ReceivedQueues
      <4> QED  BY <3>2, <4>1, <4>2
    <3> QED  BY <1>1, <3>1, <3>2
  <2>3. /\ RingsFirst(Posted(box, others, n)[u]) /\ Sorted(Posted(box, others, n)[u])
        /\ Rings(Posted(box, others, n)[u]) <=> Rings(box[u])
        /\ In(Posted(box, others, n)[u]) \subseteq In(box[u]) \cup {n}
    BY <1>1, <1>2, <2>2, PostedQueues
  <2> QED  BY <2>2, <2>3
<1>4. Passes
  BY FramePeersPass, SameOwners DEF Passes, IInv
<1>5. \A k \in DOMAIN peers : peers'[k].of = peers[k].of /\ peers'[k].remote = peers[k].remote
  BY DEF Frame
<1>6. ForgottenInv'
  <2>1. \A k \in DOMAIN peers : Out(k)' <=> Out(k)
    BY <1>5 DEF Out
  <2> QED  BY <1>4, <2>1, ForgottenStays DEF Passes
<1>7. MessageInv'
  <2>1. \A u : MessageFact(u, n)'
    <3>1. self[t] \in 1..Len(owner') /\ 0 \in 0..Len(peers')
      BY OwnerTypes, PeersNext DEF IInv
    <3> QED  BY <1>1, <3>1 DEF MessageFact
  <2> QED  BY <1>3, <1>4, <2>1, MessageStep
<1>8. ASSUME NEW u \in Transports
      PROVE  /\ Gets(u)
             /\ peer[u] # NoPeer => peer[u] \in DOMAIN peers
             /\ Joined(u)' => Joined(u)
  <2>1. Gets(u)
    BY <1>1, <1>3 DEF Gets
  <2>2. peer[u] # NoPeer => peer[u] \in DOMAIN peers
    BY PeerTypes DEF IInv
  <2>3. Joined(u)' => Joined(u)
    <3>1. ASSUME peer[u] # NoPeer, peers[peer[u]].remote # NoPeer
          PROVE  peers'[peers[peer[u]].remote].remote = peers[peers[peer[u]].remote].remote
      BY <1>5, <2>2, <3>1, PeerTypes DEF IInv
    <3> QED  BY <1>5, <2>2, <3>1 DEF Joined
  <2> QED  BY <2>1, <2>2, <2>3
<1>9. ASSUME NEW u \in Transports \ {t} PROVE TransportFact(u)' /\ PairedFact(u)'
  <2>1. state'[u] = state[u] /\ opponent'[u] = opponent[u] /\ socket'[u] = socket[u]
    BY Types DEF WorkTypeOK, WebRTCTypeOK
  <2>2. peer[u] # NoPeer => peers'[peer[u]] = peers[peer[u]]
    <3>1. ASSUME peer[u] # NoPeer PROVE peer[u] # peer[t]
      BY <3>1, PeerTypes DEF IInv
    <3> QED  BY <1>8, <3>1
  <2>3. Keeps(u)
    <3>1. \A k \in DOMAIN peers : peers[k].of = u => peers'[k] = peers[k]
      BY PeerTypes DEF IInv
    <3> QED  BY <2>1, <2>2, <3>1 DEF Keeps, KeepsPeer
  <2>4. Hides(u)
    <3>1. \A v \in Transports : opponent'[v] \in {opponent[v], None}
      BY Types DEF WorkTypeOK
    <3>2. self[u] # None => self[u] # self[t]
      BY OwnerTypes DEF IInv
    <3>3. \A v \in Transports : Unheard(u) /\ self[u] # None => opponent'[v] # self[u]
      BY <3>1 DEF Unheard
    <3>4. \A v \in Transports : \A m \in In(inbox'[v]) :
            m \in In(inbox[v]) \/ (m.type = "CONNECT" /\ m.about = {self[t]})
      BY <1>1, <1>3
    <3> QED  BY <3>2, <3>3, <3>4 DEF Hides
  <2> QED  BY <1>4, <1>8, <2>1, <2>2, <2>3, <2>4, BystanderStep, PairedStays
<1>10. TransportFact(t)' /\ PairedFact(t)'
  <2>1. state'[t] = "CONNECTING" /\ opponent'[t] = None /\ ~socket'[t]
    BY Types DEF WorkTypeOK, WebRTCTypeOK
  <2>2. FetchFact(t)'
    <3>1. Fresh(t)' => Fresh(t)
      BY <1>5 DEF Fresh
    <3> QED  BY <3>1, FactsOf DEF FetchFact
  <2>3. MemberFact(t)'
    BY <1>3, <1>8, FactsOf DEF MemberFact
  <2>4. OrderFact(t)' /\ PairedFact(t)' /\ UnheardFact(t)' /\ SocketFact(t)'
    BY <1>3, <2>1 DEF OrderFact, Answering, HasRole, PairedFact, UnheardFact, Stale, SocketFact
  <2>5. LinkFact(t)'
    BY <1>4, <1>5, <1>8, LinkStays DEF Passes
  <2>6. opponent'[t] \in 0..Len(owner')
    BY <2>1, PeersNext
  <2> QED  BY <2>2, <2>3, <2>4, <2>5, <2>6 DEF TransportFact
<1> QED  BY <1>6, <1>7, <1>9, <1>10 DEF IInv

LEMMA HungupNotice ==
  ASSUME IInv, NEW t \in Transports, NEW p \in Participant,
         OnHungup(t, p), state[t] = "CONNECTED", opponent[t] = p,
         UNCHANGED <<fetching, ws, self, members, owner, working, lost, stopped>>
  PROVE  IInv'
<1> DEFINE others == participants[t] \ {p}
<1>1. /\ inbox[t] # << >> /\ Head(inbox[t]).type = "hungup" /\ p \in Head(inbox[t]).about
      /\ state' = [state EXCEPT ![t] = "CONNECTING"]
      /\ opponent' = [opponent EXCEPT ![t] = None]
      /\ participants' = [participants EXCEPT ![t] = others]
      /\ socket' = [socket EXCEPT ![t] = FALSE]
      /\ inbox' = Posted(Received(t), others, CustomData("CONNECT", self[t], <<0, 0>>))
      /\ UNCHANGED <<peers, peer, sdpOffer, turnServerConnectionSuccess, role, crashed>>
  BY DEF OnHungup, IsNext, setStateConnecting, destroyTransportSocket
<1>2. /\ p \in 1..Len(owner) /\ HasLeft(p) /\ self[t] # None /\ ~Rings(inbox[t])
      /\ Received(t) \in Queues
      /\ \A u \in Transports : Received(t)[u] # << >> => inbox[u] # << >>
  BY <1>1, HeadFacts DEF MessageFact
<1>3. /\ CustomData("CONNECT", self[t], <<0, 0>>) \in Notification
      /\ CustomData("CONNECT", self[t], <<0, 0>>).type = "CONNECT"
  <2>1. TypeOK /\ self[t] # None
    BY <1>2 DEF IInv
  <2>2. PICK n \in Notification :
          n = CustomData("CONNECT", self[t], <<0, 0>>) /\ n.type = "CONNECT"
    BY <2>1, ConnectMessage
  <2> QED  BY <2>2
<1>4. SignalTypeOK' /\ InboxInv'
  <2>1. /\ inbox' \in Queues
        /\ \A u \in Transports : inbox'[u] # << >> => inbox[u] # << >> \/ self[u] # None
    BY <1>1, <1>2, <1>3, PostedType
  <2> QED  BY <2>1, QueueTypes, Types
<1>5. TypeOK' /\ FaultsInv'
  <2>1. WebRTCTypeOK(Transports)'
    BY <1>1, Types DEF WebRTCTypeOK
  <2>2. others \in SUBSET Participant
    BY Types DEF WorkTypeOK
  <2>3. WorkTypeOK'
    <3>1. None \notin Participant
      BY SignalAssumption DEF Participant
    <3> HIDE DEF others
    <3> QED  BY <1>1, <2>2, <3>1, Types DEF WorkTypeOK
  <2> QED  BY <1>4, <2>1, <2>3, TypesNext
<1>6. Frame
  <2>1. \A u \in Transports : \A n \in In(inbox'[u]) : n.type = "SDP_ANSWER" => n \in In(inbox[u])
    <3> SUFFICES ASSUME NEW u \in Transports, NEW n \in In(inbox'[u]), n.type = "SDP_ANSWER"
                 PROVE  n \in In(inbox[u])
      OBVIOUS
    <3>1. RingsFirst(inbox[u]) /\ Sorted(inbox[u]) /\ inbox \in Queues
      BY FactsOf DEF MemberFact, OrderFact
    <3>2. In(Received(t)[u]) \subseteq In(inbox[u]) /\ RingsFirst(Received(t)[u])
      BY <1>1, <3>1, ReceivedQueues
    <3>3. n \in In(Received(t)[u]) \cup {CustomData("CONNECT", self[t], <<0, 0>>)}
      BY <1>1, <1>2, <1>3, <3>2, PostedQueues
    <3> QED  BY <1>3, <3>2, <3>3
  <2>2. \A k \in DOMAIN peers : (Out(k) => Out(k)') /\ peers[k].awaited \in {peers[k].awaited, "none"}
    BY <1>1 DEF Out
  <2>3. NoPeer \notin DOMAIN peers
    BY PeerTypes DEF IInv
  <2> QED  BY <1>1, <2>1, <2>2, <2>3 DEF Frame
<1>7. OffersPass
  <2>1. ASSUME NEW v \in Transports, NEW u \in Transports, self[v] # None,
               state[u] = "CONNECTED", opponent[u] = self[v]
        PROVE  state'[u] = "CONNECTED" /\ opponent'[u] = self[v]
    <3>1. u # t
      BY <1>2, <2>1, OwnerTypes DEF IInv, HasLeft
    <3> QED  BY <1>1, <2>1, <3>1, Types DEF WorkTypeOK
  <2>2. \A u \in Transports : sdpOffer[u] <= sdpOffer[u]
    BY PeerTypes DEF IInv
  <2> QED  BY <1>1, <2>1, <2>2 DEF OffersPass
<1>8. PeerInv' /\ OfferFact(t)'
  BY <1>1, FactsOf DEF IInv, PeerInv, PeerFact, OfferFact
<1>9. peer[t] # NoPeer /\ peers[peer[t]].remote # NoPeer => Gone(peers[peer[t]].remote)
  BY <1>2, FactsOf DEF LinkFact, Refers
<1> QED  BY <1>1, <1>2, <1>4, <1>5, <1>6, <1>7, <1>8, <1>9, ConnectingStep

LEMMA TurnStep ==
  ASSUME IInv, NEW t \in Transports, TurnIsThere(t)
  PROVE  IInv'
<1>1. PICK i \in DOMAIN peers : checkTurnServerConnection(t, i)
  BY DEF TurnIsThere
<1>2. /\ peers[i].of = t /\ peers[i].awaited = "offer" /\ ~peers[i].closed
      /\ peers' = [peers EXCEPT ![i].awaited = "none"]
      /\ sdpOffer' = [sdpOffer EXCEPT ![t] = i]
      /\ turnServerConnectionSuccess' = [turnServerConnectionSuccess EXCEPT ![t] = TRUE]
      /\ peer' = peer
  BY <1>1 DEF checkTurnServerConnection, Awaited, Destroyed
<1>3. /\ state' = [state EXCEPT ![t] = "CONNECTING"]
      /\ opponent' = [opponent EXCEPT ![t] = None]
      /\ participants' = [participants EXCEPT ![t] = participants[t]]
      /\ socket' = [socket EXCEPT ![t] = FALSE]
      /\ inbox' = Posted(inbox, participants[t], CustomData("CONNECT", self[t], <<0, 0>>))
      /\ UNCHANGED <<fetching, ws, self, members, owner, working, role, faultVars>>
  BY DEF TurnIsThere, setStateConnecting, destroyTransportSocket
<1>4. /\ peers[i].offers /\ peers[i].remote = NoPeer /\ sdpOffer[t] < i /\ i # NoPeer
      /\ peers[i].link = "sound"
  BY <1>2, PeerTypes DEF IInv, PeerInv, PeerFact
<1>5. peer[t] = i
  BY <1>2, <1>4 DEF IInv, ForgottenInv, Gone, Apart, Out
<1>6. /\ self[t] # None /\ ~Rings(inbox[t]) /\ inbox \in Queues
  BY <1>2, <1>4, <1>5, FactsOf DEF MemberFact
<1>7. PICK x \in Peer(Transports) :
        /\ x = [peers[i] EXCEPT !.awaited = "none"]
        /\ x.of = t /\ x.offers /\ x.sig = peers[i].sig /\ x.remote = NoPeer
        /\ x.awaited = "none" /\ ~x.closed /\ x.link = peers[i].link
        /\ x.channel = peers[i].channel
  <2>1. PICK y \in Peer(Transports) : y = peers[i]
    BY PeerTypes DEF IInv
  <2>2. /\ [y EXCEPT !.awaited = "none"] \in Peer(Transports)
        /\ [y EXCEPT !.awaited = "none"].of = y.of
        /\ [y EXCEPT !.awaited = "none"].offers = y.offers
        /\ [y EXCEPT !.awaited = "none"].sig = y.sig
        /\ [y EXCEPT !.awaited = "none"].remote = y.remote
        /\ [y EXCEPT !.awaited = "none"].awaited = "none"
        /\ [y EXCEPT !.awaited = "none"].closed = y.closed
        /\ [y EXCEPT !.awaited = "none"].link = y.link
        /\ [y EXCEPT !.awaited = "none"].channel = y.channel
    BY DEF Peer
  <2> QED  BY <1>2, <1>4, <2>1, <2>2
<1>8. /\ peers' \in Seq(Peer(Transports)) /\ Len(peers') = Len(peers)
      /\ DOMAIN peers' = DOMAIN peers
      /\ peers'[i] = x /\ \A k \in DOMAIN peers : k # i => peers'[k] = peers[k]
  <2>1. peers' = [peers EXCEPT ![i] = x]
    BY <1>2, <1>7
  <2> QED  BY <2>1, PeerUpdate
<1>9. \A k \in DOMAIN peers :
        /\ peers'[k].of = peers[k].of /\ peers'[k].offers = peers[k].offers
        /\ peers'[k].sig = peers[k].sig /\ peers'[k].remote = peers[k].remote
        /\ peers'[k].awaited \in {peers[k].awaited, "none"}
        /\ peers'[k].closed = peers[k].closed /\ peers'[k].link = peers[k].link
        /\ peers'[k].channel = peers[k].channel
  BY <1>2, <1>4, <1>7, <1>8
<1>10. /\ CustomData("CONNECT", self[t], <<0, 0>>) \in Notification
       /\ CustomData("CONNECT", self[t], <<0, 0>>).type = "CONNECT"
  <2>1. TypeOK /\ self[t] # None
    BY <1>6 DEF IInv
  <2>2. PICK n \in Notification :
          n = CustomData("CONNECT", self[t], <<0, 0>>) /\ n.type = "CONNECT"
    BY <2>1, ConnectMessage
  <2> QED  BY <2>2
<1>11. SignalTypeOK' /\ InboxInv'
  <2>1. /\ inbox' \in Queues
        /\ \A u \in Transports : inbox'[u] # << >> => inbox[u] # << >> \/ self[u] # None
    BY <1>3, <1>6, <1>10, PostedType
  <2> QED  BY <1>3, <2>1, QueueTypes, Types
<1>12. TypeOK' /\ FaultsInv'
  <2>1. WebRTCTypeOK(Transports)'
    <3>1. /\ \A u \in Transports : peer[u] # NoPeer => peer[u] \in DOMAIN peers
          /\ i \in 0..Len(peers)
      BY PeerTypes DEF IInv
    <3>2. /\ socket' \in [Transports -> BOOLEAN]
          /\ sdpOffer' \in [Transports -> 0..Len(peers')]
          /\ turnServerConnectionSuccess' \in [Transports -> BOOLEAN]
          /\ \A u \in Transports : turnServerConnectionSuccess'[u] <=> sdpOffer'[u] # NoPeer
      BY <1>2, <1>3, <1>4, <1>8, <3>1, Types DEF WebRTCTypeOK
    <3> QED  BY <1>2, <1>8, <1>9, <3>1, <3>2, Types DEF WebRTCTypeOK
  <2>2. WorkTypeOK'
    <3>1. None \notin Participant
      BY SignalAssumption DEF Participant
    <3>2. turnServerConnectionSuccess'[t]
          /\ \A u \in Transports : turnServerConnectionSuccess[u] => turnServerConnectionSuccess'[u]
      BY <1>2, Types DEF WebRTCTypeOK
    <3> QED  BY <1>3, <3>1, <3>2, Types DEF WorkTypeOK, faultVars
  <2> QED  BY <1>3, <1>11, <2>1, <2>2, TypesNext DEF faultVars
<1>13. Frame
  <2>1. \A u \in Transports : \A n \in In(inbox'[u]) : n.type = "SDP_ANSWER" => n \in In(inbox[u])
    <3> SUFFICES ASSUME NEW u \in Transports, NEW n \in In(inbox'[u]), n.type = "SDP_ANSWER"
                 PROVE  n \in In(inbox[u])
      OBVIOUS
    <3>1. RingsFirst(inbox[u])
      BY FactsOf DEF MemberFact
    <3>2. n \in In(inbox[u]) \cup {CustomData("CONNECT", self[t], <<0, 0>>)}
      BY <1>3, <1>6, <1>10, <3>1, PostedQueues
    <3> QED  BY <1>10, <3>2
  <2>2. NoPeer \notin DOMAIN peers'
    BY <1>12, PeersNext
  <2>3. \A k \in DOMAIN peers : Out(k) => Out(k)'
    BY <1>2, <1>9 DEF Out
  <2> QED  BY <1>8, <1>9, <2>1, <2>2, <2>3 DEF Frame
<1>14. OffersPass
  <2>1. \A u \in Transports : sdpOffer[u] <= sdpOffer'[u]
    <3>1. \A u \in Transports : sdpOffer[u] \in Nat
      BY PeerTypes DEF IInv
    <3>2. sdpOffer'[t] = i /\ \A u \in Transports \ {t} : sdpOffer'[u] = sdpOffer[u]
      BY <1>2, Types DEF WebRTCTypeOK
    <3>3. i \in Nat
      BY PeerTypes DEF IInv
    <3> QED  BY <1>4, <3>1, <3>2, <3>3
  <2>2. ASSUME NEW v \in Transports, NEW u \in Transports, self'[v] = self[v],
               sdpOffer'[u] = sdpOffer[u], state[u] = "CONNECTED", opponent[u] = self[v]
        PROVE  state'[u] = "CONNECTED" /\ opponent'[u] = self[v]
    <3>1. u # t
      <4>1. sdpOffer'[t] = i /\ sdpOffer[t] \in Nat /\ i \in Nat
        BY <1>2, PeerTypes, Types DEF WebRTCTypeOK, IInv
      <4> QED  BY <1>4, <2>2, <4>1
    <3> QED  BY <1>3, <2>2, <3>1, Types DEF WorkTypeOK
  <2> QED  BY <2>1, <2>2 DEF OffersPass
<1>15. \A u \in Transports \ {t} : sdpOffer'[u] = sdpOffer[u]
  BY <1>2, Types DEF WebRTCTypeOK
<1>16. PeerInv'
  <2>1. ASSUME NEW k \in DOMAIN peers, peers'[k].awaited = "offer", ~peers'[k].closed
        PROVE  sdpOffer'[peers[k].of] < k
    <3>1. k # i
      BY <1>7, <1>8, <2>1
    <3>2. peers[k].awaited = "offer" /\ ~peers[k].closed /\ PeerFact(k)
      BY <1>8, <2>1, <3>1 DEF IInv, PeerInv
    <3>3. peers[k].link = "sound" /\ peers[k].offers
      BY <3>2, PeerTypes DEF PeerFact, IInv
    <3>4. ~Out(k)
      BY <3>2, <3>3 DEF IInv, ForgottenInv, Gone, Apart
    <3>5. peers[k].of \in Transports \ {t}
      BY <1>5, <3>1, <3>4, PeerTypes DEF Out, IInv
    <3> QED  BY <1>15, <3>2, <3>3, <3>5 DEF PeerFact
  <2> QED  BY <1>8, <1>9, <1>12, <1>13, <2>1, FramePeerInv
<1>17. OfferFact(t)'
  <2>1. sdpOffer'[t] = i
    BY <1>2, Types DEF WebRTCTypeOK
  <2> QED  BY <1>2, <1>4, <1>5, <1>7, <1>8, <2>1 DEF OfferFact
<1>18. /\ \A k \in DOMAIN peers :
            /\ peers'[k].closed = peers[k].closed /\ peers'[k].channel = peers[k].channel
            /\ k # peer[t] => peers'[k] = peers[k]
       /\ peer[t] # NoPeer /\ peers[peer[t]].remote # NoPeer
            => state[t] # "CONNECTED" \/ Gone(peers[peer[t]].remote)
  BY <1>4, <1>5, <1>8, <1>9
<1>19. \E others : inbox' = Posted(inbox, others, CustomData("CONNECT", self[t], <<0, 0>>))
  BY <1>3
<1> QED  BY <1>2, <1>3, <1>6, <1>8, <1>11, <1>12, <1>13, <1>14, <1>15, <1>16, <1>17, <1>18,
            <1>19, ConnectingStep

-----------------------------------------------------------------------------
(* An answer is sent.                                                      *)

LEMMA AnswerStep ==
  ASSUME IInv, NEW t \in Transports, handleOnSdpAnswer(t)
  PROVE  IInv'
<1>1. PICK i \in DOMAIN peers :
        /\ AnswerCreated(t, i)
        /\ inbox' = Posted(inbox, {opponent[t]},
                           CustomData("SDP_ANSWER", self[t], <<peers[i].remote, i>>))
  BY DEF handleOnSdpAnswer
<1>2. /\ peers[i].of = t /\ peers[i].awaited = "answer" /\ ~peers[i].closed
      /\ peers' = [peers EXCEPT ![i].awaited = "none"]
      /\ UNCHANGED <<fetching, ws, self, members, owner, working, peerVars, faultVars,
                     peer, sdpOffer, turnServerConnectionSuccess, socket>>
  BY <1>1 DEF AnswerCreated, Awaited, Destroyed, handleOnSdpAnswer
<1>3. PICK r \in DOMAIN peers :
        /\ r = peers[i].remote /\ r # NoPeer
        /\ ~peers[i].offers /\ peers[i].sig = "stable" /\ peers[i].link = "sound"
        /\ peers[r].offers /\ peers[r].awaited = "none"
  <2>1. PeerFact(i) /\ peers[i].remote \in 0..Len(peers) /\ peers[i].offers \in BOOLEAN
        /\ DOMAIN peers = 1..Len(peers)
    BY PeerTypes DEF IInv, PeerInv
  <2> QED  BY <1>2, <2>1 DEF PeerFact
<1>4. i # NoPeer /\ peer[t] = i
  BY <1>2, <1>3, PeerTypes DEF IInv, ForgottenInv, Gone, Apart, Out
<1>5. /\ self[t] # None /\ self[t] \in 1..Len(owner) /\ owner[self[t]] = t
      /\ ~HasLeft(self[t]) /\ inbox \in Queues
  BY <1>2, <1>4, FactsOf, OwnerTypes DEF MemberFact, IInv
<1>6. PICK n \in Notification :
        /\ inbox' = Posted(inbox, {opponent[t]}, n)
        /\ n.type = "SDP_ANSWER" /\ n.about = {self[t]} /\ n.data[1] = r /\ n.data[2] = i
  <2>1. "SDP_ANSWER" \in MessageType /\ r \in Nat /\ i \in Nat /\ self[t] \in Participant
    BY <1>5, PeerTypes, OwnerTypes DEF MessageType, IInv
  <2>2. CustomData("SDP_ANSWER", self[t], <<r, i>>) \in Notification
    BY <2>1, NoticeTypes
  <2> QED  BY <1>1, <1>3, <2>2 DEF CustomData
<1>7. PICK x \in Peer(Transports) :
        /\ x = [peers[i] EXCEPT !.awaited = "none"]
        /\ x.of = t /\ ~x.offers /\ x.sig = "stable" /\ x.remote = r
        /\ x.awaited = "none" /\ ~x.closed /\ x.link = peers[i].link
        /\ x.channel = peers[i].channel
  <2>1. PICK y \in Peer(Transports) : y = peers[i]
    BY PeerTypes DEF IInv
  <2>2. /\ [y EXCEPT !.awaited = "none"] \in Peer(Transports)
        /\ [y EXCEPT !.awaited = "none"].of = y.of
        /\ [y EXCEPT !.awaited = "none"].offers = y.offers
        /\ [y EXCEPT !.awaited = "none"].sig = y.sig
        /\ [y EXCEPT !.awaited = "none"].remote = y.remote
        /\ [y EXCEPT !.awaited = "none"].awaited = "none"
        /\ [y EXCEPT !.awaited = "none"].closed = y.closed
        /\ [y EXCEPT !.awaited = "none"].link = y.link
        /\ [y EXCEPT !.awaited = "none"].channel = y.channel
    BY DEF Peer
  <2> QED  BY <1>2, <1>3, <2>1, <2>2
<1>8. /\ peers' \in Seq(Peer(Transports)) /\ Len(peers') = Len(peers)
      /\ DOMAIN peers' = DOMAIN peers
      /\ peers'[i] = x /\ \A k \in DOMAIN peers : k # i => peers'[k] = peers[k]
  <2>1. peers' = [peers EXCEPT ![i] = x]
    BY <1>2, <1>7
  <2> QED  BY <2>1, PeerUpdate
<1>9. \A k \in DOMAIN peers :
        /\ peers'[k].of = peers[k].of /\ peers'[k].offers = peers[k].offers
        /\ peers'[k].sig = peers[k].sig /\ peers'[k].remote = peers[k].remote
        /\ peers'[k].awaited \in {peers[k].awaited, "none"}
        /\ peers'[k].closed = peers[k].closed /\ peers'[k].link = peers[k].link
        /\ peers'[k].channel = peers[k].channel
        /\ peers[k].offers => peers'[k].awaited = peers[k].awaited
  BY <1>2, <1>3, <1>7, <1>8
<1>10. SignalTypeOK' /\ InboxInv'
  <2>1. /\ inbox' \in Queues
        /\ \A u \in Transports : inbox'[u] # << >> => inbox[u] # << >> \/ self[u] # None
    BY <1>5, <1>6, PostedType
  <2> QED  BY <1>2, <2>1, QueueTypes, Types
<1>11. TypeOK' /\ FaultsInv'
  <2>1. WebRTCTypeOK(Transports)'
    BY <1>2, <1>8, <1>9, DestroyedTypes
  <2>2. WorkTypeOK'
    BY <1>2, Types DEF WorkTypeOK, peerVars, faultVars
  <2> QED  BY <1>2, <1>10, <2>1, <2>2, TypesNext DEF faultVars
<1>12. ASSUME NEW u \in Transports
       PROVE  /\ RingsFirst(inbox'[u]) /\ (Rings(inbox'[u]) <=> Rings(inbox[u]))
              /\ Sorted(inbox'[u]) /\ In(inbox'[u]) \subseteq In(inbox[u]) \cup {n}
  <2>1. RingsFirst(inbox[u]) /\ Sorted(inbox[u])
    BY FactsOf DEF MemberFact, OrderFact
  <2>2. \A m : Earlier(m, n)
    BY <1>6 DEF Earlier
  <2> QED  BY <1>5, <1>6, <2>1, <2>2, PostedQueues
<1>13. Frame
  <2>1. \A u \in Transports : \A m \in In(inbox'[u]) : m.type = "SDP_ANSWER" =>
          \/ m \in In(inbox[u])
          \/ m.data[2] \in DOMAIN peers /\ peers[m.data[2]].awaited # "none"
    <3>1. n.data[2] \in DOMAIN peers /\ peers[n.data[2]].awaited # "none"
      BY <1>2, <1>6
    <3> SUFFICES ASSUME NEW u \in Transports, NEW m \in In(inbox'[u])
                 PROVE  \/ m \in In(inbox[u])
                        \/ m.data[2] \in DOMAIN peers /\ peers[m.data[2]].awaited # "none"
      OBVIOUS
    <3>2. m \in In(inbox[u]) \/ m = n
      <4>1. In(inbox'[u]) \subseteq In(inbox[u]) \cup {n}
        BY <1>12
      <4> QED  BY <4>1
    <3> QED  BY <3>1, <3>2
  <2>2. NoPeer \notin DOMAIN peers'
    BY <1>11, PeersNext
  <2>3. \A k \in DOMAIN peers : Out(k) => Out(k)'
    BY <1>2, <1>9 DEF Out
  <2> QED  BY <1>8, <1>9, <2>1, <2>2, <2>3 DEF Frame
<1>14. Passes
  BY <1>2, <1>11, <1>13, FramePeersPass, SameOwners, SameOffers DEF Passes, IInv, peerVars
<1>15. PeerInv'
  <2>1. \A k \in DOMAIN peers :
          peers'[k].awaited = "offer" /\ ~peers'[k].closed => sdpOffer'[peers[k].of] < k
    BY <1>2, <1>7, <1>8 DEF IInv, PeerInv, PeerFact
  <2> QED  BY <1>8, <1>9, <1>11, <1>13, <2>1, FramePeerInv
<1>16. ForgottenInv'
  <2>1. \A k \in DOMAIN peers : Out(k)' <=> Out(k)
    BY <1>2, <1>9 DEF Out
  <2> QED  BY <1>8, <1>11, <1>14, <2>1, ForgottenStays DEF Passes
<1>17. MessageInv'
  <2>1. \A u : MessageFact(u, n)'
    <3>1. n.about \subseteq 1..Len(owner') /\ n.data[1] \in 0..Len(peers') /\ n.data[2] \in 0..Len(peers')
      BY <1>2, <1>5, <1>6, <1>8, PeerTypes DEF IInv
    <3>2. Refers(self[t], i)'
      <4>1. self'[t] = self[t] /\ owner' = owner
        BY <1>2
      <4>2. PICK q \in 1..Len(owner) : q = self[t]
        BY <1>5
      <4>3. Refers(q, i)'
        BY <1>2, <1>5, <1>7, <1>8, <4>1, <4>2 DEF Refers, HasLeft
      <4> QED  BY <4>1, <4>2, <4>3
    <3>3. \A p \in n.about : p = self[t]
      BY <1>6
    <3>4. peers'[r].offers /\ peers'[r].awaited = "none"
      BY <1>3, <1>9
    <3>5. r \in 1..r
      BY PeerTypes DEF IInv
    <3>6. ASSUME NEW p \in n.about
          PROVE  Refers(p, n.data[2])'
      <4>1. p = self[t]
        BY <3>3
      <4> QED  BY <1>2, <1>6, <3>2, <4>1
    <3> QED  BY <1>6, <1>7, <1>8, <3>1, <3>4, <3>5, <3>6 DEF MessageFact
  <2> QED  BY <1>2, <1>11, <1>12, <1>14, <2>1, MessageStep
<1>18. ASSUME NEW u \in Transports PROVE TransportFact(u)' /\ PairedFact(u)'
  <2>1. peer[u] # NoPeer => peer[u] \in DOMAIN peers
    BY PeerTypes DEF IInv
  <2>2. Keeps(u)
    BY <1>2, <1>8, <1>9, <2>1 DEF Keeps, KeepsPeer, peerVars
  <2>3. Gets(u)
    BY <1>6, <1>12 DEF Gets
  <2>4. Hides(u)
    <3>1. \A v \in Transports : Unheard(u) /\ self[u] # None => opponent'[v] # self[u]
      BY <1>2 DEF Unheard, peerVars
    <3>2. \A v \in Transports : \A m \in In(inbox'[v]) :
            m.type \in {"CONNECT", "ACCEPT", "SDP_OFFER"} => m \in In(inbox[v])
      BY <1>6, <1>12
    <3> QED  BY <3>1, <3>2 DEF Hides
  <2>5. Joined(u)' => Joined(u)
    <3>1. ASSUME peer[u] # NoPeer, peers[peer[u]].remote # NoPeer
          PROVE  peers'[peers[peer[u]].remote].remote = peers[peers[peer[u]].remote].remote
      BY <1>9, <2>1, <3>1, PeerTypes DEF IInv
    <3> QED  BY <1>2, <1>9, <2>1, <3>1 DEF Joined
  <2> QED  BY <1>2, <1>9, <1>11, <1>14, <2>1, <2>2, <2>3, <2>4, <2>5, BystanderStep, PairedStays
             DEF peerVars
<1> QED  BY <1>10, <1>11, <1>15, <1>16, <1>17, <1>18 DEF IInv

-----------------------------------------------------------------------------
(* The first notification: the peer is made whose TURN check is awaited.   *)

LEMMA NewPeerType ==
  ASSUME NEW t \in Transports
  PROVE  /\ NewPeer(t) \in Peer(Transports)
         /\ NewPeer(t).of = t /\ NewPeer(t).remote = NoPeer /\ NewPeer(t).sig = "new"
         /\ NewPeer(t).awaited = "none"
         /\ ~NewPeer(t).offers /\ ~NewPeer(t).closed /\ NewPeer(t).link = "sound"
<1> DEFINE z == [of |-> t, offers |-> FALSE, sig |-> "new", remote |-> 0, awaited |-> "none",
                 channel |-> "none", closed |-> FALSE, link |-> "sound"]
<1>1. NewPeer(t) = z
  BY DEF NewPeer
<1>2. z \in Peer(Transports)
  BY DEF Peer
<1>3. /\ z.of = t /\ z.remote = 0 /\ z.sig = "new" /\ z.awaited = "none"
      /\ ~z.offers /\ ~z.closed /\ z.link = "sound"
  OBVIOUS
<1> QED  BY <1>1, <1>2, <1>3

LEMMA ReadyStep ==
  ASSUME IInv, NEW t \in Transports, handleVkWebSocketSignalServerOnReady(t),
         UNCHANGED <<fetching, ws, self, members, owner, lost, stopped>>
  PROVE  IInv'
<1> DEFINE y == [NewPeer(t) EXCEPT !.offers = TRUE, !.sig = "offer", !.awaited = "offer"]
<1>1. /\ inbox[t] # << >> /\ Head(inbox[t]).type = "connection"
      /\ participants' = [participants EXCEPT ![t] = Head(inbox[t]).about \ {self[t]}]
      /\ peers' = Append(peers, y)
      /\ peer' = [peer EXCEPT ![t] = Len(peers) + 1]
      /\ working' = [working EXCEPT ![t] = "working"]
      /\ inbox' = Received(t)
      /\ UNCHANGED <<sdpOffer, turnServerConnectionSuccess, socket, state, opponent, role, crashed>>
  BY DEF handleVkWebSocketSignalServerOnReady, IsNext, startWebRTCConnection, Becomes
<1>2. PICK x \in Peer(Transports) :
        /\ x = y /\ x.of = t /\ x.offers /\ x.sig = "offer" /\ x.remote = NoPeer
        /\ x.awaited = "offer" /\ ~x.closed /\ x.link = "sound"
  <2>1. PICK z \in Peer(Transports) :
          /\ z = NewPeer(t)
          /\ z.of = t /\ z.remote = NoPeer /\ ~z.closed /\ z.link = "sound"
    BY NewPeerType
  <2>2. /\ [z EXCEPT !.offers = TRUE, !.sig = "offer", !.awaited = "offer"] \in Peer(Transports)
        /\ y.of = z.of /\ y.remote = z.remote /\ y.closed = z.closed /\ y.link = z.link
        /\ y.offers /\ y.sig = "offer" /\ y.awaited = "offer"
    BY <2>1 DEF Peer
  <2> QED  BY <2>1, <2>2
<1> HIDE DEF y
<1>3. PICK l \in Nat : l = Len(peers) + 1
  BY PeerTypes DEF IInv
<1>4. /\ peers' \in Seq(Peer(Transports)) /\ Len(peers') = l /\ DOMAIN peers = 1..Len(peers)
      /\ DOMAIN peers' = 1..l /\ l \notin DOMAIN peers /\ l \in DOMAIN peers'
      /\ DOMAIN peers \subseteq DOMAIN peers' /\ DOMAIN peers' = DOMAIN peers \cup {l}
      /\ peers'[l] = x /\ \A k \in DOMAIN peers : peers'[k] = peers[k]
      /\ Len(peers) \in Nat /\ NoPeer \notin DOMAIN peers' /\ 0..Len(peers) \subseteq 0..l
      /\ l # NoPeer
  BY <1>1, <1>2, <1>3, PeerTypes DEF IInv, TypeOK, WebRTCTypeOK
<1>5. /\ self[t] # None /\ Received(t) \in Queues /\ Rings(inbox[t]) /\ inbox \in Queues
      /\ \A u \in Transports : Received(t)[u] # << >> => inbox[u] # << >>
      /\ Head(inbox[t]) \in Notification
  BY <1>1, HeadFacts, FactsOf DEF Rings
<1>6. /\ peer[t] = NoPeer /\ Unheard(t) /\ (socket[t] => Escaped(t))
  BY <1>5, FactsOf DEF MemberFact, UnheardFact, SocketFact, CanSend
<1>7. /\ peer'[t] = l /\ working'[t] = "working"
      /\ \A u \in Transports \ {t} : peer'[u] = peer[u] /\ working'[u] = working[u]
  BY <1>1, <1>3, Types DEF WebRTCTypeOK, WorkTypeOK
<1>8. SignalTypeOK' /\ InboxInv'
  BY <1>1, <1>5, QueueTypes, Types
<1>9. TypeOK' /\ FaultsInv'
  <2>1. WebRTCTypeOK(Transports)'
    <3>1. peer' \in [Transports -> 0..l]
      BY <1>1, <1>3, <1>4, Types DEF WebRTCTypeOK
    <3>2. sdpOffer' \in [Transports -> 0..l]
      BY <1>1, <1>4, Types DEF WebRTCTypeOK
    <3>3. \A k \in DOMAIN peers' : peers'[k].remote \in 0..l
      <4>1. \A k \in DOMAIN peers : peers[k].remote \in 0..Len(peers)
        BY PeerTypes DEF IInv
      <4>2. NoPeer \in 0..l
        BY <1>3
      <4> QED  BY <1>2, <1>4, <4>1, <4>2
    <3>4. \A u \in Transports : peer'[u] # NoPeer => peers'[peer'[u]].of = u
      BY <1>2, <1>4, <1>7, PeerTypes DEF IInv
    <3> QED  BY <1>1, <1>4, <3>1, <3>2, <3>3, <3>4, Types DEF WebRTCTypeOK
  <2>2. WorkTypeOK'
    <3>1. Head(inbox[t]).about \ {self[t]} \in SUBSET Participant
      BY <1>5 DEF Notification
    <3> QED  BY <1>1, <3>1, Types DEF WorkTypeOK
  <2> QED  BY <1>8, <2>1, <2>2, TypesNext
<1>10. ASSUME NEW u \in Transports
       PROVE  /\ RingsFirst(inbox'[u]) /\ Sorted(inbox'[u]) /\ In(inbox'[u]) \subseteq In(inbox[u])
              /\ u # t => inbox'[u] = inbox[u]
              /\ Rings(inbox'[u]) => u # t /\ Rings(inbox[u])
  BY <1>1, <1>5, FactsOf, ReceivedQueues DEF MemberFact, OrderFact
<1>11. \A k \in DOMAIN peers : Out(k)' <=> Out(k)
  <2> SUFFICES ASSUME NEW k \in DOMAIN peers PROVE Out(k)' <=> Out(k)
    OBVIOUS
  <2>1. k # NoPeer /\ k # l /\ peers[k].of \in Transports /\ peers'[k].of = peers[k].of
    BY <1>4, PeerTypes DEF IInv
  <2> QED  BY <1>6, <1>7, <2>1 DEF Out
<1>12. Frame
  <2>1. \A u \in Transports : \A n \in In(inbox'[u]) : n \in In(inbox[u])
    BY <1>10
  <2>2. \A k \in DOMAIN peers : peers'[k].awaited \in {peers[k].awaited, "none"}
    BY <1>4
  <2> QED  BY <1>4, <1>11, <2>1, <2>2 DEF Frame
<1>13. Passes
  BY <1>1, <1>9, <1>12, FramePeersPass, SameOwners, SameOffers DEF Passes, IInv
<1>14. PeerInv'
  <2>1. PeerFact(l)'
    <3>1. sdpOffer'[t] < l
      BY <1>1, <1>3, PeerTypes DEF IInv
    <3>2. PICK k \in DOMAIN peers' : k = l
      BY <1>4
    <3>3. PeerFact(k)'
      BY <1>2, <1>4, <3>1, <3>2 DEF PeerFact
    <3> QED  BY <3>2, <3>3
  <2>2. \A k \in DOMAIN peers :
          /\ peers'[k].awaited = "offer" /\ ~peers'[k].closed => sdpOffer'[peers[k].of] < k
          /\ peers'[k].link # "sound" => peers[k].link # "sound"
    BY <1>1, <1>4 DEF IInv, PeerInv, PeerFact
  <2>3. \A k \in DOMAIN peers' : k \notin DOMAIN peers => k = l
    BY <1>4
  <2> QED  BY <1>9, <1>12, <2>1, <2>2, <2>3, FramePeerInv
<1>15. ForgottenInv'
  <2>1. ~Out(l)'
    BY <1>2, <1>4, <1>7 DEF Out
  <2>2. \A k \in DOMAIN peers' : k \notin DOMAIN peers => k = l
    BY <1>4
  <2> QED  BY <1>9, <1>11, <1>13, <2>1, <2>2, ForgottenStays DEF Passes
<1>16. MessageInv'
  BY <1>9, <1>10, <1>13, MessageStep
<1>17. ASSUME NEW u \in Transports
       PROVE  /\ peer[u] # NoPeer => peer[u] \in DOMAIN peers
              /\ Hides(u)
  <2>1. peer[u] # NoPeer => peer[u] \in DOMAIN peers
    BY PeerTypes DEF IInv
  <2>2. \A v \in Transports : Unheard(u) /\ self[u] # None => opponent'[v] # self[u]
    BY <1>1 DEF Unheard
  <2>3. \A v \in Transports : \A n \in In(inbox'[v]) : n \in In(inbox[v])
    BY <1>10
  <2> QED  BY <2>1, <2>2, <2>3 DEF Hides
<1>18. ASSUME NEW u \in Transports \ {t} PROVE TransportFact(u)' /\ PairedFact(u)'
  <2>1. Keeps(u)
    BY <1>1, <1>2, <1>4, <1>7, <1>17 DEF Keeps, KeepsPeer
  <2>2. Gets(u)
    BY <1>10, FactsOf DEF Gets
  <2>3. Joined(u)' => Joined(u)
    <3>1. ASSUME peer[u] # NoPeer, peers[peer[u]].remote # NoPeer
          PROVE  peers'[peers[peer[u]].remote].remote = peers[peers[peer[u]].remote].remote
      BY <1>4, <1>17, <3>1, PeerTypes DEF IInv
    <3> QED  BY <1>4, <1>7, <1>17, <3>1 DEF Joined
  <2>4. ASSUME NEW p \in 1..Len(owner), Joined(u), Answering(u, p), ~HasLeft(p)'
        PROVE  peer'[owner[p]] = peer[owner[p]]
    <3>1. ~HasLeft(p)
      BY <2>4 DEF HasLeft
    <3>2. peer[owner[p]] # NoPeer /\ owner[p] \in Transports
      BY <2>4, <3>1, JoinedMeans DEF Joined
    <3> QED  BY <1>6, <1>7, <3>2
  <2>5. TransportFact(u)'
    BY <1>9, <1>13, <1>17, <2>1, <2>2, BystanderStep
  <2> QED  BY <1>1, <1>4, <1>7, <1>9, <1>13, <1>17, <2>2, <2>3, <2>4, <2>5, PairedStays
<1>19. TransportFact(t)' /\ PairedFact(t)'
  <2>1. FetchFact(t)'
    <3>1. ws[t] = "open" /\ ~fetching[t]
      BY <1>5, Types, FactsOf DEF SignalTypeOK, FetchFact
    <3>2. ~Fresh(t)'
      BY <1>7 DEF Fresh
    <3> QED  BY <3>1, <3>2 DEF FetchFact
  <2>2. MemberFact(t)'
    BY <1>2, <1>4, <1>5, <1>7, <1>10 DEF MemberFact
  <2>3. OfferFact(t)'
    <3>1. sdpOffer[t] # NoPeer => sdpOffer[t] \in DOMAIN peers
      BY PeerTypes DEF IInv
    <3> QED  BY <1>1, <1>2, <1>4, <1>7, <3>1, FactsOf DEF OfferFact
  <2>4. OrderFact(t)' /\ LinkFact(t)' /\ PairedFact(t)' /\ SocketFact(t)'
    <3>1. socket[t] => Escaped(t)'
      BY <1>4, <1>6, EscapedStays
    <3> QED  BY <1>1, <1>2, <1>4, <1>6, <1>7, <1>10, <3>1
               DEF OrderFact, Answering, LinkFact, PairedFact, Joined, SocketFact
  <2>5. UnheardFact(t)'
    BY <1>6, <1>17, UnheardStays DEF UnheardFact
  <2>6. opponent'[t] \in 0..Len(owner')
    BY <1>1, FactsOf
  <2> QED  BY <2>1, <2>2, <2>3, <2>4, <2>5, <2>6 DEF TransportFact
<1> QED  BY <1>8, <1>9, <1>14, <1>15, <1>16, <1>18, <1>19 DEF IInv

-----------------------------------------------------------------------------
(* ACCEPT: the peer is replaced.                                           *)

LEMMA AcceptStep ==
  ASSUME IInv, NEW t \in Transports, NEW p \in Participant,
         IsNext(t, "ACCEPT", p), state[t] = "CONNECTING", setStateConnected(t, p, FALSE),
         UNCHANGED <<fetching, ws, self, members, owner, working, lost, stopped>>
  PROVE  IInv'
<1>1. /\ inbox[t] # << >> /\ Head(inbox[t]).type = "ACCEPT" /\ p \in Head(inbox[t]).about
      /\ state' = [state EXCEPT ![t] = "CONNECTED"]
      /\ opponent' = [opponent EXCEPT ![t] = p]
      /\ role' = [role EXCEPT ![t] = "answer"]
      /\ inbox' = Received(t)
      /\ peers' = Append(WithoutPeer(t), NewPeer(t))
      /\ peer' = [peer EXCEPT ![t] = Len(peers) + 1]
      /\ UNCHANGED <<sdpOffer, turnServerConnectionSuccess, socket, participants, crashed>>
  BY DEF IsNext, setStateConnected, startAnswerConnection
<1>2. /\ Head(inbox[t]) \in In(inbox[t]) /\ self[t] # None /\ p \in 1..Len(owner)
      /\ Received(t) \in Queues /\ inbox \in Queues /\ ~Rings(inbox[t]) /\ working[t] = "working"
      /\ \A u \in Transports : Received(t)[u] # << >> => inbox[u] # << >>
      /\ peer[t] \in DOMAIN peers /\ ~peers[peer[t]].closed
  BY <1>1, HeadFacts, FactsOf DEF MessageFact
<1>3. PICK k \in DOMAIN peers, l \in Nat, x \in Peer(Transports) :
        /\ k = peer[t] /\ peers[k].of = t
        /\ l = Len(peers) + 1
        /\ x = NewPeer(t) /\ x.of = t /\ ~x.offers /\ x.sig = "new" /\ x.remote = NoPeer
        /\ x.awaited = "none" /\ ~x.closed /\ x.link = "sound"
  <2>1. peers[peer[t]].of = t /\ Len(peers) + 1 \in Nat
    BY <1>2, PeerTypes DEF IInv
  <2> QED  BY <1>2, <2>1, NewPeerType
<1>4. PICK z \in Peer(Transports) :
        /\ z = [peers[k] EXCEPT !.closed = TRUE]
        /\ z.of = t /\ z.offers = peers[k].offers /\ z.sig = peers[k].sig
        /\ z.remote = peers[k].remote /\ z.awaited = peers[k].awaited
        /\ z.link = peers[k].link /\ z.channel = peers[k].channel /\ z.closed
  <2>1. PICK y \in Peer(Transports) : y = peers[k]
    BY PeerTypes DEF IInv
  <2>2. /\ [y EXCEPT !.closed = TRUE] \in Peer(Transports)
        /\ [y EXCEPT !.closed = TRUE].of = y.of
        /\ [y EXCEPT !.closed = TRUE].offers = y.offers
        /\ [y EXCEPT !.closed = TRUE].sig = y.sig
        /\ [y EXCEPT !.closed = TRUE].remote = y.remote
        /\ [y EXCEPT !.closed = TRUE].awaited = y.awaited
        /\ [y EXCEPT !.closed = TRUE].link = y.link
        /\ [y EXCEPT !.closed = TRUE].channel = y.channel
        /\ [y EXCEPT !.closed = TRUE].closed
    BY DEF Peer
  <2> QED  BY <1>3, <2>1, <2>2
<1>5. /\ peers' \in Seq(Peer(Transports)) /\ Len(peers') = l /\ DOMAIN peers = 1..Len(peers)
      /\ DOMAIN peers' = 1..l /\ l \notin DOMAIN peers /\ l \in DOMAIN peers'
      /\ DOMAIN peers \subseteq DOMAIN peers' /\ DOMAIN peers' = DOMAIN peers \cup {l}
      /\ peers'[l] = x /\ peers'[k] = z
      /\ \A i \in DOMAIN peers : i # k => peers'[i] = peers[i]
      /\ Len(peers) \in Nat /\ NoPeer \notin DOMAIN peers' /\ 0..Len(peers) \subseteq 0..l
      /\ l # NoPeer /\ k # l /\ k # NoPeer
  <2>1. PICK w \in Seq(Peer(Transports)) :
          /\ w = [peers EXCEPT ![k] = z] /\ Len(w) = Len(peers)
          /\ w[k] = z /\ \A i \in DOMAIN peers : i # k => w[i] = peers[i]
    <3>1. peers \in Seq(Peer(Transports)) /\ k \in 1..Len(peers)
      BY PeerTypes DEF IInv, TypeOK, WebRTCTypeOK
    <3>2. /\ [peers EXCEPT ![k] = z] \in Seq(Peer(Transports))
          /\ Len([peers EXCEPT ![k] = z]) = Len(peers)
          /\ [peers EXCEPT ![k] = z][k] = z
          /\ \A i \in DOMAIN peers : i # k => [peers EXCEPT ![k] = z][i] = peers[i]
      BY <3>1, SeqUpdate
    <3> QED  BY <3>2
  <2>2. peers' = Append(w, x)
    BY <1>1, <1>2, <1>3, <1>4, <2>1, PeerTypes DEF WithoutPeer, IInv
  <2>3. DOMAIN peers = 1..Len(peers) /\ Len(peers) \in Nat
    BY PeerTypes DEF IInv
  <2>4. /\ peers' \in Seq(Peer(Transports)) /\ Len(peers') = l
        /\ peers'[l] = x /\ \A i \in 1..Len(peers) : peers'[i] = w[i]
    BY <1>3, <2>1, <2>2, <2>3
  <2>5. /\ DOMAIN peers' = 1..l /\ l \notin 1..Len(peers) /\ l \in 1..l
        /\ 1..Len(peers) \subseteq 1..l /\ 1..l = 1..Len(peers) \cup {l}
        /\ NoPeer \notin 1..l /\ 0..Len(peers) \subseteq 0..l /\ l # NoPeer
    BY <1>3, <2>3, <2>4
  <2> QED  BY <2>1, <2>3, <2>4, <2>5
<1>6. \A i \in DOMAIN peers :
        /\ peers'[i].of = peers[i].of /\ peers'[i].offers = peers[i].offers
        /\ peers'[i].sig = peers[i].sig /\ peers'[i].remote = peers[i].remote
        /\ peers'[i].awaited = peers[i].awaited /\ peers'[i].link = peers[i].link
        /\ peers'[i].channel = peers[i].channel /\ (peers[i].closed => peers'[i].closed)
  <2> SUFFICES ASSUME NEW i \in DOMAIN peers
        PROVE  /\ peers'[i].of = peers[i].of /\ peers'[i].offers = peers[i].offers
               /\ peers'[i].sig = peers[i].sig /\ peers'[i].remote = peers[i].remote
               /\ peers'[i].awaited = peers[i].awaited /\ peers'[i].link = peers[i].link
               /\ peers'[i].channel = peers[i].channel /\ (peers[i].closed => peers'[i].closed)
    OBVIOUS
  <2>1. CASE i = k
    BY <1>3, <1>4, <1>5, <2>1
  <2>2. CASE i # k
    BY <1>5, <2>2
  <2> QED  BY <2>1, <2>2
<1>7. /\ peer'[t] = l /\ state'[t] = "CONNECTED" /\ opponent'[t] = p /\ role'[t] = "answer"
      /\ \A u \in Transports \ {t} :
           /\ peer'[u] = peer[u] /\ state'[u] = state[u] /\ opponent'[u] = opponent[u]
           /\ role'[u] = role[u]
  BY <1>1, <1>3, Types DEF WebRTCTypeOK, WorkTypeOK
<1>8. SignalTypeOK' /\ InboxInv'
  BY <1>1, <1>2, QueueTypes, Types
<1>9. TypeOK' /\ FaultsInv'
  <2>1. WebRTCTypeOK(Transports)'
    <3>1. peer' \in [Transports -> 0..l]
      BY <1>1, <1>3, <1>5, Types DEF WebRTCTypeOK
    <3>2. sdpOffer' \in [Transports -> 0..l]
      BY <1>1, <1>5, Types DEF WebRTCTypeOK
    <3>3. \A i \in DOMAIN peers' : peers'[i].remote \in 0..l
      <4>1. \A i \in DOMAIN peers : peers[i].remote \in 0..Len(peers)
        BY PeerTypes DEF IInv
      <4>2. NoPeer \in 0..l
        BY <1>3
      <4> QED  BY <1>3, <1>5, <1>6, <4>1, <4>2
    <3>4. \A u \in Transports : peer'[u] # NoPeer => peers'[peer'[u]].of = u
      BY <1>3, <1>5, <1>6, <1>7, PeerTypes DEF IInv
    <3> QED  BY <1>1, <1>5, <3>1, <3>2, <3>3, <3>4, Types DEF WebRTCTypeOK
  <2>2. WorkTypeOK'
    <3>1. None \notin Participant
      BY SignalAssumption DEF Participant
    <3> QED  BY <1>1, <3>1, Types DEF WorkTypeOK
  <2> QED  BY <1>1, <1>8, <2>1, <2>2, TypesNext
<1>10. ASSUME NEW u \in Transports
       PROVE  /\ RingsFirst(inbox'[u]) /\ Sorted(inbox'[u]) /\ In(inbox'[u]) \subseteq In(inbox[u])
              /\ u # t => inbox'[u] = inbox[u]
              /\ Rings(inbox'[u]) => u # t /\ Rings(inbox[u])
  BY <1>1, <1>2, FactsOf, ReceivedQueues DEF MemberFact, OrderFact
<1>11. \A i \in DOMAIN peers : (Out(i) => Out(i)') /\ (Out(i)' => Out(i) \/ i = k)
  <2> SUFFICES ASSUME NEW i \in DOMAIN peers
               PROVE  (Out(i) => Out(i)') /\ (Out(i)' => Out(i) \/ i = k)
    OBVIOUS
  <2>1. i # l /\ peers[i].of \in Transports /\ peers'[i].of = peers[i].of
    BY <1>5, <1>6, PeerTypes DEF IInv
  <2> QED  BY <1>3, <1>7, <2>1 DEF Out
<1>12. Frame
  <2>1. \A u \in Transports : \A n \in In(inbox'[u]) : n \in In(inbox[u])
    BY <1>10
  <2> QED  BY <1>5, <1>6, <1>11, <2>1 DEF Frame
<1>13. Passes
  <2>1. \A u \in Transports : sdpOffer[u] <= sdpOffer[u]
    BY PeerTypes DEF IInv
  <2>2. OffersPass
    BY <1>1, <1>7, <2>1 DEF OffersPass
  <2> QED  BY <1>1, <1>9, <1>12, <2>2, FramePeersPass, SameOwners DEF Passes, IInv
<1>14. \A i \in DOMAIN peers' : i \notin DOMAIN peers => i = l
  BY <1>5
<1>15. PeerInv'
  <2>1. ASSUME NEW i \in DOMAIN peers', i = l
        PROVE  PeerFact(i)'
    BY <1>3, <1>5, <2>1 DEF PeerFact
  <2>2. \A i \in DOMAIN peers :
          /\ peers'[i].awaited = "offer" /\ ~peers'[i].closed => sdpOffer'[peers[i].of] < i
          /\ peers'[i].link # "sound" => peers[i].link # "sound"
    <3> SUFFICES ASSUME NEW i \in DOMAIN peers
                 PROVE  peers'[i].awaited = "offer" /\ ~peers'[i].closed => sdpOffer[peers[i].of] < i
      BY <1>1, <1>6
    <3>1. peers'[i].awaited = peers[i].awaited /\ (~peers'[i].closed => ~peers[i].closed)
      BY <1>6
    <3>2. PeerFact(i) /\ peers[i].offers \in BOOLEAN
      BY PeerTypes DEF IInv, PeerInv
    <3> QED  BY <3>1, <3>2 DEF PeerFact
  <2> QED  BY <1>9, <1>12, <1>14, <2>1, <2>2, FramePeerInv
<1>16. ForgottenInv'
  <2>1. ~Out(l)'
    BY <1>3, <1>5, <1>7 DEF Out
  <2>2. Gone(k)'
    BY <1>4, <1>5 DEF Gone
  <2>3. \A i \in DOMAIN peers : Out(i)' => Out(i) \/ Gone(i)'
    <3> SUFFICES ASSUME NEW i \in DOMAIN peers, Out(i)', ~Out(i) PROVE Gone(i)'
      OBVIOUS
    <3>1. i = k
      BY <1>11
    <3> QED  BY <2>2, <3>1
  <2>4. \A i \in DOMAIN peers' : i \notin DOMAIN peers => ~Out(i)'
    BY <1>14, <2>1
  <2> QED  BY <1>9, <1>13, <2>3, <2>4, ForgottenStays DEF Passes
<1>17. MessageInv'
  BY <1>1, <1>9, <1>10, <1>13, MessageStep
<1>18. ASSUME NEW u \in Transports \ {t} PROVE TransportFact(u)' /\ PairedFact(u)'
  <2>1. peer[u] # NoPeer => peer[u] \in DOMAIN peers /\ peer[u] # k
    BY <1>3, PeerTypes DEF IInv
  <2>2. peer[u] # NoPeer => peers'[peer[u]] = peers[peer[u]]
    BY <1>5, <2>1
  <2>3. Keeps(u)
    <3>1. \A i \in DOMAIN peers' : i \notin DOMAIN peers => peers'[i].of # u
      BY <1>3, <1>5, <1>14
    <3>2. \A i \in DOMAIN peers : peers[i].of = u => peers'[i] = peers[i]
      BY <1>3, <1>5
    <3>3. KeepsPeer(u)
      BY <1>7, <2>2, <3>1, <3>2 DEF KeepsPeer
    <3> QED  BY <1>1, <1>7, <3>3 DEF Keeps
  <2>4. Gets(u)
    BY <1>10, FactsOf DEF Gets
  <2>5. Hides(u)
    <3>1. Unheard(u) /\ self[u] # None => p # self[u]
      BY <1>1, <1>2 DEF Unheard
    <3>2. \A v \in Transports : opponent'[v] \in {opponent[v], p}
      BY <1>7
    <3>3. \A v \in Transports : Unheard(u) /\ self[u] # None => opponent'[v] # self[u]
      BY <3>1, <3>2 DEF Unheard
    <3>4. \A v \in Transports : \A n \in In(inbox'[v]) : n \in In(inbox[v])
      BY <1>10
    <3> QED  BY <3>3, <3>4 DEF Hides
  <2>6. Joined(u)' => Joined(u)
    <3>1. ASSUME peer[u] # NoPeer, peers[peer[u]].remote # NoPeer
          PROVE  peers'[peers[peer[u]].remote].remote = peers[peers[peer[u]].remote].remote
      BY <1>6, <2>1, <3>1, PeerTypes DEF IInv
    <3> QED  BY <1>7, <2>1, <2>2, <3>1 DEF Joined
  <2>7. ASSUME NEW q \in 1..Len(owner), Joined(u), Answering(u, q), ~HasLeft(q)'
        PROVE  peer'[owner[q]] = peer[owner[q]]
    <3>1. ~HasLeft(q)
      BY <2>7 DEF HasLeft
    <3>2. state[owner[q]] = "CONNECTED" /\ owner[q] \in Transports
      BY <2>7, <3>1, JoinedMeans
    <3> QED  BY <1>7, <3>2
  <2>8. TransportFact(u)'
    BY <1>9, <1>13, <2>3, <2>4, <2>5, BystanderStep
  <2> QED  BY <1>7, <1>9, <1>13, <2>2, <2>4, <2>6, <2>7, <2>8, PairedStays
<1>19. TransportFact(t)' /\ PairedFact(t)'
  <2>1. FetchFact(t)'
    <3>1. ws[t] = "open" /\ ~fetching[t]
      BY <1>2, Types, FactsOf DEF SignalTypeOK, FetchFact
    <3>2. ~Fresh(t)'
      BY <1>2 DEF Fresh
    <3> QED  BY <3>1, <3>2 DEF FetchFact
  <2>2. MemberFact(t)'
    BY <1>2, <1>3, <1>5, <1>7, <1>10 DEF MemberFact
  <2>3. OfferFact(t)'
    <3>1. sdpOffer[t] # NoPeer /\ sdpOffer[t] \in 0..Len(peers)
      BY PeerTypes, Types DEF WorkTypeOK, WebRTCTypeOK, IInv
    <3>2. sdpOffer[t] \in DOMAIN peers
      BY <1>5, <3>1
    <3>3. /\ peers'[sdpOffer[t]].of = t /\ peers'[sdpOffer[t]].offers
          /\ peers'[sdpOffer[t]].awaited = "none"
      BY <1>6, <3>1, <3>2, FactsOf DEF OfferFact
    <3> QED  BY <1>1, <1>3, <1>5, <1>7, <3>1, <3>3 DEF OfferFact
  <2>4. OrderFact(t)'
    <3>1. peers'[peer'[t]].remote = NoPeer
      BY <1>3, <1>5, <1>7
    <3>2. ASSUME NEW q \in 1..Len(owner'), NEW n \in In(inbox'[t]),
                 n.type = "SDP_OFFER", q \in n.about
          PROVE  NoPeer < n.data[1]
      <4>1. MessageFact(t, n)
        BY <1>10 DEF IInv, MessageInv
      <4>2. n.data[1] \in 1..Len(peers)
        BY <1>5, <3>2, <4>1 DEF MessageFact, Refers
      <4> QED  BY <4>2
    <3> QED  BY <1>10, <3>1, <3>2 DEF OrderFact
  <2>5. LinkFact(t)' /\ PairedFact(t)'
    BY <1>3, <1>5, <1>7 DEF LinkFact, PairedFact, Joined
  <2>6. SocketFact(t)'
    <3>1. socket[t] => Escaped(t)
      BY FactsOf DEF SocketFact
    <3>2. Escaped(t) => Escaped(t)'
      BY <1>5, <1>6, EscapedStays
    <3> QED  BY <1>1, <3>1, <3>2 DEF SocketFact
  <2>7. opponent'[t] \in 0..Len(owner')
    <3>1. p \in 0..Len(owner)
      BY <1>2, OwnerTypes DEF IInv
    <3> QED  BY <1>7, <3>1
  <2>8. UnheardFact(t)'
    <3>1. ~Stale(t)' /\ ~Rings(inbox'[t])
      BY <1>3, <1>5, <1>7, <1>10 DEF Stale
    <3> QED  BY <3>1 DEF UnheardFact
  <2> QED  BY <2>1, <2>2, <2>3, <2>4, <2>5, <2>6, <2>7, <2>8 DEF TransportFact
<1> QED  BY <1>8, <1>9, <1>15, <1>16, <1>17, <1>18, <1>19 DEF IInv


-----------------------------------------------------------------------------
(* CONNECT: it is answered, and the remembered offer goes with it.         *)

LEMMA ConnectStep ==
  ASSUME IInv, NEW t \in Transports, NEW p \in Participant,
         IsNext(t, "CONNECT", p), state[t] = "CONNECTING", setStateConnected(t, p, TRUE),
         UNCHANGED <<fetching, ws, self, members, owner, working, lost, stopped>>
  PROVE  IInv'
<1> DEFINE i == sdpOffer[t]
<1>1. /\ inbox[t] # << >> /\ Head(inbox[t]).type = "CONNECT" /\ p \in Head(inbox[t]).about
      /\ state' = [state EXCEPT ![t] = "CONNECTED"]
      /\ opponent' = [opponent EXCEPT ![t] = p]
      /\ role' = [role EXCEPT ![t] = "offer"]
      /\ inbox' = Posted(Posted(Received(t),
                           {p}, CustomData("ACCEPT", self[t], <<0, 0>>)),
                         {p}, CustomData("SDP_OFFER", self[t], <<i, 0>>))
      /\ UNCHANGED <<peers, peer, sdpOffer, turnServerConnectionSuccess, socket,
                     participants, crashed>>
  BY DEF IsNext, setStateConnected, webRTCVars
<1>2. /\ Head(inbox[t]) \in In(inbox[t]) /\ self[t] # None /\ p \in 1..Len(owner)
      /\ Received(t) \in Queues /\ inbox \in Queues /\ ~Rings(inbox[t]) /\ working[t] = "working"
      /\ \A u \in Transports : Received(t)[u] # << >> => inbox[u] # << >>
      /\ peer[t] \in DOMAIN peers /\ ~peers[peer[t]].closed
  BY <1>1, HeadFacts, FactsOf DEF MessageFact
<1>3. /\ i \in DOMAIN peers /\ i # NoPeer /\ i \in 1..Len(peers)
      /\ peers[i].of = t /\ peers[i].offers /\ peers[i].awaited = "none"
      /\ self[t] \in 1..Len(owner) /\ owner[self[t]] = t /\ ~HasLeft(self[t])
  <2>1. turnServerConnectionSuccess[t]
    BY Types DEF WorkTypeOK
  <2>2. i # NoPeer /\ i \in 0..Len(peers)
    BY <2>1, Types, PeerTypes DEF WebRTCTypeOK, IInv
  <2>3. i \in 1..Len(peers) /\ DOMAIN peers = 1..Len(peers)
    BY <2>2, PeerTypes DEF IInv
  <2> QED  BY <1>2, <2>2, <2>3, FactsOf, OwnerTypes DEF OfferFact, IInv
<1>4. PICK a \in Notification, n \in Notification :
        /\ inbox' = Posted(Posted(Received(t), {p}, a), {p}, n)
        /\ a.type = "ACCEPT" /\ a.about = {self[t]} /\ a.data[1] = 0 /\ a.data[2] = 0
        /\ n.type = "SDP_OFFER" /\ n.about = {self[t]} /\ n.data[1] = i /\ n.data[2] = 0
  <2>1. /\ "ACCEPT" \in MessageType /\ "SDP_OFFER" \in MessageType
        /\ i \in Nat /\ 0 \in Nat /\ self[t] \in Participant
    BY <1>2, <1>3, PeerTypes, OwnerTypes DEF MessageType, IInv
  <2>2. /\ CustomData("ACCEPT", self[t], <<0, 0>>) \in Notification
        /\ CustomData("SDP_OFFER", self[t], <<i, 0>>) \in Notification
    BY <2>1, NoticeTypes
  <2> HIDE DEF i
  <2> QED  BY <1>1, <2>2 DEF CustomData
<1>5. /\ state'[t] = "CONNECTED" /\ opponent'[t] = p /\ role'[t] = "offer"
      /\ \A u \in Transports \ {t} :
           state'[u] = state[u] /\ opponent'[u] = opponent[u] /\ role'[u] = role[u]
  BY <1>1, Types DEF WorkTypeOK
<1>6. ASSUME NEW u \in Transports, self[u] = p
      PROVE  /\ \A m \in In(inbox[u]) : m.type = "SDP_OFFER" /\ self[t] \in m.about => m.data[1] < i
             /\ Answering(u, self[t]) => ~Joined(u) /\ peers[peer[u]].remote < i
             /\ ~Unheard(u)
  <2>1. ASSUME NEW j \in Nat, Offered(u, self[t], j)
        PROVE  j < i
    <3>1. j <= i /\ (j = i => state[t] = "CONNECTED")
      BY <1>3, <2>1 DEF Offered
    <3> QED  BY <1>3, <3>1, PeerTypes DEF IInv
  <2>2. ASSUME NEW m \in In(inbox[u]), m.type = "SDP_OFFER", self[t] \in m.about
        PROVE  m.data[1] < i
    <3>1. MessageFact(u, m)
      BY DEF IInv, MessageInv
    <3>2. Offered(u, self[t], m.data[1]) /\ m.data[1] \in Nat
      BY <2>2, <3>1, PeerTypes DEF MessageFact, IInv
    <3> QED  BY <2>1, <3>2
  <2>3. ASSUME Answering(u, self[t])
        PROVE  ~Joined(u) /\ peers[peer[u]].remote < i
    <3>1. ~Joined(u)
      BY <1>3, <2>3, JoinedMeans
    <3>2. peers[peer[u]].remote \in Nat /\ self[u] # None
      BY <1>2, <1>6, <2>3, PeerTypes, OwnerTypes DEF IInv, Answering
    <3>3. CASE peers[peer[u]].remote = NoPeer
      BY <1>3, <3>1, <3>3, PeerTypes DEF IInv
    <3>4. CASE peers[peer[u]].remote # NoPeer
      <4>1. Offered(u, self[t], peers[peer[u]].remote)
        BY <1>3, <2>3, <3>2, <3>4, FactsOf DEF OrderFact
      <4> QED  BY <2>1, <3>1, <3>2, <4>1
    <3> QED  BY <3>3, <3>4
  <2>4. ~Unheard(u)
    <3>1. self[u] # None
      BY <1>2, <1>6, OwnerTypes DEF IInv
    <3> QED  BY <1>1, <1>2, <1>6, <3>1 DEF Unheard
  <2> QED  BY <2>2, <2>3, <2>4
<1>7. ASSUME NEW u \in Transports
      PROVE  /\ RingsFirst(inbox'[u]) /\ (Rings(inbox'[u]) <=> Rings(inbox[u]))
             /\ Sorted(inbox'[u]) /\ In(inbox'[u]) \subseteq In(inbox[u]) \cup {a, n}
             /\ self[u] # p => In(inbox'[u]) \subseteq In(inbox[u])
  <2>1. RingsFirst(inbox[u]) /\ Sorted(inbox[u])
    BY FactsOf DEF MemberFact, OrderFact
  <2>2. PICK box \in Queues :
          /\ box = Received(t)
          /\ RingsFirst(box[u]) /\ (Rings(box[u]) <=> Rings(inbox[u])) /\ Sorted(box[u])
          /\ In(box[u]) \subseteq In(inbox[u])
    BY <1>1, <1>2, <2>1, ReceivedQueues
  <2>3. PICK mid \in Queues :
          /\ mid = Posted(box, {p}, a)
          /\ RingsFirst(mid[u]) /\ (Rings(mid[u]) <=> Rings(inbox[u])) /\ Sorted(mid[u])
          /\ In(mid[u]) \subseteq In(inbox[u]) \cup {a}
          /\ self[u] # p => In(mid[u]) \subseteq In(inbox[u])
    <3>1. Posted(box, {p}, a) \in Queues
      BY PostedType
    <3>2. \A m : Earlier(m, a)
      BY <1>4 DEF Earlier
    <3>3. /\ In(Posted(box, {p}, a)[u]) \subseteq In(box[u]) \cup {a}
          /\ self[u] # p => Posted(box, {p}, a)[u] = box[u]
          /\ RingsFirst(Posted(box, {p}, a)[u])
          /\ Rings(Posted(box, {p}, a)[u]) <=> Rings(box[u])
          /\ Sorted(Posted(box, {p}, a)[u])
      BY <1>4, <2>2, <3>2, PostedQueues
    <3> QED  BY <2>2, <3>1, <3>3
  <2>4. self[u] \in {p} => \A m \in In(mid[u]) : Earlier(m, n)
    <3> SUFFICES ASSUME self[u] = p, NEW m \in In(mid[u]) PROVE Earlier(m, n)
      OBVIOUS
    <3>1. m \in In(inbox[u]) \/ m = a
      BY <2>3
    <3> HIDE DEF i
    <3> QED  BY <1>4, <1>6, <3>1 DEF Earlier
  <2>5. /\ In(Posted(mid, {p}, n)[u]) \subseteq In(mid[u]) \cup {n}
        /\ self[u] # p => Posted(mid, {p}, n)[u] = mid[u]
        /\ RingsFirst(Posted(mid, {p}, n)[u])
        /\ Rings(Posted(mid, {p}, n)[u]) <=> Rings(mid[u])
        /\ Sorted(Posted(mid, {p}, n)[u])
    <3> HIDE DEF i
    <3>1. n.type # "connection" /\ RingsFirst(mid[u]) /\ Sorted(mid[u])
      BY <1>4, <2>3
    <3>2. mid \in Queues /\ n \in Notification
      BY <2>3
    <3>3. \A q \in Queues :
            RingsFirst(q[u]) =>
              /\ In(Posted(q, {p}, n)[u]) \subseteq In(q[u]) \cup {n}
              /\ self[u] # p => Posted(q, {p}, n)[u] = q[u]
              /\ RingsFirst(Posted(q, {p}, n)[u])
              /\ Rings(Posted(q, {p}, n)[u]) <=> Rings(q[u])
              /\ Sorted(q[u]) /\ (self[u] \in {p} => \A m \in In(q[u]) : Earlier(m, n))
                   => Sorted(Posted(q, {p}, n)[u])
      BY <3>1, PostedQueues
    <3> QED  BY <2>4, <3>1, <3>2, <3>3
  <2>6. inbox' = Posted(mid, {p}, n)
    BY <1>4, <2>2, <2>3
  <2> QED  BY <2>3, <2>5, <2>6

<1>8. SignalTypeOK' /\ InboxInv'
  <2>1. /\ Posted(Received(t), {p}, a) \in Queues
        /\ \A u \in Transports :
             Posted(Received(t), {p}, a)[u] # << >> => Received(t)[u] # << >> \/ self[u] # None
    BY <1>2, PostedType
  <2>2. PICK mid \in Queues : mid = Posted(Received(t), {p}, a)
    BY <2>1
  <2>3. /\ Posted(mid, {p}, n) \in Queues
        /\ \A u \in Transports :
             Posted(mid, {p}, n)[u] # << >> => mid[u] # << >> \/ self[u] # None
    BY PostedType
  <2>4. /\ inbox' \in Queues
        /\ \A u \in Transports : inbox'[u] # << >> => inbox[u] # << >> \/ self[u] # None
    BY <1>2, <1>4, <2>1, <2>2, <2>3
  <2> QED  BY <2>4, QueueTypes, Types
<1>9. TypeOK' /\ FaultsInv'
  <2>1. WebRTCTypeOK(Transports)'
    BY <1>1, Types DEF WebRTCTypeOK
  <2>2. WorkTypeOK'
    <3>1. None \notin Participant
      BY SignalAssumption DEF Participant
    <3> QED  BY <1>1, <3>1, Types DEF WorkTypeOK
  <2> QED  BY <1>1, <1>8, <2>1, <2>2, TypesNext
<1>10. Passes
  <2>1. \A u \in Transports : \A m \in In(inbox'[u]) : m.type = "SDP_ANSWER" => m \in In(inbox[u])
    BY <1>4, <1>7
  <2>2. \A k \in DOMAIN peers : (Out(k) => Out(k)') /\ peers[k].awaited \in {peers[k].awaited, "none"}
    BY <1>1 DEF Out
  <2>3. NoPeer \notin DOMAIN peers
    BY PeerTypes DEF IInv
  <2>4. Frame
    BY <1>1, <2>1, <2>2, <2>3 DEF Frame
  <2>5. \A u \in Transports : sdpOffer[u] <= sdpOffer[u]
    BY PeerTypes DEF IInv
  <2>6. OffersPass
    BY <1>1, <1>5, <2>5 DEF OffersPass
  <2> QED  BY <1>9, <2>4, <2>6, FramePeersPass, SameOwners DEF Passes, IInv
<1>11. PeerInv' /\ ForgottenInv'
  <2>1. PeerInv'
    BY <1>1 DEF IInv, PeerInv, PeerFact
  <2>2. \A k \in DOMAIN peers : Out(k)' <=> Out(k)
    BY <1>1 DEF Out
  <2> QED  BY <1>1, <1>9, <1>10, <2>1, <2>2, ForgottenStays DEF Passes
<1>12. MessageInv'
  <2>1. \A u : MessageFact(u, a)'
    <3>1. self[t] \in 1..Len(owner') /\ 0 \in 0..Len(peers')
      BY <1>3, <1>9, PeersNext
    <3> QED  BY <1>4, <3>1 DEF MessageFact
  <2>2. ASSUME NEW u \in Transports, self[u] = p
        PROVE  MessageFact(u, n)'
    <3>1. PICK q \in 1..Len(owner), j \in DOMAIN peers : q = self[t] /\ j = i
      BY <1>3
    <3>2. /\ n.about = {q} /\ q \in 1..Len(owner') /\ n.data[1] = j
          /\ n.data[1] \in 0..Len(peers') /\ n.data[2] \in 0..Len(peers')
      BY <1>1, <1>3, <1>4, <3>1, PeerTypes DEF IInv
    <3>3. Refers(q, j)'
      BY <1>1, <1>3, <3>1 DEF Refers, HasLeft
    <3>4. Offered(u, q, j)'
      <4>1. sdpOffer'[t] = j /\ owner'[q] = t /\ self'[u] = p /\ j <= j
        BY <1>1, <1>3, <2>2, <3>1, PeerTypes DEF IInv
      <4> QED  BY <1>5, <4>1 DEF Offered
    <3>5. peers'[j].offers /\ peers'[j].awaited = "none"
      BY <1>1, <1>3, <3>1
    <3> HIDE DEF i
    <3> QED  BY <1>4, <3>2, <3>3, <3>4, <3>5 DEF MessageFact
  <2>3. ASSUME NEW u \in Transports, NEW m \in In(inbox'[u])
        PROVE  (m \in In(inbox[u]) /\ self'[u] = self[u]) \/ MessageFact(u, m)'
    <3>1. m \in In(inbox[u]) \/ (self[u] = p /\ (m = a \/ m = n))
      BY <1>7
    <3> QED  BY <2>1, <2>2, <3>1
  <2> QED  BY <1>9, <1>10, <2>3, MessageStep
<1>13. ASSUME NEW u \in Transports
       PROVE  /\ Gets(u)
              /\ peer[u] # NoPeer => peer[u] \in DOMAIN peers
              /\ Joined(u)' => Joined(u)
  <2>1. Gets(u)
    <3>1. ASSUME NEW m \in In(inbox'[u]), m.type = "SDP_OFFER", m \notin In(inbox[u])
          PROVE  \A q \in m.about : Answering(u, q) => ~Joined(u) /\ peers[peer[u]].remote < m.data[1]
      <4>1. m = n /\ self[u] = p
        BY <1>4, <1>7, <3>1
      <4> HIDE DEF i
      <4> QED  BY <1>4, <1>6, <4>1
    <3> QED  BY <1>7, <3>1 DEF Gets
  <2>2. peer[u] # NoPeer => peer[u] \in DOMAIN peers
    BY PeerTypes DEF IInv
  <2> QED  BY <1>1, <2>1, <2>2 DEF Joined
<1>14. ASSUME NEW u \in Transports \ {t} PROVE TransportFact(u)' /\ PairedFact(u)'
  <2>1. Keeps(u)
    BY <1>1, <1>5, <1>13 DEF Keeps, KeepsPeer
  <2>2. Hides(u)
    <3>1. Unheard(u) /\ self[u] # None => p # self[u]
      BY <1>6
    <3>2. \A v \in Transports : opponent'[v] \in {opponent[v], p}
      BY <1>5
    <3>3. \A v \in Transports : Unheard(u) /\ self[u] # None => opponent'[v] # self[u]
      BY <3>1, <3>2 DEF Unheard
    <3>4. self[u] # None => self[u] # self[t]
      BY OwnerTypes DEF IInv
    <3>5. \A v \in Transports : \A m \in In(inbox'[v]) :
            m \in In(inbox[v]) \/ m.about = {self[t]}
      BY <1>4, <1>7
    <3>6. self[u] # p => In(inbox'[u]) \subseteq In(inbox[u])
      BY <1>7
    <3> QED  BY <3>1, <3>3, <3>4, <3>5, <3>6 DEF Hides
  <2> QED  BY <1>1, <1>5, <1>9, <1>10, <1>13, <2>1, <2>2, BystanderStep, PairedStays
<1>15. TransportFact(t)' /\ PairedFact(t)'
  <2>1. FetchFact(t)' /\ OfferFact(t)'
    BY <1>1, FactsOf DEF FetchFact, Fresh, OfferFact
  <2>2. MemberFact(t)'
    BY <1>1, <1>7, FactsOf DEF MemberFact
  <2>3. OrderFact(t)' /\ PairedFact(t)'
    BY <1>5, <1>7 DEF OrderFact, PairedFact, Answering, HasRole
  <2>4. UnheardFact(t)'
    <3>1. ~Rings(inbox'[t]) /\ ~Stale(t)'
      BY <1>2, <1>5, <1>7 DEF Stale
    <3> QED  BY <3>1 DEF UnheardFact
  <2>5. LinkFact(t)'
    BY <1>1, <1>9, <1>10, LinkStays DEF Passes
  <2>6. SocketFact(t)'
    <3>1. socket[t] => Escaped(t)
      BY FactsOf DEF SocketFact
    <3> QED  BY <1>1, <3>1 DEF SocketFact, Escaped
  <2>7. opponent'[t] \in 0..Len(owner')
    <3>1. p \in 0..Len(owner)
      BY <1>2, OwnerTypes DEF IInv
    <3> QED  BY <1>1, <1>5, <3>1
  <2> QED  BY <2>1, <2>2, <2>3, <2>4, <2>5, <2>6, <2>7 DEF TransportFact
<1> QED  BY <1>8, <1>9, <1>11, <1>12, <1>14, <1>15 DEF IInv


-----------------------------------------------------------------------------
(* An offer is taken: the peer has the SDP of a later peer of the          *)
(* opponent, and what was left of an earlier negotiation is over.          *)

LEMMA SdpOfferStep ==
  ASSUME IInv, NEW t \in Transports, NEW p \in Participant,
         IsNext(t, "SDP_OFFER", p), HasRole(t, "answer", p),
         createAnswer(t, Head(inbox[t]).data[1]), inbox' = Received(t),
         UNCHANGED <<fetching, ws, self, members, owner, working, state, opponent,
                     participants, role, crashed, lost, stopped>>
  PROVE  IInv'
<1>1. /\ inbox[t] # << >> /\ Head(inbox[t]) \in In(inbox[t]) /\ p \in Head(inbox[t]).about
      /\ Head(inbox[t]).type = "SDP_OFFER" /\ MessageFact(t, Head(inbox[t]))
      /\ p \in 1..Len(owner) /\ self[t] # None /\ inbox \in Queues /\ ~Rings(inbox[t])
      /\ working[t] = "working"
  BY HeadFacts, FactsOf DEF MessageFact, IsNext
<1>2. PICK i \in DOMAIN peers :
        /\ i = Head(inbox[t]).data[1] /\ i \in Nat /\ i # NoPeer
        /\ Refers(p, i) /\ Offered(t, p, i) /\ peers[i].offers /\ peers[i].awaited = "none"
  <2>1. /\ Refers(p, Head(inbox[t]).data[1]) /\ Offered(t, p, Head(inbox[t]).data[1])
        /\ peers[Head(inbox[t]).data[1]].offers /\ peers[Head(inbox[t]).data[1]].awaited = "none"
    BY <1>1 DEF MessageFact
  <2>2. Head(inbox[t]).data[1] \in DOMAIN peers
    BY <2>1 DEF Refers
  <2> QED  BY <2>1, <2>2, PeerTypes DEF IInv
<1>3. PICK k \in DOMAIN peers :
        /\ k = peer[t] /\ k # NoPeer /\ peers[k].of = t /\ peers[k].awaited = "none"
        /\ ~peers[k].closed /\ ~peers[k].offers
  <2>1. CanAnswer(t)
    BY DEF createAnswer
  <2>2. peer[t] \in DOMAIN peers /\ peers[peer[t]].of = t /\ peer[t] # NoPeer
    BY <2>1, PeerTypes DEF IInv, CanAnswer, InSig
  <2>3. ~peers[peer[t]].offers
    <3>1. ~Unheard(t)
      BY <1>1 DEF Unheard
    <3> QED  BY <2>2, <3>1, FactsOf DEF UnheardFact, Stale, HasRole
  <2> QED  BY <2>1, <2>2, <2>3 DEF CanAnswer, InSig
<1>4. Answering(t, p) /\ ~Joined(t) /\ peers[k].remote < i /\ peers[k].remote \in Nat
  <2>1. Answering(t, p)
    BY <1>3 DEF Answering
  <2>2. ~Joined(t)
    BY <1>1, <2>1, FactsOf DEF PairedFact
  <2>3. peers[k].remote < i /\ peers[k].remote \in Nat
    BY <1>1, <1>2, <1>3, <2>1, FactsOf, PeerTypes DEF OrderFact, IInv
  <2> QED  BY <2>1, <2>2, <2>3
<1>5. ASSUME NEW l \in DOMAIN peers, peers[l].remote = k
      PROVE  /\ peers[k].remote # l /\ peers[l].link = "sound" /\ peers[l].offers /\ l \in Nat
             /\ l # i /\ l <= i
  <2>1. PeerFact(l) /\ l \in Nat /\ l # NoPeer /\ peers[l].offers \in BOOLEAN
    BY PeerTypes DEF IInv, PeerInv
  <2>2. peers[k].remote # l
    BY <1>3, <1>4, <1>5, <2>1 DEF Joined
  <2>3. peers[l].offers /\ peers[l].link = "sound"
    BY <1>3, <1>5, <2>1, <2>2 DEF PeerFact
  <2>4. peers[k].remote >= l
    BY <1>3, <1>5, <2>1, <2>3 DEF PeerFact
  <2> QED  BY <1>2, <1>4, <2>1, <2>2, <2>3, <2>4
<1>6. peers[k].link = "sound" /\ i # k /\ peers[i].remote # k
  <2>1. peers[k].link = "sound"
    <3>1. PeerFact(k)
      BY DEF IInv, PeerInv
    <3> QED  BY <1>3, <1>4, <3>1 DEF PeerFact, Joined
  <2> QED  BY <1>2, <1>3, <1>5, <2>1
<1>7. PICK x \in Peer(Transports) :
        /\ peers' = [peers EXCEPT ![k] = x]
        /\ x.of = t /\ ~x.offers /\ x.sig = "stable" /\ x.remote = i /\ x.awaited = "answer"
        /\ ~x.closed /\ x.link = "sound" /\ x.channel = peers[k].channel
  <2>1. PICK y \in Peer(Transports) : y = peers[k]
    BY PeerTypes DEF IInv
  <2> DEFINE z == [y EXCEPT !.sig = "stable", !.remote = i, !.awaited = "answer"]
  <2>2. /\ z \in Peer(Transports) /\ z.of = y.of /\ z.offers = y.offers /\ z.sig = "stable"
        /\ z.remote = i /\ z.awaited = "answer" /\ z.closed = y.closed
        /\ z.link = y.link /\ z.channel = y.channel
    BY <1>2 DEF Peer
  <2>3. peers' = [peers EXCEPT ![k] = z]
    BY <1>2, <1>3, <2>1 DEF createAnswer
  <2> QED  BY <1>3, <1>6, <2>1, <2>2, <2>3
<1>8. /\ peers' \in Seq(Peer(Transports)) /\ Len(peers') = Len(peers)
      /\ DOMAIN peers' = DOMAIN peers
      /\ peers'[k] = x /\ \A l \in DOMAIN peers : l # k => peers'[l] = peers[l]
  BY <1>7, PeerUpdate
<1>9. /\ peer' = peer /\ sdpOffer' = sdpOffer /\ socket' = socket
      /\ turnServerConnectionSuccess' = turnServerConnectionSuccess
  BY DEF createAnswer
<1>10. \A l \in DOMAIN peers :
         /\ peers'[l].of = peers[l].of /\ peers'[l].offers = peers[l].offers
         /\ peers'[l].closed = peers[l].closed /\ peers'[l].link = peers[l].link
         /\ peers'[l].channel = peers[l].channel /\ (Out(l)' <=> Out(l))
  <2> SUFFICES ASSUME NEW l \in DOMAIN peers
        PROVE  /\ peers'[l].of = peers[l].of /\ peers'[l].offers = peers[l].offers
               /\ peers'[l].closed = peers[l].closed /\ peers'[l].link = peers[l].link
               /\ peers'[l].channel = peers[l].channel /\ (Out(l)' <=> Out(l))
    OBVIOUS
  <2>1. /\ peers'[l].of = peers[l].of /\ peers'[l].offers = peers[l].offers
        /\ peers'[l].closed = peers[l].closed /\ peers'[l].link = peers[l].link
        /\ peers'[l].channel = peers[l].channel
    <3>1. CASE l = k
      <4>1. /\ peers[k].offers \in BOOLEAN /\ peers[k].closed \in BOOLEAN
            /\ peers[k].link \in {"sound", "broken", "recovered"} /\ x.offers \in BOOLEAN
            /\ x.closed \in BOOLEAN /\ x.link \in {"sound", "broken", "recovered"}
        BY PeerTypes DEF IInv, Peer
      <4> QED  BY <1>3, <1>6, <1>7, <1>8, <3>1, <4>1
    <3>2. CASE l # k
      BY <1>8, <3>2
    <3> QED  BY <3>1, <3>2
  <2> QED  BY <1>9, <2>1 DEF Out
<1>11. SignalTypeOK' /\ InboxInv'
  BY <1>1, HeadFacts, QueueTypes, Types
<1>12. TypeOK' /\ FaultsInv'
  <2>1. WebRTCTypeOK(Transports)'
    <3>1. \A l \in DOMAIN peers' : peers'[l].remote \in 0..Len(peers')
      <4>1. i \in 0..Len(peers) /\ \A l \in DOMAIN peers : peers[l].remote \in 0..Len(peers)
        BY <1>2, PeerTypes DEF IInv
      <4> QED  BY <1>7, <1>8, <4>1
    <3>2. \A u \in Transports : peer[u] # NoPeer => peers'[peer[u]].of = u
      BY <1>10, PeerTypes DEF IInv
    <3> QED  BY <1>8, <1>9, <3>1, <3>2, Types DEF WebRTCTypeOK
  <2>2. WorkTypeOK'
    BY <1>9, Types DEF WorkTypeOK
  <2> QED  BY <1>11, <2>1, <2>2, TypesNext
<1>13. ASSUME NEW u \in Transports
       PROVE  /\ RingsFirst(inbox'[u]) /\ (Rings(inbox'[u]) <=> Rings(inbox[u]))
              /\ Sorted(inbox'[u]) /\ In(inbox'[u]) \subseteq In(inbox[u])
              /\ u = t => \A n \in In(inbox'[u]) : Earlier(Head(inbox[t]), n)
  <2>1. RingsFirst(inbox[u]) /\ Sorted(inbox[u])
    BY FactsOf DEF MemberFact, OrderFact
  <2> QED  BY <1>1, <2>1, ReceivedQueues
<1>14. PeersPass
  <2>1. ASSUME NEW l \in DOMAIN peers, Gone(l)
        PROVE  Gone(l)'
    <3>1. ASSUME NEW j \in DOMAIN peers, peers[l].remote = j, peers[j].remote # l,
                 ~Due(inbox[peers[j].of], l, j)
          PROVE  peers'[j].remote # l /\ ~Due(inbox'[peers'[j].of], l, j)
      <4>1. peers'[j].remote # l
        BY <1>5, <1>7, <1>8, <3>1
      <4>2. peers'[j].of = peers[j].of /\ peers[j].of \in Transports
        BY <1>10, PeerTypes DEF IInv
      <4>3. In(inbox'[peers[j].of]) \subseteq In(inbox[peers[j].of])
        BY <1>13, <4>2
      <4> QED  BY <3>1, <4>1, <4>2, <4>3 DEF Due
    <3>2. NoPeer \notin DOMAIN peers'
      BY <1>12, PeersNext
    <3>3. Out(l) => l # k
      BY <1>3 DEF Out
    <3> QED  BY <1>8, <1>10, <2>1, <3>1, <3>2, <3>3, GoneStays DEF IInv
  <2>2. \A l \in DOMAIN peers : peers[l].remote <= peers[l].remote
    BY PeerTypes DEF IInv
  <2>3. Len(peers) <= Len(peers')
    BY <1>8, PeerTypes DEF IInv
  <2>4. ASSUME NEW l \in DOMAIN peers
        PROVE  /\ peers[l].sig = "stable" => peers'[l].sig = "stable"
               /\ peers[l].offers /\ peers[l].awaited = "none" => peers'[l].awaited = "none"
               /\ ~peers[l].offers =>
                    /\ peers[l].remote <= peers'[l].remote
                    /\ peers'[l].awaited = "answer" =>
                         peers[l].awaited = "answer" \/ peers[l].remote < peers'[l].remote
    <3>1. CASE l = k
      BY <1>2, <1>3, <1>4, <1>7, <1>8, <3>1
    <3>2. CASE l # k
      BY <1>8, <2>2, <3>2
    <3> QED  BY <3>1, <3>2
  <2> QED  BY <1>10, <2>1, <2>3, <2>4 DEF PeersPass
<1>15. Passes
  BY <1>9, <1>14, SameOwners, SameOffers DEF Passes, IInv
<1>16. PeerInv'
  <2> SUFFICES ASSUME NEW l \in DOMAIN peers PROVE PeerFact(l)'
    BY <1>8 DEF PeerInv
  <2>1. CASE l = k
    <3>1. peers'[i] = peers[i] /\ i # NoPeer
      BY <1>2, <1>6, <1>8
    <3> QED  BY <1>2, <1>6, <1>7, <1>8, <2>1, <3>1 DEF PeerFact
  <2>2. CASE l # k
    <3>1. PeerFact(l) /\ peers'[l] = peers[l] /\ peers[l].remote \in 0..Len(peers)
          /\ DOMAIN peers = 1..Len(peers)
      BY <1>8, <2>2, PeerTypes DEF IInv, PeerInv
    <3>2. CASE peers[l].remote = k
      BY <1>5, <1>7, <1>8, <1>9, <3>1, <3>2 DEF PeerFact
    <3>3. CASE peers[l].remote # k
      <4>1. peers[l].remote # NoPeer => peers'[peers[l].remote] = peers[peers[l].remote]
        BY <1>8, <3>1, <3>3
      <4> QED  BY <1>9, <3>1, <4>1 DEF PeerFact
    <3> QED  BY <3>2, <3>3
  <2> QED  BY <2>1, <2>2
<1>17. ForgottenInv'
  BY <1>8, <1>10, <1>12, <1>14, ForgottenStays
<1>18. MessageInv'
  BY <1>12, <1>13, <1>15, MessageStep
<1>19. ASSUME NEW u \in Transports \ {t} PROVE TransportFact(u)' /\ PairedFact(u)'
  <2>1. peer[u] # NoPeer => peer[u] \in DOMAIN peers /\ peers'[peer[u]] = peers[peer[u]]
    BY <1>3, <1>8, PeerTypes DEF IInv
  <2>2. Keeps(u)
    <3>1. \A l \in DOMAIN peers : peers[l].of = u => peers'[l] = peers[l]
      BY <1>3, <1>8
    <3> QED  BY <1>8, <1>9, <2>1, <3>1 DEF Keeps, KeepsPeer
  <2>3. Gets(u)
    BY <1>13 DEF Gets
  <2>4. Hides(u)
    <3>1. \A v \in Transports : Unheard(u) /\ self[u] # None => opponent'[v] # self[u]
      BY DEF Unheard
    <3>2. \A v \in Transports : \A m \in In(inbox'[v]) : m \in In(inbox[v])
      BY <1>13
    <3> QED  BY <3>1, <3>2 DEF Hides
  <2>5. Joined(u)' => Joined(u)
    <3>1. SUFFICES ASSUME Joined(u)' PROVE Joined(u)
      OBVIOUS
    <3>2. PICK m \in DOMAIN peers :
            /\ m = peer[u] /\ peers'[m] = peers[m] /\ m # NoPeer
            /\ ~peers[m].closed /\ peers[m].remote # NoPeer
            /\ peers'[peers[m].remote].remote = m
      BY <1>9, <2>1, <3>1 DEF Joined
    <3>3. peers[m].remote # k
      BY <1>5, <1>7, <1>8, <3>2
    <3>4. peers[m].remote \in DOMAIN peers
      BY <3>2, PeerTypes DEF IInv
    <3> QED  BY <1>8, <3>2, <3>3, <3>4 DEF Joined
  <2> QED  BY <1>9, <1>12, <1>15, <2>1, <2>2, <2>3, <2>4, <2>5, BystanderStep, PairedStays
<1>20. TransportFact(t)' /\ PairedFact(t)'
  <2>1. FetchFact(t)'
    <3>1. Fresh(t)' => Fresh(t)
      BY <1>8, <1>10 DEF Fresh
    <3> QED  BY <1>9, <3>1, FactsOf DEF FetchFact
  <2>2. MemberFact(t)'
    BY <1>3, <1>9, <1>10, <1>13, FactsOf DEF MemberFact
  <2>3. OfferFact(t)'
    <3>1. sdpOffer[t] # NoPeer => sdpOffer[t] \in DOMAIN peers
      BY PeerTypes DEF IInv
    <3>2. sdpOffer[t] # NoPeer => sdpOffer[t] # k
      BY <1>3, FactsOf DEF OfferFact
    <3> QED  BY <1>3, <1>8, <1>9, <1>10, <3>1, <3>2, FactsOf DEF OfferFact
  <2>4. OrderFact(t)'
    <3>1. Offered(t, p, i)'
      BY <1>1, <1>2, <1>12, <1>15, OfferedStays DEF IInv
    <3>2. peers'[peer'[t]].remote = i
      BY <1>3, <1>7, <1>8, <1>9
    <3>3. ASSUME NEW n \in In(inbox'[t]), n.type = "SDP_OFFER", p \in n.about
          PROVE  i < n.data[1]
      <4>1. Earlier(Head(inbox[t]), n)
        BY <1>13
      <4> QED  BY <1>1, <1>2, <3>3, <4>1 DEF Earlier
    <3>4. \A q : Answering(t, q)' => q = p
      BY DEF Answering, HasRole
    <3>5. Offered(t, p, peers[peer[t]].remote)'
      BY <3>1, <3>2 DEF Offered
    <3> QED  BY <1>13, <3>2, <3>3, <3>4, <3>5 DEF OrderFact
  <2>5. UnheardFact(t)'
    <3>1. ~Rings(inbox'[t]) /\ ~Stale(t)'
      BY <1>1, <1>3, <1>9, <1>10, <1>13 DEF Stale
    <3> QED  BY <3>1 DEF UnheardFact
  <2>6. LinkFact(t)'
    <3>1. Refers(p, i)'
      BY <1>2, <1>12, <1>15, RefersStays DEF Passes, IInv
    <3>2. state'[t] = "CONNECTED" /\ opponent'[t] = p
      BY DEF HasRole
    <3>3. peers'[peer'[t]].remote = i
      BY <1>3, <1>7, <1>8, <1>9
    <3>4. Refers(opponent[t], peers[peer[t]].remote)'
      BY <3>1, <3>2, <3>3 DEF Refers
    <3> QED  BY <3>2, <3>4 DEF LinkFact
  <2>7. SocketFact(t)'
    <3>1. CanSend(t) => CanSend(t)'
      BY <1>3, <1>9, <1>10 DEF CanSend
    <3>2. Escaped(t) => Escaped(t)'
      BY <1>8, <1>10, EscapedStays
    <3> QED  BY <1>9, <3>1, <3>2, FactsOf DEF SocketFact
  <2>8. PairedFact(t)'
    <3>1. ~Joined(t)'
      BY <1>3, <1>6, <1>7, <1>8, <1>9 DEF Joined
    <3> QED  BY <3>1 DEF PairedFact
  <2>9. opponent'[t] \in 0..Len(owner')
    BY FactsOf
  <2> QED  BY <2>1, <2>2, <2>3, <2>4, <2>5, <2>6, <2>7, <2>8, <2>9 DEF TransportFact
<1> QED  BY <1>11, <1>12, <1>16, <1>17, <1>18, <1>19, <1>20 DEF IInv


-----------------------------------------------------------------------------
(* An answer is taken.  Now two peers may have each other's SDP: the one   *)
(* that answers is then still answering the participant of the other.      *)

LEMMA SdpAnswerStep ==
  ASSUME IInv, NEW t \in Transports, NEW p \in Participant,
         IsNext(t, "SDP_ANSWER", p), HasRole(t, "offer", p),
         setAnswer(t, Head(inbox[t]).data[1], Head(inbox[t]).data[2]), inbox' = Received(t),
         UNCHANGED <<fetching, ws, self, members, owner, working, state, opponent,
                     participants, role, crashed, lost, stopped>>
  PROVE  IInv'
<1>1. /\ inbox[t] # << >> /\ Head(inbox[t]) \in In(inbox[t]) /\ p \in Head(inbox[t]).about
      /\ Head(inbox[t]).type = "SDP_ANSWER" /\ MessageFact(t, Head(inbox[t]))
      /\ p \in 1..Len(owner) /\ self[t] # None /\ inbox \in Queues /\ ~Rings(inbox[t])
      /\ working[t] = "working"
  BY HeadFacts, FactsOf DEF MessageFact, IsNext
<1>2. PICK d \in Nat, j \in DOMAIN peers :
        /\ d = Head(inbox[t]).data[1] /\ j = Head(inbox[t]).data[2] /\ j # NoPeer
        /\ Refers(p, j) /\ ~peers[j].offers /\ peers[j].sig = "stable"
        /\ d \in 1..peers[j].remote
        /\ peers[j].awaited = "answer" => d < peers[j].remote
        /\ peers[d].offers /\ peers[d].awaited = "none"
  <2> DEFINE n == Head(inbox[t])
  <2>1. /\ n.data[1] \in 0..Len(peers) /\ Refers(p, n.data[2])
        /\ ~peers[n.data[2]].offers /\ peers[n.data[2]].sig = "stable"
        /\ n.data[1] \in 1..peers[n.data[2]].remote
        /\ peers[n.data[2]].awaited = "answer" => n.data[1] < peers[n.data[2]].remote
        /\ peers[n.data[1]].offers /\ peers[n.data[1]].awaited = "none"
    BY <1>1 DEF MessageFact
  <2>2. n.data[2] \in DOMAIN peers
    BY <2>1 DEF Refers
  <2>3. DOMAIN peers = 1..Len(peers) /\ Len(peers) \in Nat
    BY PeerTypes DEF IInv
  <2>4. n.data[1] \in Nat /\ n.data[2] # NoPeer
    BY <2>1, <2>2, <2>3
  <2> HIDE DEF n
  <2>5. \E d \in Nat, j \in DOMAIN peers :
        /\ d = n.data[1] /\ j = n.data[2] /\ j # NoPeer
        /\ Refers(p, j) /\ ~peers[j].offers /\ peers[j].sig = "stable"
        /\ d \in 1..peers[j].remote
        /\ peers[j].awaited = "answer" => d < peers[j].remote
        /\ peers[d].offers /\ peers[d].awaited = "none"
    BY <2>1, <2>2, <2>4
  <2> QED  BY <2>5 DEF n
<1>3. PICK k \in DOMAIN peers :
        /\ k = peer[t] /\ k # NoPeer /\ k \in Nat /\ peers[k].of = t /\ ~peers[k].closed
        /\ peers[k].sig = "offer" /\ peers[k].offers /\ peers[k].remote = NoPeer
        /\ peers[k].link = "sound" /\ ~Gone(k)
  <2>1. InSig(t, "offer")
    BY DEF setAnswer
  <2>2. PICK k \in DOMAIN peers :
          /\ k = peer[t] /\ k # NoPeer /\ k \in Nat /\ peers[k].of = t /\ ~peers[k].closed
          /\ peers[k].sig = "offer"
    BY <2>1, PeerTypes DEF IInv, InSig
  <2>3. PeerFact(k) /\ peers[k].offers \in BOOLEAN
    BY PeerTypes DEF IInv, PeerInv
  <2>4. peers[k].offers /\ peers[k].remote = NoPeer /\ peers[k].link = "sound"
    BY <2>2, <2>3 DEF PeerFact
  <2> QED  BY <2>2, <2>4 DEF Gone, Out
<1>4. PICK r \in 0..Len(peers) :
        /\ r = IF d = k THEN j ELSE NoPeer
        /\ r # NoPeer =>
             /\ d = k /\ r = j /\ j # k /\ peers[k].awaited = "none"
             /\ peers[j].remote >= k /\ peers[j].remote \in Nat
             /\ peers[j].awaited = "answer" => k < peers[j].remote
  <2>1. j \in 0..Len(peers) /\ NoPeer \in 0..Len(peers) /\ peers[j].remote \in Nat
    BY PeerTypes DEF IInv
  <2> QED  BY <1>2, <1>3, <2>1
<1>5. PICK x \in Peer(Transports) :
        /\ peers' = [peers EXCEPT ![k] = x]
        /\ x.of = t /\ x.offers = peers[k].offers /\ x.sig = "stable" /\ x.remote = r
        /\ x.awaited = peers[k].awaited /\ x.closed = peers[k].closed
        /\ x.link = peers[k].link /\ x.channel = peers[k].channel
  <2>1. PICK y \in Peer(Transports) : y = peers[k]
    BY PeerTypes DEF IInv
  <2> DEFINE z == [y EXCEPT !.sig = "stable", !.remote = r]
  <2>2. /\ z \in Peer(Transports) /\ z.of = y.of /\ z.offers = y.offers /\ z.sig = "stable"
        /\ z.remote = r /\ z.awaited = y.awaited /\ z.closed = y.closed
        /\ z.link = y.link /\ z.channel = y.channel
    <3>1. r \in Nat
      BY <1>4, PeerTypes DEF IInv
    <3> QED  BY <3>1 DEF Peer
  <2>3. peers' = [peers EXCEPT ![k] = z]
    <3>1. peers' = [peers EXCEPT ![k].sig = "stable", ![k].remote = r]
      BY <1>2, <1>3, <1>4 DEF setAnswer
    <3> QED  BY <2>1, <3>1
  <2> QED  BY <1>3, <2>1, <2>2, <2>3
<1>6. /\ peers' \in Seq(Peer(Transports)) /\ Len(peers') = Len(peers)
      /\ DOMAIN peers' = DOMAIN peers
      /\ peers'[k] = x /\ \A l \in DOMAIN peers : l # k => peers'[l] = peers[l]
  BY <1>5, PeerUpdate
<1>7. /\ peer' = peer /\ sdpOffer' = sdpOffer /\ socket' = socket
      /\ turnServerConnectionSuccess' = turnServerConnectionSuccess
  BY DEF setAnswer
<1>8. \A l \in DOMAIN peers :
        /\ peers'[l].of = peers[l].of /\ peers'[l].offers = peers[l].offers
        /\ peers'[l].awaited = peers[l].awaited
        /\ peers'[l].closed = peers[l].closed /\ peers'[l].link = peers[l].link
        /\ peers'[l].channel = peers[l].channel /\ (Out(l)' <=> Out(l))
  <2> SUFFICES ASSUME NEW l \in DOMAIN peers
        PROVE  /\ peers'[l].of = peers[l].of /\ peers'[l].offers = peers[l].offers
               /\ peers'[l].awaited = peers[l].awaited
               /\ peers'[l].closed = peers[l].closed /\ peers'[l].link = peers[l].link
               /\ peers'[l].channel = peers[l].channel /\ (Out(l)' <=> Out(l))
    OBVIOUS
  <2>1. CASE l = k
    BY <1>3, <1>5, <1>6, <1>7, <2>1 DEF Out
  <2>2. CASE l # k
    BY <1>6, <1>7, <2>2 DEF Out
  <2> QED  BY <2>1, <2>2
<1>9. SignalTypeOK' /\ InboxInv'
  BY <1>1, HeadFacts, QueueTypes, Types
<1>10. TypeOK' /\ FaultsInv'
  <2>1. WebRTCTypeOK(Transports)'
    <3>1. \A l \in DOMAIN peers' : peers'[l].remote \in 0..Len(peers')
      <4>1. \A l \in DOMAIN peers : peers[l].remote \in 0..Len(peers)
        BY PeerTypes DEF IInv
      <4> QED  BY <1>5, <1>6, <4>1
    <3>2. \A u \in Transports : peer[u] # NoPeer => peers'[peer[u]].of = u
      BY <1>8, PeerTypes DEF IInv
    <3> QED  BY <1>6, <1>7, <3>1, <3>2, Types DEF WebRTCTypeOK
  <2>2. WorkTypeOK'
    BY <1>7, Types DEF WorkTypeOK
  <2> QED  BY <1>9, <2>1, <2>2, TypesNext
<1>11. ASSUME NEW u \in Transports
       PROVE  /\ RingsFirst(inbox'[u]) /\ (Rings(inbox'[u]) <=> Rings(inbox[u]))
              /\ Sorted(inbox'[u]) /\ In(inbox'[u]) \subseteq In(inbox[u])
  <2>1. RingsFirst(inbox[u]) /\ Sorted(inbox[u])
    BY FactsOf DEF MemberFact, OrderFact
  <2> QED  BY <1>1, <2>1, ReceivedQueues
<1>12. PeersPass
  <2>1. ASSUME NEW l \in DOMAIN peers, Gone(l)
        PROVE  Gone(l)'
    <3>1. ASSUME NEW m \in DOMAIN peers, peers[m].remote # l, ~Due(inbox[peers[m].of], l, m)
          PROVE  peers'[m].remote # l /\ ~Due(inbox'[peers'[m].of], l, m)
      <4>1. peers'[m].remote # l
        <5>1. CASE m = k
          <6>1. SUFFICES ASSUME r = l PROVE FALSE
            BY <1>5, <1>6, <5>1
          <6>2. r # NoPeer
            BY <6>1, PeerTypes DEF IInv
          <6>3. d = k /\ j = l
            BY <1>4, <6>1, <6>2
          <6> QED  BY <1>1, <1>2, <1>3, <3>1, <5>1, <6>3 DEF Due
        <5>2. CASE m # k
          BY <1>6, <3>1, <5>2
        <5> QED  BY <5>1, <5>2
      <4>2. peers'[m].of = peers[m].of /\ peers[m].of \in Transports
        BY <1>8, PeerTypes DEF IInv
      <4>3. In(inbox'[peers[m].of]) \subseteq In(inbox[peers[m].of])
        BY <1>11, <4>2
      <4> QED  BY <3>1, <4>1, <4>2, <4>3 DEF Due
    <3>2. NoPeer \notin DOMAIN peers'
      BY <1>10, PeersNext
    <3>3. Out(l) => l # k
      BY <1>3 DEF Out
    <3> QED  BY <1>6, <1>8, <2>1, <3>1, <3>2, <3>3, GoneStays DEF IInv
  <2>2. \A l \in DOMAIN peers : peers[l].remote <= peers[l].remote
    BY PeerTypes DEF IInv
  <2>3. Len(peers) <= Len(peers')
    BY <1>6, PeerTypes DEF IInv
  <2>4. ASSUME NEW l \in DOMAIN peers
        PROVE  /\ peers[l].sig = "stable" => peers'[l].sig = "stable"
               /\ peers[l].offers /\ peers[l].awaited = "none" => peers'[l].awaited = "none"
               /\ ~peers[l].offers =>
                    /\ peers[l].remote <= peers'[l].remote
                    /\ peers'[l].awaited = "answer" =>
                         peers[l].awaited = "answer" \/ peers[l].remote < peers'[l].remote
    <3>1. CASE l = k
      BY <1>3, <1>5, <1>6, <3>1
    <3>2. CASE l # k
      BY <1>6, <2>2, <3>2
    <3> QED  BY <3>1, <3>2
  <2> QED  BY <1>8, <2>1, <2>3, <2>4 DEF PeersPass
<1>13. Passes
  BY <1>7, <1>12, SameOwners, SameOffers DEF Passes, IInv
<1>14. PeerInv'
  <2> SUFFICES ASSUME NEW l \in DOMAIN peers PROVE PeerFact(l)'
    BY <1>6 DEF PeerInv
  <2>1. PeerFact(l) /\ peers[l].remote \in 0..Len(peers) /\ DOMAIN peers = 1..Len(peers)
    BY PeerTypes DEF IInv, PeerInv
  <2>2. CASE l = k
    <3>1. r # NoPeer => peers'[r] = peers[r] /\ ~peers[r].offers /\ peers[r].sig = "stable"
      BY <1>2, <1>4, <1>6
    <3>2. /\ peers'[k] = x /\ x.offers /\ x.sig = "stable" /\ x.remote = r /\ x.link = "sound"
          /\ x.awaited = peers[k].awaited /\ x.closed = peers[k].closed /\ x.of = t
      BY <1>3, <1>5, <1>6
    <3>3. peers[k].awaited # "answer" /\ (peers[k].awaited = "offer" => sdpOffer[t] < k)
      BY <1>3, <2>1, <2>2 DEF PeerFact
    <3>4. r # NoPeer =>
            /\ ~peers'[r].offers /\ peers'[r].sig = "stable" /\ peers'[r].remote >= k
            /\ x.awaited = "none"
      BY <1>4, <3>1, <3>2
    <3>5. x.awaited = "offer" => r = NoPeer
      BY <3>4
    <3> QED  BY <1>7, <2>2, <3>2, <3>3, <3>4, <3>5 DEF PeerFact
  <2>3. CASE l # k
    <3>1. peers'[l] = peers[l]
      BY <1>6, <2>3
    <3>2. CASE peers[l].remote = k
      <4>1. l # NoPeer /\ peers[l].link = "sound" /\ ~peers[l].offers
        BY <1>3, <2>1, <3>2 DEF PeerFact
      <4>2. peers[l].awaited = "answer" => r # l
        BY <1>4, <3>2, <4>1
      <4>3. /\ peers'[k].offers /\ peers'[k].remote = r
            /\ peers'[k].awaited = peers[k].awaited
        BY <1>3, <1>5, <1>6
      <4>4. peers[k].awaited = "none" /\ peers[l].sig = "stable" /\ peers[l].awaited # "offer"
        BY <1>3, <2>1, <3>2, <4>1 DEF PeerFact
      <4> QED  BY <1>3, <3>1, <3>2, <4>1, <4>2, <4>3, <4>4 DEF PeerFact
    <3>3. CASE peers[l].remote # k
      <4>1. peers[l].remote # NoPeer => peers'[peers[l].remote] = peers[peers[l].remote]
        BY <1>6, <2>1, <3>3
      <4> QED  BY <1>7, <2>1, <3>1, <4>1 DEF PeerFact
    <3> QED  BY <3>2, <3>3
  <2> QED  BY <2>2, <2>3
<1>15. ForgottenInv'
  BY <1>6, <1>8, <1>10, <1>12, ForgottenStays
<1>16. MessageInv'
  BY <1>10, <1>11, <1>13, MessageStep
<1>17. ASSUME NEW u \in Transports \ {t} PROVE TransportFact(u)' /\ PairedFact(u)'
  <2>1. peer[u] # NoPeer => peer[u] \in DOMAIN peers /\ peers'[peer[u]] = peers[peer[u]]
    BY <1>3, <1>6, PeerTypes DEF IInv
  <2>2. Keeps(u)
    <3>1. \A l \in DOMAIN peers : peers[l].of = u => peers'[l] = peers[l]
      BY <1>3, <1>6
    <3> QED  BY <1>6, <1>7, <2>1, <3>1 DEF Keeps, KeepsPeer
  <2>3. Gets(u)
    BY <1>11 DEF Gets
  <2>4. Hides(u)
    <3>1. \A v \in Transports : Unheard(u) /\ self[u] # None => opponent'[v] # self[u]
      BY DEF Unheard
    <3>2. \A v \in Transports : \A m \in In(inbox'[v]) : m \in In(inbox[v])
      BY <1>11
    <3> QED  BY <3>1, <3>2 DEF Hides
  <2>5. TransportFact(u)'
    BY <1>10, <1>13, <2>2, <2>3, <2>4, BystanderStep
  <2>6. CASE Joined(u)' => Joined(u)
    <3>1. /\ peer' = peer /\ state'[u] = state[u] /\ role'[u] = role[u]
          /\ opponent'[u] = opponent[u]
          /\ peer[u] # NoPeer => peers'[peer[u]].remote = peers[peer[u]].remote
      BY <1>7, <2>1
    <3> QED  BY <1>10, <1>13, <2>3, <2>5, <2>6, <3>1, PairedStays
  <2>7. CASE Joined(u)' /\ ~Joined(u)
    <3>1. PICK m \in DOMAIN peers :
            /\ m = peer[u] /\ peers'[m] = peers[m] /\ m # NoPeer
            /\ peers[m].remote # NoPeer /\ peers'[peers[m].remote].remote = m
      BY <1>7, <2>1, <2>7 DEF Joined
    <3>2. peers[m].remote = k
      <4>1. peers[m].remote \in DOMAIN peers
        BY <3>1, PeerTypes DEF IInv
      <4> QED  BY <1>6, <1>7, <2>1, <2>7, <3>1, <4>1 DEF Joined
    <3>3. r = m
      BY <1>5, <1>6, <3>1, <3>2
    <3>4. peers[k].awaited = "none" /\ sdpOffer[t] = k
      BY <1>3, <1>4, <3>1, <3>3, FactsOf DEF OfferFact
    <3> SUFFICES ASSUME NEW q \in 1..Len(owner), Answering(u, q)
                 PROVE  /\ \A n \in In(inbox[u]) : n.type = "SDP_OFFER" => q \notin n.about
                        /\ peer[owner[q]] = k
      <4>1. \A q : Answering(u, q)' => Answering(u, q)
        BY <1>7, <2>1, <3>1 DEF Answering, HasRole
      <4>2. peers'[peer'[u]].remote = k
        BY <1>7, <3>1, <3>2
      <4>3. In(inbox'[u]) \subseteq In(inbox[u])
        BY <1>11
      <4>4. ASSUME NEW q \in 1..Len(owner'), Answering(u, q)'
            PROVE  /\ \A n \in In(inbox'[u]) : n.type = "SDP_OFFER" => q \notin n.about
                   /\ ~HasLeft(q)' => peer'[owner'[q]] = peers'[peer'[u]].remote
        <5>1. q \in 1..Len(owner) /\ Answering(u, q)
          BY <4>1, <4>4
        <5> QED  BY <1>7, <4>2, <4>3, <5>1
      <4> QED  BY <2>5, <4>4 DEF PairedFact
    <3>5. Refers(q, k)
      <4>1. LinkFact(u) /\ opponent[u] = q
        BY FactsOf DEF Answering, HasRole
      <4> QED  BY <1>3, <3>1, <3>2, <4>1 DEF LinkFact
    <3>6. owner[q] = t /\ ~HasLeft(q)
      BY <1>3, <3>5 DEF Refers
    <3>7. ASSUME NEW n \in In(inbox[u]), n.type = "SDP_OFFER", q \in n.about
          PROVE  FALSE
      <4>1. Offered(u, q, n.data[1]) /\ n.data[1] \in Nat
        <5>1. MessageFact(u, n)
          BY DEF IInv, MessageInv
        <5> QED  BY <3>7, <5>1, PeerTypes DEF MessageFact, IInv
      <4>2. n.data[1] <= k
        BY <3>4, <3>6, <4>1 DEF Offered
      <4>3. k < n.data[1]
        BY <3>1, <3>2, <3>7, FactsOf DEF OrderFact
      <4> QED  BY <1>3, <4>1, <4>2, <4>3
    <3> QED  BY <1>3, <3>6, <3>7
  <2> QED  BY <2>5, <2>6, <2>7
<1>18. TransportFact(t)' /\ PairedFact(t)'
  <2>1. FetchFact(t)'
    <3>1. Fresh(t)' => Fresh(t)
      BY <1>6, <1>8 DEF Fresh
    <3> QED  BY <1>7, <3>1, FactsOf DEF FetchFact
  <2>2. MemberFact(t)'
    BY <1>3, <1>7, <1>8, <1>11, FactsOf DEF MemberFact
  <2>3. OfferFact(t)'
    <3>1. sdpOffer[t] # NoPeer => sdpOffer[t] \in DOMAIN peers
      BY PeerTypes DEF IInv
    <3> QED  BY <1>3, <1>7, <1>8, <3>1, FactsOf DEF OfferFact
  <2>4. OrderFact(t)' /\ PairedFact(t)'
    BY <1>11 DEF OrderFact, PairedFact, Answering, HasRole
  <2>5. UnheardFact(t)'
    <3>1. ~Rings(inbox'[t]) /\ ~Stale(t)'
      BY <1>1, <1>11 DEF Stale, HasRole
    <3> QED  BY <3>1 DEF UnheardFact
  <2>6. LinkFact(t)'
    <3>1. Refers(p, j)'
      BY <1>2, <1>10, <1>13, RefersStays DEF Passes, IInv
    <3>2. state'[t] = "CONNECTED" /\ opponent'[t] = p
      BY DEF HasRole
    <3>3. peers'[peer'[t]].remote = r
      BY <1>3, <1>5, <1>6, <1>7
    <3>4. r # NoPeer => Refers(opponent[t], peers[peer[t]].remote)'
      BY <1>4, <3>1, <3>2, <3>3 DEF Refers
    <3> QED  BY <3>2, <3>3, <3>4 DEF LinkFact
  <2>7. SocketFact(t)'
    <3>1. CanSend(t) => CanSend(t)'
      BY <1>3, <1>7, <1>8 DEF CanSend
    <3>2. Escaped(t) => Escaped(t)'
      BY <1>6, <1>8, EscapedStays
    <3> QED  BY <1>7, <3>1, <3>2, FactsOf DEF SocketFact
  <2>8. opponent'[t] \in 0..Len(owner')
    BY FactsOf
  <2> QED  BY <2>1, <2>2, <2>3, <2>4, <2>5, <2>6, <2>7, <2>8 DEF TransportFact
<1> QED  BY <1>9, <1>10, <1>14, <1>15, <1>16, <1>17, <1>18 DEF IInv


-----------------------------------------------------------------------------
(* All steps.                                                              *)

(* An offer or an answer that the peer rejects ends the process.           *)
LEMMA RejectedStep ==
  ASSUME IInv, NEW t \in Transports, inbox[t] # << >>,
         Head(inbox[t]).type \in MessageType,
         Crashes(t), inbox' = Received(t),
         UNCHANGED <<fetching, ws, self, members, owner, webRTCVars, working, peerVars,
                     lost, stopped>>
  PROVE  IInv'
<1>1. participants' \in [Transports -> SUBSET Participant]
  BY Types DEF WorkTypeOK, peerVars
<1>2. Head(inbox[t]).type # "connection"
  BY DEF MessageType
<1> QED  BY <1>1, <1>2, ReceiveStep DEF Crashes, peerVars

LEMMA NotificationStep ==
  ASSUME IInv, NEW t \in Transports, handleVkWebSocketSignalServerOnNotification(t)
  PROVE  IInv'
<1>0. UNCHANGED <<fetching, ws, self, members, owner, lost, stopped>>
  BY DEF handleVkWebSocketSignalServerOnNotification
<1>1. CASE handleVkWebSocketSignalServerOnReady(t)
  BY <1>0, <1>1, ReadyStep
<1>2. ASSUME NEW p \in Participant, working' = working,
             \/ OnRegisteredPeer(t, p) \/ OnHungup(t, p)
             \/ OnConnectMessage(t, p) \/ OnAcceptMessage(t, p)
             \/ OnSdpOffer(t, p) \/ OnSdpAnswer(t, p)
      PROVE  IInv'
  <2>0. {"CONNECT", "ACCEPT", "SDP_OFFER", "SDP_ANSWER"} \subseteq MessageType
    BY DEF MessageType
  <2>1. ASSUME NEW type \in MessageType, IsNext(t, type, p), Ignores(t)
        PROVE  IInv'
    BY <1>0, <1>2, <2>1, IgnoringSteps
  <2>2. CASE OnRegisteredPeer(t, p)
    BY <1>0, <1>2, <2>2, IgnoringSteps
  <2>3. CASE OnHungup(t, p)
    <3>1. IsNext(t, "hungup", p)
      BY <2>3 DEF OnHungup
    <3> QED  BY <1>0, <1>2, <2>3, <3>1, IgnoringSteps, HungupNotice
  <2>4. CASE OnConnectMessage(t, p)
    <3>1. CASE state[t] = "CONNECTING" /\ setStateConnected(t, p, TRUE)
      BY <1>0, <1>2, <2>4, <3>1, ConnectStep DEF OnConnectMessage
    <3>2. CASE Ignores(t)
      BY <2>0, <2>1, <2>4, <3>2 DEF OnConnectMessage
    <3> QED  BY <2>4, <3>1, <3>2 DEF OnConnectMessage
  <2>5. CASE OnAcceptMessage(t, p)
    <3>1. CASE state[t] = "CONNECTING" /\ setStateConnected(t, p, FALSE)
      BY <1>0, <1>2, <2>5, <3>1, AcceptStep DEF OnAcceptMessage
    <3>2. CASE Ignores(t)
      BY <2>0, <2>1, <2>5, <3>2 DEF OnAcceptMessage
    <3> QED  BY <2>5, <3>1, <3>2 DEF OnAcceptMessage
  <2>6. CASE OnSdpOffer(t, p)
    <3>1. IsNext(t, "SDP_OFFER", p)
      BY <2>6 DEF OnSdpOffer
    <3>2. CASE Ignores(t)
      BY <2>0, <2>1, <3>1, <3>2
    <3>3. CASE ~Ignores(t)
      <4>1. /\ HasRole(t, "answer", p) /\ inbox' = Received(t) /\ UNCHANGED peerVars
            /\ \/ createAnswer(t, Head(inbox[t]).data[1]) /\ UNCHANGED crashed
               \/ Crashes(t) /\ UNCHANGED webRTCVars
        BY <2>6, <3>3 DEF OnSdpOffer
      <4>2. CASE createAnswer(t, Head(inbox[t]).data[1]) /\ UNCHANGED crashed
        BY <1>0, <1>2, <3>1, <4>1, <4>2, SdpOfferStep DEF peerVars
      <4>3. CASE Crashes(t) /\ UNCHANGED webRTCVars
        BY <1>0, <1>2, <2>0, <3>1, <4>1, <4>3, RejectedStep DEF IsNext
      <4> QED  BY <4>1, <4>2, <4>3
    <3> QED  BY <3>2, <3>3
  <2>7. CASE OnSdpAnswer(t, p)
    <3>1. IsNext(t, "SDP_ANSWER", p)
      BY <2>7 DEF OnSdpAnswer
    <3>2. CASE Ignores(t)
      BY <2>0, <2>1, <3>1, <3>2
    <3>3. CASE ~Ignores(t)
      <4>1. /\ HasRole(t, "offer", p) /\ inbox' = Received(t) /\ UNCHANGED peerVars
            /\ \/ /\ setAnswer(t, Head(inbox[t]).data[1], Head(inbox[t]).data[2])
                  /\ UNCHANGED crashed
               \/ Crashes(t) /\ UNCHANGED webRTCVars
        BY <2>7, <3>3 DEF OnSdpAnswer
      <4>2. CASE /\ setAnswer(t, Head(inbox[t]).data[1], Head(inbox[t]).data[2])
                 /\ UNCHANGED crashed
        BY <1>0, <1>2, <3>1, <4>1, <4>2, SdpAnswerStep DEF peerVars
      <4>3. CASE Crashes(t) /\ UNCHANGED webRTCVars
        BY <1>0, <1>2, <2>0, <3>1, <4>1, <4>3, RejectedStep DEF IsNext
      <4> QED  BY <4>1, <4>2, <4>3
    <3> QED  BY <3>2, <3>3
  <2> QED  BY <1>2, <2>2, <2>3, <2>4, <2>5, <2>6, <2>7
<1> QED  BY <1>1, <1>2 DEF handleVkWebSocketSignalServerOnNotification

LEMMA StutteringStep ==
  ASSUME IInv, UNCHANGED vars
  PROVE  IInv'
<1>1. /\ UNCHANGED quietVars /\ UNCHANGED <<ws, fetching, members, working, participants>>
      /\ UNCHANGED <<crashed, lost, stopped, turnServerConnectionSuccess>>
  BY DEF vars, quietVars, signalVars, webRTCVars, peerVars, faultVars
<1>2. TypeOK' /\ FaultsInv' /\ InboxInv'
  <2>1. SignalTypeOK' /\ InboxInv' /\ WebRTCTypeOK(Transports)'
    BY <1>1, Types DEF SignalTypeOK, InboxInv, WebRTCTypeOK, quietVars
  <2>2. TypeOK'
    BY <1>1, <2>1 DEF IInv, TypeOK, quietVars
  <2> QED  BY <1>1, <2>1, <2>2 DEF IInv, FaultsInv
<1>3. \A t \in Transports : FetchFact(t)' /\ MemberFact(t)'
  BY <1>1, FactsOf DEF FetchFact, Fresh, MemberFact, quietVars
<1> QED  BY <1>1, <1>2, <1>3, QuietStep

LEMMA NextInv ==
  IInv /\ [Next]_vars => IInv'
<1> SUFFICES ASSUME IInv, [Next]_vars PROVE IInv'
  OBVIOUS
<1>1. CASE UNCHANGED vars
  BY <1>1, StutteringStep
<1>2. CASE ParticipantHungup
  BY <1>2, HungupStep
<1>3. ASSUME NEW t \in Transports,
             start(t) \/ startSignalServerConnection(t)
      PROVE  IInv'
  BY <1>3, StartStep
<1>4. ASSUME NEW t \in Transports,
             \/ UrlFails(t) \/ GatheringFails(t) \/ AwaitRejects(t)
             \/ WriteWithoutChannel(t) \/ DataWithoutSocket(t)
      PROVE  IInv'
  BY <1>4, FailureSteps
<1>5. ASSUME NEW t \in Transports,
             \/ stop(t) \/ handleVkWebSocketSignalServerOnError(t)
             \/ handleVkWebSocketSignalServerOnStopped(t) \/ CrashedProcessEnds(t)
      PROVE  IInv'
  BY <1>5, LeavingSteps
<1>6. ASSUME NEW t \in Transports, handleVkWebSocketSignalServerOnStarted(t) PROVE IInv'
  BY <1>6, OpenStep
<1>7. ASSUME NEW t \in Transports, handleVkWebSocketSignalServerOnNotification(t) PROVE IInv'
  BY <1>7, NotificationStep
<1>8. ASSUME NEW t \in Transports, TurnIsThere(t) PROVE IInv'
  BY <1>8, TurnStep
<1>9. ASSUME NEW t \in Transports, handleOnSdpAnswer(t) PROVE IInv'
  BY <1>9, AnswerStep
<1>10. ASSUME NEW t \in Transports, ChannelOpens(t) \/ ChannelCloses(t) PROVE IInv'
  BY <1>10, ChannelSteps
<1>11. ASSUME NEW t \in Transports, ConnectionFails(t) \/ ConnectionRecovers(t) PROVE IInv'
  BY <1>11, NetworkSteps
<1>12. ASSUME NEW t \in Transports, handlePeerOnDisconnected(t) PROVE IInv'
  BY <1>12, DisconnectStep
<1> QED
  BY <1>1, <1>2, <1>3, <1>4, <1>5, <1>6, <1>7, <1>8, <1>9, <1>10, <1>11, <1>12 DEF Next

LEMMA InitInv ==
  Init => IInv
<1> SUFFICES ASSUME Init PROVE IInv
  OBVIOUS
<1>1. /\ fetching = [t \in Transports |-> FALSE] /\ ws = [t \in Transports |-> "none"]
      /\ self = [t \in Transports |-> None] /\ inbox = [t \in Transports |-> << >>]
      /\ members = {} /\ owner = << >> /\ peers = << >>
      /\ peer = [t \in Transports |-> NoPeer] /\ sdpOffer = [t \in Transports |-> NoPeer]
      /\ turnServerConnectionSuccess = [t \in Transports |-> FALSE]
      /\ socket = [t \in Transports |-> FALSE] /\ working = [t \in Transports |-> "idle"]
      /\ state = [t \in Transports |-> "none"] /\ opponent = [t \in Transports |-> None]
      /\ participants = [t \in Transports |-> {}] /\ role = [t \in Transports |-> "none"]
      /\ crashed = [t \in Transports |-> FALSE] /\ lost = {} /\ stopped = {}
  BY DEF Init, SignalInit, WebRTCInit
<1>2. /\ Len(owner) = 0 /\ Len(peers) = 0 /\ DOMAIN peers = {} /\ DOMAIN << >> = {}
      /\ 0 \in 0..0 /\ MaxJoins \in Nat /\ MaxFaults \in Nat
  BY <1>1, SignalAssumption, WebRTCAssumption
<1>3. SignalTypeOK
  <2>1. << >> \in Seq(Notification) /\ << >> \in Seq(Transports)
    OBVIOUS
  <2>2. inbox \in [Transports -> Seq(Notification)]
    BY <1>1, <2>1
  <2> QED  BY <1>1, <1>2, <2>1, <2>2 DEF SignalTypeOK
<1>4. WebRTCTypeOK(Transports)
  <2>1. peers \in Seq(Peer(Transports))
    BY <1>1
  <2>2. peer \in [Transports -> 0..Len(peers)] /\ sdpOffer \in [Transports -> 0..Len(peers)]
    BY <1>1, <1>2
  <2> QED  BY <1>1, <1>2, <2>1, <2>2 DEF WebRTCTypeOK
<1>5. TypeOK /\ FaultsInv
  <2>1. IsFiniteSet({}) /\ Cardinality({}) = 0
    BY FS_EmptySet
  <2> QED  BY <1>1, <1>2, <1>3, <1>4, <2>1 DEF TypeOK, FaultsInv
<1>6. PeerInv /\ ForgottenInv
  BY <1>2 DEF PeerInv, ForgottenInv
<1>7. InboxInv /\ MessageInv
  BY <1>1, <1>2 DEF InboxInv, MessageInv, In
<1>8. ASSUME NEW t \in Transports PROVE TransportFact(t) /\ PairedFact(t)
  <2>1. /\ fetching[t] = FALSE /\ ws[t] = "none" /\ self[t] = None /\ inbox[t] = << >>
        /\ peer[t] = NoPeer /\ sdpOffer[t] = NoPeer /\ socket[t] = FALSE
        /\ state[t] = "none" /\ opponent[t] = None /\ working[t] = "idle"
    BY <1>1
  <2>2. FetchFact(t) /\ OfferFact(t) /\ SocketFact(t) /\ LinkFact(t) /\ PairedFact(t)
    BY <2>1 DEF FetchFact, OfferFact, SocketFact, LinkFact, PairedFact, Joined
  <2>3. MemberFact(t)
    BY <1>2, <2>1 DEF MemberFact, RingsFirst, Rings
  <2>4. OrderFact(t)
    BY <1>2, <2>1 DEF OrderFact, Sorted
  <2>5. UnheardFact(t)
    BY <2>1 DEF UnheardFact, Rings, Stale
  <2> QED  BY <1>2, <2>1, <2>2, <2>3, <2>4, <2>5 DEF TransportFact
<1> QED  BY <1>5, <1>6, <1>7, <1>8 DEF IInv

LEMMA AlwaysInv ==
  Spec => []IInv
  BY InitInv, NextInv, PTL DEF Spec


-----------------------------------------------------------------------------
(* The theorems.                                                           *)

(* The types, and that only a transport in state CONNECTED has an opponent *)
(* and only one whose TURN check has succeeded negotiates at all, for any  *)
(* number of transports, joins and failures (VkWebRTCTransport.js).        *)
THEOREM TypesHold ==
  Spec => []TypeOK
<1>1. IInv => TypeOK
  BY DEF IInv
<1> QED  BY <1>1, AlwaysInv, PTL

(* A write meets a null peer or a channel that is not open only after a    *)
(* peer has opened its channel although its connection had failed: but for *)
(* that a transport socket is there only while the data channel of         *)
(* this.peer is open, in whatever order peers are replaced, forgotten,     *)
(* closed and disconnected, answers arrive and channels open               *)
(* (handlePeerOnDataChannelOpened and handlePeerOnDisconnected of          *)
(* WebRTCTransport.js).                                                    *)
THEOREM SocketsHavePeers ==
  Spec => []SocketHasPeer
<1>1. IInv => SocketHasPeer
  BY DEF IInv, TransportFact, SocketFact, SocketHasPeer
<1> QED  BY <1>1, AlwaysInv, PTL

(* An offer from the opponent always finds a peer that has not made one    *)
(* itself and that is open, as the comment in startAnswerConnection of     *)
(* WebRTCTransport.js claims: with any number of participants and joins,   *)
(* and whatever of an earlier membership in the call is still on its way.  *)
THEOREM OffersDoNotMeet ==
  Spec => []OffersNeverMeet
<1>1. IInv => OffersNeverMeet
  <2> SUFFICES ASSUME IInv, NEW t \in Transports, NEW p \in Participant,
                      IsNext(t, "SDP_OFFER", p), HasRole(t, "answer", p)
               PROVE  InSig(t, "new") \/ InSig(t, "stable")
    BY DEF OffersNeverMeet
  <2>1. /\ Head(inbox[t]) \in In(inbox[t]) /\ Head(inbox[t]).type = "SDP_OFFER"
        /\ self[t] # None /\ peer[t] \in DOMAIN peers /\ ~peers[peer[t]].closed
    BY HeadFacts DEF IsNext
  <2>2. peer[t] # NoPeer /\ ~peers[peer[t]].offers
    <3>1. ~Unheard(t)
      BY <2>1 DEF Unheard
    <3> QED  BY <2>1, <3>1, FactsOf, PeerTypes DEF IInv, UnheardFact, Stale, HasRole
  <2>3. peers[peer[t]].sig \in {"new", "stable"}
    BY <2>1, <2>2, PeerTypes DEF IInv, PeerInv, PeerFact
  <2> QED  BY <2>1, <2>2, <2>3 DEF InSig
<1> QED  BY <1>1, AlwaysInv, PTL

=============================================================================
