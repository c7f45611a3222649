--------------------------- MODULE TunnelInvariant ---------------------------
(***************************************************************************)
(* The inductive invariant behind the safety properties of module Tunnel.  *)
(*                                                                         *)
(* InOrder alone is not inductive: that the next chunk to be read from the *)
(* channel is the next one of its connection depends on what the channel   *)
(* holds, on which session it belongs to, and on the table that maps the   *)
(* id to a socket.  Each part below is one such dependency.                *)
(***************************************************************************)
EXTENDS Tunnel

IsData(m, c) == m.type = "DATA" /\ m.data[1] = c
IsConnect(m, c) == m.type = "CONNECT" /\ m.conn = c

(* The chunks of c in the queue q are those after the lo-th, up to the     *)
(* hi-th, in order and without a gap.                                      *)
Exact(q, c, lo, hi) ==
  /\ \A i \in DOMAIN q : IsData(q[i], c) => q[i].data[2] \in (lo + 1)..hi
  /\ \A i, j \in DOMAIN q :
       IsData(q[i], c) /\ IsData(q[j], c) /\ i < j => q[i].data[2] < q[j].data[2]
  /\ \A n \in (lo + 1)..hi :
       \E i \in DOMAIN q : IsData(q[i], c) /\ q[i].data[2] = n

(* How many chunks c's socket at s has been given, or will be when it      *)
(* connects.                                                               *)
Received(s, c) == Len(delivered[s][c]) + Len(conn[s][c].messages)

(* The multiplexer writes to the current session while the node listens to *)
(* its transport, and to none otherwise.                                   *)
MuxInv == \A s \in Side : mux[s] = IF Listens(s) THEN session[s] ELSE 0

TableInv ==
  \A s \in Side, id \in Ids :
    connections[s][id] # None =>
      /\ IdOf[connections[s][id]] = id
      /\ conn[s][connections[s][id]].sock # "none"

(* What a connection object holds in each phase of its socket.             *)
ObjectInv ==
  \A s \in Side, c \in Conns :
    LET o == conn[s][c] IN
    /\ o.sock = "none" =>
         /\ produced[s][c] = 0 /\ delivered[s][c] = << >> /\ o.messages = << >>
         /\ ~o.connected
         /\ s = "in" => conn["out"][c].sock = "none"
    /\ o.sock = "connecting" =>
         /\ s = "out" /\ ~o.connected /\ delivered[s][c] = << >>
         /\ \A n \in DOMAIN o.messages : o.messages[n] = <<c, n>>
    /\ o.sock = "open" => o.connected /\ o.messages = << >>

(* A message names its connection by the right id, and was sent by a node  *)
(* that has it; only the "out" node is asked to connect, and only once.    *)
GoodMessage(s, m) ==
  /\ m.type = "DATA" =>
       m.id = IdOf[m.data[1]] /\ conn[Peer(s)][m.data[1]].sock # "none"
  /\ m.type = "CONNECT" =>
       /\ s = "out" /\ m.id = IdOf[m.conn]
       /\ conn["in"][m.conn].sock # "none" /\ conn["out"][m.conn].sock = "none"

MessageInv ==
  \A s \in Side, k \in Session : \A i \in DOMAIN chan[s][k] :
    GoodMessage(s, chan[s][k][i])

OneConnect ==
  \A c \in Conns : \A k, l \in Session :
    \A i \in DOMAIN chan["out"][k], j \in DOMAIN chan["out"][l] :
      IsConnect(chan["out"][k][i], c) /\ IsConnect(chan["out"][l][j], c)
        => k = l /\ i = j

(* A CONNECT still to be read comes before every chunk of its connection,  *)
(* in the session in which the client's socket lives.                      *)
PendingInv ==
  \A c \in Conns, k \in Session : \A i \in DOMAIN chan["out"][k] :
    IsConnect(chan["out"][k][i], c) /\ ~HasLeft("out", k) =>
      /\ Exact(chan["out"][k], c, 0, produced["in"][c])
      /\ \A j \in DOMAIN chan["out"][k] : IsData(chan["out"][k][j], c) => i < j
      /\ ~crashed["in"] /\ Live("in", c) => k = session["in"]

(* What a live socket has still to get is in the channel.                  *)
FlowInv ==
  \A s \in Side, c \in Conns :
    ~crashed[s] /\ Live(s, c) =>
      /\ Received(s, c) <= produced[Peer(s)][c]
      /\ Exact(chan[s][session[s]], c, Received(s, c), produced[Peer(s)][c])

IInv ==
  /\ TypeOK
  /\ MuxInv
  /\ TableInv
  /\ LiveIsTracked
  /\ ObjectInv
  /\ MessageInv
  /\ OneConnect
  /\ PendingInv
  /\ FlowInv
  /\ SameSession
  /\ InOrder
  /\ CrashOnlyWhenStopped

-----------------------------------------------------------------------------
(* What CloseComesLast rests on, besides.                                  *)

IsClose(m, c) == m.type = "CLOSE" /\ m.id = IdOf[c]

(* A CLOSE on its way means that the socket it speaks of is dead, and      *)
(* comes after all that this socket has read.                              *)
CloseInv ==
  \A s \in Side, k \in Session, c \in Conns : \A i \in DOMAIN chan[s][k] :
    IsClose(chan[s][k][i], c) =>
      /\ Dead(Peer(s), c)
      /\ \A j \in DOMAIN chan[s][k] : IsData(chan[s][k][j], c) => j < i

(* A socket that the node has destroyed is no longer in its table.         *)
EntryInv ==
  \A s \in Side, id \in Ids :
    connections[s][id] # None => conn[s][connections[s][id]].sock # "destroyed"

(* A node has taken the other's word for a socket only if both are dead.   *)
WordInv ==
  \A s \in Side, c \in Conns :
    conn[s][c].wasClosed => Dead(s, c) /\ Dead(Peer(s), c)

EndInv == CloseInv /\ EntryInv /\ WordInv /\ CloseComesLast

-----------------------------------------------------------------------------
(* What NoCrash and QuiescentAgreement rest on when the order of stopping  *)
(* is kept.                                                                *)

(* A node that does not listen to its transport has none to listen to.     *)
OrderInv == \A s \in Side : ~Listens(s) => ~running[s] /\ session[s] = 0

(* No end is in a session, and nothing was sent in one, that has not begun. *)
BegunInv ==
  /\ session["in"] <= opened /\ session["out"] <= accepted
  /\ \A s \in Side, k \in Session : k > opened => chan[s][k] = << >>

HasClose(s, k, c) == \E i \in DOMAIN chan[s][k] : IsClose(chan[s][k][i], c)
HasConnect(k, c) == \E i \in DOMAIN chan["out"][k] : IsConnect(chan["out"][k][i], c)

(* The destination of a live client is sought in the client's session,     *)
(* which the "out" node has then taken, and is going to be until then.     *)
SoughtInv ==
  \A c \in Conns : Live("in", c) =>
    /\ conn["out"][c].sock # "none" => session["in"] <= accepted
    /\ conn["out"][c].sock = "none" =>
         HasLeft("out", session["in"]) \/ HasConnect(session["in"], c)

(* The other end of a dead socket, or the end that is going to open it,    *)
(* will be told, once 'close' was seen, unless the session is over.        *)
ToldInv ==
  \A s \in Side, c \in Conns : conn[s][c].closed =>
    /\ Dead(s, c)
    /\ Live(Peer(s), c) =>
         HasLeft(s, session[Peer(s)]) \/ HasClose(Peer(s), session[Peer(s)], c)
    /\ s = "in" => \A k \in Session : \A i \in DOMAIN chan["out"][k] :
         IsConnect(chan["out"][k][i], c) =>
           \/ HasLeft("out", k) \/ HasLeft("in", k)
           \/ \E j \in DOMAIN chan["out"][k] : i < j /\ IsClose(chan["out"][k][j], c)

OrderlyInv == OrderInv /\ NoCrash /\ BegunInv /\ SoughtInv /\ ToldInv

=============================================================================
