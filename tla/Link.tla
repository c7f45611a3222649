-------------------------------- MODULE Link --------------------------------
(***************************************************************************)
(* The transport of the Node.js tunnel as the nodes on its two ends see    *)
(* it: a sequence of sessions, each one TCP (or WebSocket) connection      *)
(* between the client transport, at the "in" end, and the server           *)
(* transport, at the "out" end.  Session k is the k-th connection the      *)
(* client establishes.                                                     *)
(*                                                                         *)
(* The operating system completes a connection before the server process  *)
(* has taken it from the backlog, so the client may hold, and write to, a  *)
(* session its peer has not accepted yet; and each end learns of the end   *)
(* of a session by a 'close' event of its own, so for a while the two ends *)
(* may be in different sessions.  A message is one framed buffer; within   *)
(* a session messages are neither lost, duplicated nor reordered, unless   *)
(* the session breaks, which loses those not read.                         *)
(***************************************************************************)
EXTENDS Naturals, Sequences

CONSTANT MaxSessions    \* how many times the client gets a connection

ASSUME MaxSessionsAssumption == MaxSessions \in Nat \ {0}

VARIABLES
  running,    \* running[s]: s's transport is started (and, for "out", listening)
  opened,     \* the number of sessions the client has established
  accepted,   \* how many of those the server has taken from its backlog
  session,    \* session[s]: the session of s's transportSocket, 0 for null
  chan        \* chan[s][k]: the messages of session k that s has yet to read

linkVars == <<running, opened, accepted, session, chan>>

Side == {"in", "out"}
Peer(s) == IF s = "in" THEN "out" ELSE "in"
Session == 1..MaxSessions

LinkInit ==
  /\ running = [s \in Side |-> FALSE]
  /\ opened = 0
  /\ accepted = 0
  /\ session = [s \in Side |-> 0]
  /\ chan = [s \in Side |-> [k \in Session |-> << >>]]

(* s has been in session k, or has dropped it, and will never read it again *)
HasLeft(s, k) ==
  /\ session[s] # k
  /\ k <= IF s = "in" THEN opened ELSE accepted

(* The end of s's session is certain: the other end has closed it, or s's   *)
(* own transport was stopped, which destroys the socket.                   *)
IsEnding(s) ==
  /\ session[s] # 0
  /\ HasLeft(Peer(s), session[s]) \/ ~running[s]

-----------------------------------------------------------------------------
(* Messages.  What is written to a session the reader has left is lost.    *)

(* Mutant: a CLOSE overtakes what waits to be sent.                        *)
Posted_CloseFirst(s, k, m) ==
  IF HasLeft(s, k) THEN chan
  ELSE IF m.type = "CLOSE" THEN [chan EXCEPT ![s][k] = <<m>> \o @]
  ELSE [chan EXCEPT ![s][k] = Append(@, m)]

Posted(s, k, m) ==
  IF HasLeft(s, k) THEN chan ELSE [chan EXCEPT ![s][k] = Append(@, m)]

Incoming(s) == chan[s][session[s]]

Consumed(s) == [chan EXCEPT ![s][session[s]] = Tail(@)]

-----------------------------------------------------------------------------
(* Transport.start().  Starting again is possible once the old socket is   *)
(* gone.                                                                   *)
LinkStart(s) ==
  /\ ~running[s] /\ session[s] = 0
  /\ running' = [running EXCEPT ![s] = TRUE]
  /\ UNCHANGED <<opened, accepted, session, chan>>

(* Transport.stop() destroys the socket, whose 'close' event comes later   *)
(* (LinkLost).  A server that stops listening refuses its backlog.         *)
LinkStop(s) ==
  /\ running[s]
  /\ running' = [running EXCEPT ![s] = FALSE]
  /\ accepted' = IF s = "out" THEN opened ELSE accepted
  /\ UNCHANGED <<opened, session, chan>>

(* The client's attempt to connect succeeds: its socket emits 'connect'.   *)
ClientConnects ==
  /\ running["in"] /\ running["out"]
  /\ session["in"] = 0 /\ opened < MaxSessions
  /\ opened' = opened + 1
  /\ session' = [session EXCEPT !["in"] = opened + 1]
  /\ UNCHANGED <<running, accepted, chan>>

(* The server takes the next connection while it has none ...              *)
ServerAccepts ==
  /\ running["out"] /\ accepted < opened
  /\ session["out"] = 0
  /\ accepted' = accepted + 1
  /\ session' = [session EXCEPT !["out"] = accepted + 1]
  /\ UNCHANGED <<running, opened, chan>>

(* ... and destroys it at once while it still has one, dead or alive.      *)
ServerDrops ==
  /\ running["out"] /\ accepted < opened
  /\ session["out"] # 0
  /\ accepted' = accepted + 1
  /\ UNCHANGED <<running, opened, session, chan>>

(* The transport's socket emits 'close' at s: the network, the peer or     *)
(* stop() ended it.  What had arrived and was not read is gone.            *)
LinkLost(s) ==
  /\ session[s] # 0
  /\ session' = [session EXCEPT ![s] = 0]
  /\ chan' = [chan EXCEPT ![s][session[s]] = << >>]
  /\ UNCHANGED <<running, opened, accepted>>

(* The sessions by themselves, without the nodes that use them.            *)
LinkNext ==
  \/ ClientConnects \/ ServerAccepts \/ ServerDrops
  \/ \E s \in Side : LinkStart(s) \/ LinkStop(s) \/ LinkLost(s)

LinkSpec == LinkInit /\ [][LinkNext]_linkVars

=============================================================================
