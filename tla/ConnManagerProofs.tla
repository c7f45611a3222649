------------------------- MODULE ConnManagerProofs --------------------------
(***************************************************************************)
(* OneAtATime and CrashOnlyAfterLoss of ConnManager, for any number of     *)
(* clients, calls of Dial, connections and failures.                       *)
(*                                                                         *)
(* A client has a session only after it has read the server's handshake,   *)
(* which the server writes on the connection it is dealing with and on no  *)
(* other; until the server is done with that connection it takes no other  *)
(* one, and when it is done it closes it.  CrashOnlyAfterLoss: while all   *)
(* agree and nothing has failed, no session ever ends (Calm).              *)
(***************************************************************************)
EXTENDS ConnManager, TLAPS

(* A loop between Transport() and clear() has a connection that it has not *)
(* closed, and a session only on that.                                     *)
LoopInv ==
  \A n \in Nodes :
    /\ pc[n] \in {"write", "read", "accept"} =>
         conn[n] \in Conns /\ end[conn[n]][n] \in {"open", "dead"}
    /\ pc[n] \notin {"write", "read", "accept"} => conn[n] = None
    /\ mux[n] # None => pc[n] = "accept" /\ mux[n] = conn[n]

(* What waits to be accepted is not closed, waits once, and has not been   *)
(* accepted before.                                                        *)
BacklogInv ==
  /\ \A k \in 1..Len(backlog) :
       /\ end[backlog[k]][Server] \in {"open", "dead"}
       /\ backlog[k] # conn[Server]
       /\ \A l \in 1..Len(backlog) : backlog[k] = backlog[l] => k = l

(* Who has written a handshake on a connection is one of its two ends.     *)
EndsInv ==
  \A i \in Conns :
    /\ \A n \in hs[i] : end[i][n] # "none"
    /\ \A c, e \in Clients : end[i][c] # "none" /\ end[i][e] # "none" => c = e

(* The server's handshake is on the one connection it has, and a client    *)
(* with a session has read it.                                             *)
HandshakeInv ==
  /\ \A i \in Conns : Server \in hs[i] /\ end[i][Server] = "open" => conn[Server] = i
  /\ \A c \in Clients :
       mux[c] # None /\ end[mux[c]][c] = "open" => Server \in hs[mux[c]]

IInv == TypeOK /\ LoopInv /\ BacklogInv /\ EndsInv /\ HandshakeInv

USE DEF None

LEMMA InitIInv == Init => IInv
<1> SUFFICES ASSUME Init PROVE IInv
  OBVIOUS
<1> USE ConnManagerAssumption DEF Init, Nodes, Conns
<1>1. backlog \in Seq(Conns) /\ failures \in 0..MaxFailures
  OBVIOUS
<1>2. end \in [Conns -> [Nodes -> {"none", "open", "dead", "closed"}]]
  OBVIOUS
<1>3. TypeOK
  BY <1>1, <1>2 DEF TypeOK
<1>4. LoopInv
  BY DEF LoopInv
<1>5. Len(backlog) = 0
  OBVIOUS
<1>6. BacklogInv
  BY <1>5 DEF BacklogInv
<1>7. EndsInv
  BY DEF EndsInv
<1>8. HandshakeInv
  BY DEF HandshakeInv
<1> QED BY <1>3, <1>4, <1>6, <1>7, <1>8 DEF IInv

(* Closing one's ends does nothing to the ends of others that are not      *)
(* closed, nor to what has arrived there.                                  *)
LEMMA CloseKeeps ==
  ASSUME TypeOK, NEW n \in Nodes, NEW closing, Close(n, closing)
  PROVE  /\ end' \in [Conns -> [Nodes -> {"none", "open", "dead", "closed"}]]
         /\ hs' \in [Conns -> SUBSET Nodes]
         /\ broken' \subseteq Conns
         /\ \A i \in Conns \ closing : end'[i] = end[i] /\ hs'[i] = hs[i]
         /\ \A i \in Conns \cap closing : end'[i][n] \in {"none", "closed"}
         /\ \A i \in Conns : hs'[i] \subseteq hs[i]
         /\ \A i \in Conns, p \in Nodes :
              /\ end'[i][p] # "none" => hs'[i] = hs[i]
              /\ p # n /\ end'[i][p] # "none" => end'[i][p] = end[i][p]
              /\ end'[i][p] = "none" => end[i][p] = "none" \/ hs'[i] = {}
              /\ p # n /\ end[i][p] \in {"open", "dead"} =>
                   end'[i][p] = end[i][p] /\ hs'[i] = hs[i]
  BY DEF Close, TypeOK

(* A node that has a connection gives it up or has lost it.                *)
LEMMA ClearKeeps ==
  ASSUME IInv, NEW n \in Nodes, pc[n] \in {"write", "read", "accept"},
         clear(n), Goto(n, "sleep") \/ Goto(n, "transport"),
         UNCHANGED <<allowed, listening, backlog, failures, dials>>
  PROVE  IInv'
<1> USE DEF IInv
<1>1. /\ conn[n] \in Conns /\ end[conn[n]][n] \in {"open", "dead"}
      /\ Close(n, {conn[n]})
      /\ conn' = [conn EXCEPT ![n] = None] /\ mux' = [mux EXCEPT ![n] = None]
      /\ pc' = [pc EXCEPT ![n] = "sleep"] \/ pc' = [pc EXCEPT ![n] = "transport"]
  BY DEF LoopInv, clear, Goto
<1>2. TypeOK'
  <2>1. /\ end' \in [Conns -> [Nodes -> {"none", "open", "dead", "closed"}]]
        /\ hs' \in [Conns -> SUBSET Nodes] /\ broken' \subseteq Conns
    BY <1>1, CloseKeeps
  <2>2. /\ conn' \in [Nodes -> Conns \union {None}]
        /\ mux' \in [Nodes -> Conns \union {None}]
        /\ pc' \in [Nodes -> {"listen", "transport", "sleep", "write", "read", "accept", "gone"}]
    BY <1>1 DEF TypeOK
  <2>3. \A m \in Nodes : pc'[m] \in {"transport", "sleep"} =>
          conn'[m] = None /\ mux'[m] = None
    BY <1>1 DEF TypeOK
  <2> QED BY <2>1, <2>2, <2>3 DEF TypeOK, dials
<1>3. LoopInv'
  <2> SUFFICES ASSUME NEW m \in Nodes
               PROVE  /\ pc'[m] \in {"write", "read", "accept"} =>
                           conn'[m] \in Conns /\ end'[conn'[m]][m] \in {"open", "dead"}
                      /\ pc'[m] \notin {"write", "read", "accept"} => conn'[m] = None
                      /\ mux'[m] # None => pc'[m] = "accept" /\ mux'[m] = conn'[m]
    BY DEF LoopInv
  <2>1. CASE m = n
    BY <1>1, <2>1 DEF TypeOK
  <2>2. CASE m # n
    <3>1. pc'[m] = pc[m] /\ conn'[m] = conn[m] /\ mux'[m] = mux[m]
      BY <1>1, <2>2 DEF TypeOK
    <3> QED BY <1>1, <2>2, <3>1, CloseKeeps DEF LoopInv
  <2> QED BY <2>1, <2>2
<1>4. BacklogInv'
  <2>1. \A k \in 1..Len(backlog) : backlog[k] \in Conns
    BY DEF TypeOK
  <2>2. conn'[Server] \in {None, conn[Server]} /\ Server \in Nodes
    BY <1>1 DEF TypeOK, Nodes
  <2>3. \A k \in 1..Len(backlog) : end'[backlog[k]][Server] = end[backlog[k]][Server]
    BY <1>1, <2>1, <2>2, CloseKeeps DEF BacklogInv
  <2>4. \A k \in 1..Len(backlog) : backlog[k] # conn'[Server]
    BY <2>1, <2>2 DEF BacklogInv, Conns
  <2> QED BY <2>3, <2>4 DEF BacklogInv
<1>5. EndsInv'
  <2>1. ASSUME NEW i \in Conns, NEW m \in hs'[i]
        PROVE  end'[i][m] # "none"
    BY <2>1, CloseKeeps, <1>1 DEF EndsInv, TypeOK
  <2>2. ASSUME NEW i \in Conns, NEW m \in Nodes, end'[i][m] # "none"
        PROVE  end[i][m] # "none"
    BY <2>2, CloseKeeps, <1>1
  <2> QED BY <2>1, <2>2 DEF EndsInv, Nodes
<1>6. HandshakeInv'
  <2>1. ASSUME NEW i \in Conns, Server \in hs'[i], end'[i][Server] = "open"
        PROVE  conn'[Server] = i
    <3>1. Server \in hs[i] /\ Server \in Nodes
      BY <2>1, CloseKeeps, <1>1 DEF Nodes
    <3>2. n # Server
      BY <2>1, <3>1, CloseKeeps, <1>1 DEF HandshakeInv
    <3> QED BY <2>1, <3>1, <3>2, CloseKeeps, <1>1 DEF HandshakeInv
  <2>2. ASSUME NEW c \in Clients, mux'[c] # None, end'[mux'[c]][c] = "open"
        PROVE  Server \in hs'[mux'[c]]
    <3>1. c \in Nodes /\ c # n /\ mux'[c] = mux[c] /\ mux[c] \in Conns
      BY <2>2, <1>1 DEF Nodes, TypeOK
    <3>2. end[mux[c]][c] = "open" /\ hs'[mux[c]] = hs[mux[c]]
      BY <2>2, <3>1, CloseKeeps, <1>1
    <3> QED BY <2>2, <3>1, <3>2 DEF HandshakeInv
  <2> QED BY <2>1, <2>2 DEF HandshakeInv
<1> QED BY <1>2, <1>3, <1>4, <1>5, <1>6

(* Only the calls of Dial and what the network has cut change.             *)
LEMMA QuietStep ==
  ASSUME IInv, TypeOK', UNCHANGED <<backlog, hs, end, pc, conn, mux>>
  PROVE  IInv'
  BY DEF IInv, LoopInv, BacklogInv, EndsInv, HandshakeInv

(* A loop that has no connection goes to another place where it has none.  *)
LEMMA IdleStep ==
  ASSUME IInv, NEW n \in Nodes, NEW place \in {"transport", "sleep"},
         pc[n] \in {"listen", "transport", "sleep"}, Goto(n, place),
         listening' \in BOOLEAN, failures' \in 0..MaxFailures,
         UNCHANGED <<allowed, backlog, broken, hs, end, conn, mux, dials>>
  PROVE  IInv'
<1> USE DEF IInv
<1>1. pc' = [pc EXCEPT ![n] = place] /\ conn[n] = None /\ mux[n] = None
  BY DEF Goto, LoopInv
<1>2. TypeOK'
  BY <1>1 DEF TypeOK, dials
<1>3. LoopInv'
  BY <1>1 DEF LoopInv, TypeOK
<1> QED BY <1>2, <1>3 DEF BacklogInv, EndsInv, HandshakeInv

LEMMA ConnectStep == ASSUME IInv, NEW c \in Clients, Connect(c) PROVE IInv'
<1> USE DEF IInv
<1>1. PICK i \in Conns :
        /\ Free(i)
        /\ end' = [end EXCEPT ![i] =
                     [n \in Nodes |-> IF n \in {c, Server} THEN "open" ELSE "none"]]
        /\ stream' = [d \in Dialers |-> IF stream[d] = i THEN None ELSE stream[d]]
        /\ backlog' = Append(backlog, i)
        /\ conn' = [conn EXCEPT ![c] = i]
  BY DEF Connect
<1>2. /\ pc[c] = "transport" /\ pc' = [pc EXCEPT ![c] = "write"]
      /\ UNCHANGED <<allowed, listening, broken, hs, failures, mux, dial, asked, exit>>
  BY DEF Connect, Goto
<1>3. /\ c \in Nodes /\ Server \in Nodes /\ c # Server
      /\ conn[c] = None /\ mux[c] = None
  BY <1>2, ConnManagerAssumption DEF Nodes, TypeOK
<1>4. \A n \in Nodes : end[i][n] = "none"
  BY <1>1 DEF Free
<1>5. /\ \A j \in Conns \ {i} : end'[j] = end[j]
      /\ \A n \in Nodes : end'[i][n] = IF n \in {c, Server} THEN "open" ELSE "none"
  BY <1>1 DEF TypeOK
<1>6. hs[i] = {}
  BY <1>4 DEF EndsInv, TypeOK
<1>7. TypeOK'
  <2>1. backlog' \in Seq(Conns)
    BY <1>1 DEF TypeOK
  <2>2. end' \in [Conns -> [Nodes -> {"none", "open", "dead", "closed"}]]
    BY <1>1 DEF TypeOK
  <2>3. stream' \in [Dialers -> Conns \union {None}]
    BY <1>1 DEF TypeOK
  <2>4. /\ conn' \in [Nodes -> Conns \union {None}]
        /\ pc' \in [Nodes -> {"listen", "transport", "sleep", "write", "read", "accept", "gone"}]
        /\ \A n \in Nodes : pc'[n] \in {"transport", "sleep"} =>
             conn'[n] = None /\ mux'[n] = None
    BY <1>1, <1>2, <1>3 DEF TypeOK
  <2> QED BY <1>2, <2>1, <2>2, <2>3, <2>4 DEF TypeOK
<1>8. LoopInv'
  <2> SUFFICES ASSUME NEW m \in Nodes
               PROVE  /\ pc'[m] \in {"write", "read", "accept"} =>
                           conn'[m] \in Conns /\ end'[conn'[m]][m] \in {"open", "dead"}
                      /\ pc'[m] \notin {"write", "read", "accept"} => conn'[m] = None
                      /\ mux'[m] # None => pc'[m] = "accept" /\ mux'[m] = conn'[m]
    BY DEF LoopInv
  <2>1. CASE m = c
    BY <1>1, <1>2, <1>3, <1>5, <2>1 DEF TypeOK
  <2>2. CASE m # c
    <3>1. pc'[m] = pc[m] /\ conn'[m] = conn[m] /\ mux'[m] = mux[m]
      BY <1>1, <1>2, <2>2 DEF TypeOK
    <3> QED BY <3>1, <1>4, <1>5 DEF LoopInv
  <2> QED BY <2>1, <2>2
<1>9. BacklogInv'
  <2>1. backlog \in Seq(Conns) /\ Len(backlog) \in Nat /\ Len(backlog') = Len(backlog) + 1
    BY <1>1 DEF TypeOK
  <2>2. /\ \A k \in 1..Len(backlog) : backlog'[k] = backlog[k] /\ backlog[k] \in Conns
        /\ backlog'[Len(backlog) + 1] = i
    BY <1>1, <2>1
  <2>3. \A k \in 1..Len(backlog) : backlog[k] # i
    BY <1>3, <1>4 DEF BacklogInv
  <2>4. conn[Server] # None => end[conn[Server]][Server] # "none"
    BY <1>3 DEF LoopInv
  <2>5. i # None
    BY DEF Conns
  <2>6. conn'[Server] = conn[Server] /\ conn[Server] # i
    BY <1>1, <1>3, <1>4, <2>4, <2>5 DEF TypeOK
  <2>7. ASSUME NEW k \in 1..Len(backlog')
        PROVE  /\ end'[backlog'[k]][Server] \in {"open", "dead"}
               /\ backlog'[k] # conn'[Server]
               /\ \A l \in 1..Len(backlog') : backlog'[k] = backlog'[l] => k = l
    <3>1. k \in 1..Len(backlog) \/ k = Len(backlog) + 1
      BY <2>1
    <3>2. \A l \in 1..Len(backlog') : l \in 1..Len(backlog) \/ l = Len(backlog) + 1
      BY <2>1
    <3>3. CASE k \in 1..Len(backlog)
      BY <3>2, <3>3, <2>2, <2>3, <2>6, <1>5 DEF BacklogInv
    <3>4. CASE k = Len(backlog) + 1
      BY <3>2, <3>4, <2>2, <2>3, <2>6, <1>3, <1>5
    <3> QED BY <3>1, <3>3, <3>4
  <2> QED BY <2>7 DEF BacklogInv
<1>10. EndsInv'
  <2>1. ASSUME NEW j \in Conns
        PROVE  /\ \A n \in hs'[j] : end'[j][n] # "none"
               /\ \A b, e \in Clients : end'[j][b] # "none" /\ end'[j][e] # "none" => b = e
    <3>1. CASE j = i
      BY <3>1, <1>2, <1>5, <1>6, ConnManagerAssumption DEF Nodes
    <3>2. CASE j # i
      BY <3>2, <1>2, <1>5 DEF EndsInv
    <3> QED BY <3>1, <3>2
  <2> QED BY <2>1 DEF EndsInv
<1>11. HandshakeInv'
  <2>1. ASSUME NEW j \in Conns, Server \in hs'[j], end'[j][Server] = "open"
        PROVE  conn'[Server] = j
    BY <2>1, <1>1, <1>2, <1>3, <1>5, <1>6 DEF HandshakeInv, TypeOK
  <2>2. ASSUME NEW e \in Clients, mux'[e] # None, end'[mux'[e]][e] = "open"
        PROVE  Server \in hs'[mux'[e]]
    <3>1. e \in Nodes /\ mux[e] # None /\ mux[e] \in Conns /\ mux[e] # i
      BY <2>2, <1>2, <1>4 DEF Nodes, TypeOK, LoopInv
    <3> QED BY <3>1, <2>2, <1>2, <1>5 DEF HandshakeInv
  <2> QED BY <2>1, <2>2 DEF HandshakeInv
<1> QED BY <1>7, <1>8, <1>9, <1>10, <1>11

LEMMA AcceptStep == ASSUME IInv, Accept PROVE IInv'
<1> USE DEF IInv
<1>1. /\ pc[Server] = "transport" /\ backlog # << >>
      /\ backlog' = Tail(backlog)
      /\ conn' = [conn EXCEPT ![Server] = Head(backlog)]
      /\ pc' = [pc EXCEPT ![Server] = "write"]
      /\ UNCHANGED <<allowed, listening, broken, hs, failures, end, mux, dials>>
  BY DEF Accept, Goto
<1>2. Server \in Nodes /\ conn[Server] = None /\ mux[Server] = None
  BY <1>1 DEF Nodes, TypeOK
<1>3. /\ Len(backlog) \in Nat \ {0} /\ Len(backlog') = Len(backlog) - 1
      /\ Head(backlog) = backlog[1] /\ backlog[1] \in Conns
      /\ \A k \in 1..Len(backlog') : backlog'[k] = backlog[k + 1]
      /\ backlog' \in Seq(Conns)
  BY <1>1 DEF TypeOK
<1>4. TypeOK'
  BY <1>1, <1>2, <1>3 DEF TypeOK, dials
<1>5. conn'[Server] = backlog[1] /\ end[backlog[1]][Server] \in {"open", "dead"}
  BY <1>1, <1>2, <1>3 DEF TypeOK, BacklogInv
<1>6. LoopInv'
  <2> SUFFICES ASSUME NEW m \in Nodes
               PROVE  /\ pc'[m] \in {"write", "read", "accept"} =>
                           conn'[m] \in Conns /\ end'[conn'[m]][m] \in {"open", "dead"}
                      /\ pc'[m] \notin {"write", "read", "accept"} => conn'[m] = None
                      /\ mux'[m] # None => pc'[m] = "accept" /\ mux'[m] = conn'[m]
    BY DEF LoopInv
  <2>1. CASE m = Server
    BY <1>1, <1>2, <1>3, <1>5, <2>1 DEF TypeOK
  <2>2. CASE m # Server
    <3>1. pc'[m] = pc[m] /\ conn'[m] = conn[m] /\ mux'[m] = mux[m] /\ end' = end
      BY <1>1, <2>2 DEF TypeOK
    <3> QED BY <3>1 DEF LoopInv
  <2> QED BY <2>1, <2>2
<1>7. BacklogInv'
  <2>1. ASSUME NEW k \in 1..Len(backlog')
        PROVE  /\ end'[backlog'[k]][Server] \in {"open", "dead"}
               /\ backlog'[k] # conn'[Server]
               /\ \A l \in 1..Len(backlog') : backlog'[k] = backlog'[l] => k = l
    <3>1. /\ k + 1 \in 1..Len(backlog) /\ k + 1 # 1
          /\ 1 \in 1..Len(backlog)
          /\ \A l \in 1..Len(backlog') :
               l + 1 \in 1..Len(backlog) /\ (k + 1 = l + 1 => k = l)
      BY <1>3
    <3>2. end'[backlog[k + 1]][Server] \in {"open", "dead"}
      BY <3>1, <1>1 DEF BacklogInv
    <3>3. backlog[k + 1] # backlog[1]
      BY <3>1 DEF BacklogInv
    <3>4. \A l \in 1..Len(backlog') : backlog[k + 1] = backlog[l + 1] => k = l
      BY <3>1 DEF BacklogInv
    <3> QED BY <3>2, <3>3, <3>4, <1>3, <1>5
  <2> QED BY <2>1 DEF BacklogInv
<1>8. EndsInv'
  BY <1>1 DEF EndsInv
<1>9. HandshakeInv'
  <2>1. \A i \in Conns : ~(Server \in hs[i] /\ end[i][Server] = "open")
    BY <1>2 DEF HandshakeInv, Conns
  <2> QED BY <2>1, <1>1 DEF HandshakeInv
<1> QED BY <1>4, <1>6, <1>7, <1>8, <1>9

LEMMA WriteHandshakeStep ==
  ASSUME IInv, NEW n \in Nodes, WriteHandshake(n) PROVE IInv'
<1> USE DEF IInv
<1>1. CASE end[conn[n]][n] = "dead" /\ GiveUp(n)
  BY <1>1, ClearKeeps DEF WriteHandshake, GiveUp
<1>2. CASE /\ end[conn[n]][n] = "open"
           /\ hs' = IF Arrives(conn[n]) THEN [hs EXCEPT ![conn[n]] = @ \union {n}] ELSE hs
           /\ Goto(n, "read")
           /\ UNCHANGED <<end, broken, conn, mux>>
  <2>1. /\ pc[n] = "write" /\ conn[n] \in Conns /\ mux[n] = None
        /\ pc' = [pc EXCEPT ![n] = "read"]
        /\ UNCHANGED <<allowed, listening, backlog, failures, dials, end, broken, conn, mux>>
    BY <1>2 DEF WriteHandshake, Goto, LoopInv
  <2>2. /\ hs' \in [Conns -> SUBSET Nodes]
        /\ \A i \in Conns : hs[i] \subseteq hs'[i]
        /\ \A i \in Conns : hs'[i] = hs[i] \/ (i = conn[n] /\ hs'[i] = hs[i] \union {n})
    BY <1>2, <2>1 DEF TypeOK
  <2>3. TypeOK'
    BY <2>1, <2>2 DEF TypeOK, dials
  <2>4. LoopInv'
    BY <2>1 DEF LoopInv, TypeOK
  <2>5. BacklogInv'
    BY <2>1 DEF BacklogInv
  <2>6. EndsInv'
    BY <2>1, <2>2, <1>2 DEF EndsInv
  <2>7. HandshakeInv'
    <3>1. ASSUME NEW i \in Conns, Server \in hs'[i], end'[i][Server] = "open"
          PROVE  conn'[Server] = i
      BY <3>1, <2>1, <2>2 DEF HandshakeInv
    <3>2. ASSUME NEW c \in Clients, mux'[c] # None, end'[mux'[c]][c] = "open"
          PROVE  Server \in hs'[mux'[c]]
      <4>1. c \in Nodes /\ mux[c] \in Conns
        BY <3>2, <2>1 DEF Nodes, TypeOK
      <4> QED BY <4>1, <3>2, <2>1, <2>2 DEF HandshakeInv
    <3> QED BY <3>1, <3>2 DEF HandshakeInv
  <2> QED BY <2>3, <2>4, <2>5, <2>6, <2>7
<1> QED BY <1>1, <1>2 DEF WriteHandshake

LEMMA ReadHandshakeStep ==
  ASSUME IInv, NEW n \in Nodes, ReadHandshake(n) PROVE IInv'
<1> USE DEF IInv
<1>1. CASE GiveUp(n)
  BY <1>1, ClearKeeps DEF ReadHandshake, GiveUp
<1>2. ASSUME NEW p \in hs[conn[n]] \ {n},
             mux' = [mux EXCEPT ![n] = conn[n]], Goto(n, "accept"),
             UNCHANGED <<end, broken, hs, conn>>
      PROVE  IInv'
  <2>1. /\ pc[n] = "read" /\ conn[n] \in Conns /\ end[conn[n]][n] \in {"open", "dead"}
        /\ pc' = [pc EXCEPT ![n] = "accept"]
        /\ UNCHANGED <<allowed, listening, backlog, failures, dials>>
    BY <1>2 DEF ReadHandshake, Goto, LoopInv
  <2>2. TypeOK'
    BY <1>2, <2>1 DEF TypeOK, dials
  <2>3. LoopInv'
    BY <1>2, <2>1 DEF LoopInv, TypeOK
  <2>4. BacklogInv' /\ EndsInv'
    BY <1>2, <2>1 DEF BacklogInv, EndsInv
  <2>5. ASSUME NEW c \in Clients, mux'[c] # None, end'[mux'[c]][c] = "open"
        PROVE  Server \in hs'[mux'[c]]
    <3>1. CASE c = n
      <4>1. mux'[c] = conn[n] /\ p \in Nodes /\ end[conn[n]][p] # "none"
        BY <1>2, <2>1, <3>1 DEF TypeOK, EndsInv
      <4>2. p = Server
        BY <1>2, <2>1, <3>1, <4>1 DEF EndsInv, Nodes
      <4> QED BY <1>2, <4>1, <4>2
    <3>2. CASE c # n
      BY <1>2, <2>5, <3>2 DEF HandshakeInv, Nodes, TypeOK
    <3> QED BY <3>1, <3>2
  <2>6. HandshakeInv'
    BY <1>2, <2>5 DEF HandshakeInv
  <2> QED BY <2>2, <2>3, <2>4, <2>6
<1> QED BY <1>1, <1>2 DEF ReadHandshake

LEMMA AcceptFailsStep ==
  ASSUME IInv, NEW n \in Nodes, AcceptFails(n) PROVE IInv'
  BY ClearKeeps DEF AcceptFails

(* A process that ends leaves nothing behind.                              *)
LEMMA CreateStreamPanicsStep ==
  ASSUME IInv, NEW d \in Dialers, CreateStreamPanics(d) PROVE IInv'
<1> USE DEF IInv
<1> DEFINE n == At[d]
           closing == {i \in Conns : end[i][n] # "none"}
<1>1. /\ n \in Nodes /\ mux[n] = None
      /\ pc' = [pc EXCEPT ![n] = "gone"]
      /\ Close(n, closing)
      /\ conn' = [conn EXCEPT ![n] = None]
      /\ dial' = [e \in Dialers |-> IF At[e] = n THEN "over" ELSE dial[e]]
      /\ listening' \in BOOLEAN
      /\ backlog' = IF n = Server THEN << >> ELSE backlog
      /\ UNCHANGED <<allowed, failures, mux, stream, asked, exit>>
  BY ConnManagerAssumption DEF CreateStreamPanics, Goto, TypeOK
<1> HIDE DEF n, closing
<1>2. TypeOK'
  <2>1. /\ end' \in [Conns -> [Nodes -> {"none", "open", "dead", "closed"}]]
        /\ hs' \in [Conns -> SUBSET Nodes] /\ broken' \subseteq Conns
    BY <1>1, CloseKeeps
  <2>2. /\ conn' \in [Nodes -> Conns \union {None}]
        /\ pc' \in [Nodes -> {"listen", "transport", "sleep", "write", "read", "accept", "gone"}]
        /\ \A m \in Nodes : pc'[m] \in {"transport", "sleep"} =>
             conn'[m] = None /\ mux'[m] = None
    BY <1>1 DEF TypeOK
  <2>3. backlog' \in Seq(Conns)
    BY <1>1 DEF TypeOK
  <2>4. dial' \in [Dialers -> {"idle", "tested", "opened", "connected", "failed", "over"}]
    BY <1>1 DEF TypeOK
  <2> QED BY <1>1, <2>1, <2>2, <2>3, <2>4 DEF TypeOK
<1>3. LoopInv'
  <2> SUFFICES ASSUME NEW m \in Nodes
               PROVE  /\ pc'[m] \in {"write", "read", "accept"} =>
                           conn'[m] \in Conns /\ end'[conn'[m]][m] \in {"open", "dead"}
                      /\ pc'[m] \notin {"write", "read", "accept"} => conn'[m] = None
                      /\ mux'[m] # None => pc'[m] = "accept" /\ mux'[m] = conn'[m]
    BY DEF LoopInv
  <2>1. CASE m = n
    BY <1>1, <2>1 DEF TypeOK
  <2>2. CASE m # n
    <3>1. pc'[m] = pc[m] /\ conn'[m] = conn[m] /\ mux'[m] = mux[m]
      BY <1>1, <2>2 DEF TypeOK
    <3> QED BY <1>1, <2>2, <3>1, CloseKeeps DEF LoopInv
  <2> QED BY <2>1, <2>2
<1>4. BacklogInv'
  <2>1. CASE n = Server
    <3>1. Len(backlog') = 0
      BY <1>1, <2>1
    <3> QED BY <3>1 DEF BacklogInv
  <2>2. CASE n # Server
    <3>1. \A k \in 1..Len(backlog) : backlog[k] \in Conns
      BY DEF TypeOK
    <3>2. backlog' = backlog /\ Server \in Nodes /\ conn'[Server] = conn[Server]
      BY <1>1, <2>2 DEF TypeOK, Nodes
    <3>3. \A k \in 1..Len(backlog) : end'[backlog[k]][Server] = end[backlog[k]][Server]
      BY <1>1, <2>2, <3>1, <3>2, CloseKeeps DEF BacklogInv
    <3> QED BY <3>2, <3>3 DEF BacklogInv
  <2> QED BY <2>1, <2>2
<1>5. EndsInv'
  <2>1. ASSUME NEW i \in Conns, NEW m \in hs'[i]
        PROVE  end'[i][m] # "none"
    BY <2>1, CloseKeeps, <1>1 DEF EndsInv, TypeOK
  <2>2. ASSUME NEW i \in Conns, NEW m \in Nodes, end'[i][m] # "none"
        PROVE  end[i][m] # "none"
    <3>1. CASE m = n
      BY <2>2, <3>1, CloseKeeps, <1>1 DEF closing
    <3>2. CASE m # n
      BY <2>2, <3>2, CloseKeeps, <1>1
    <3> QED BY <3>1, <3>2
  <2> QED BY <2>1, <2>2 DEF EndsInv, Nodes
<1>6. HandshakeInv'
  <2>1. ASSUME NEW i \in Conns, Server \in hs'[i], end'[i][Server] = "open"
        PROVE  conn'[Server] = i
    <3>1. Server \in hs[i] /\ Server \in Nodes
      BY <2>1, CloseKeeps, <1>1 DEF Nodes
    <3>2. n # Server
      <4>1. ASSUME n = Server PROVE i \in closing
        BY <3>1, <4>1 DEF closing, EndsInv
      <4> QED BY <2>1, <4>1, CloseKeeps, <1>1
    <3>3. end[i][Server] = "open" /\ conn'[Server] = conn[Server]
      BY <2>1, <3>1, <3>2, CloseKeeps, <1>1 DEF TypeOK
    <3> QED BY <3>1, <3>3 DEF HandshakeInv
  <2>2. ASSUME NEW c \in Clients, mux'[c] # None, end'[mux'[c]][c] = "open"
        PROVE  Server \in hs'[mux'[c]]
    <3>1. c \in Nodes /\ c # n /\ mux'[c] = mux[c] /\ mux[c] \in Conns
      BY <2>2, <1>1 DEF Nodes, TypeOK
    <3>2. end[mux[c]][c] = "open" /\ hs'[mux[c]] = hs[mux[c]]
      BY <2>2, <3>1, CloseKeeps, <1>1
    <3> QED BY <2>2, <3>1, <3>2 DEF HandshakeInv
  <2> QED BY <2>1, <2>2 DEF HandshakeInv
<1> QED BY <1>2, <1>3, <1>4, <1>5, <1>6

LEMMA LearnStep ==
  ASSUME IInv, NEW n \in Nodes, NEW i \in Conns, Learn(n, i) PROVE IInv'
<1> USE DEF IInv
<1>1. /\ end[i][n] = "open" /\ end' = [end EXCEPT ![i][n] = "dead"]
      /\ UNCHANGED <<allowed, listening, backlog, broken, hs, failures, pc, conn, mux, dials>>
  BY DEF Learn, links, loops
<1>2. /\ \A j \in Conns, m \in Nodes :
           end'[j][m] = IF j = i /\ m = n THEN "dead" ELSE end[j][m]
      /\ end' \in [Conns -> [Nodes -> {"none", "open", "dead", "closed"}]]
  BY <1>1 DEF TypeOK
<1>3. TypeOK'
  BY <1>1, <1>2 DEF TypeOK, dials
<1>4. \A j \in Conns, m \in Nodes :
        /\ end[j][m] \in {"open", "dead"} => end'[j][m] \in {"open", "dead"}
        /\ end'[j][m] = "none" <=> end[j][m] = "none"
        /\ end'[j][m] = "open" => end[j][m] = "open"
  BY <1>1, <1>2
<1>5. LoopInv'
  BY <1>1, <1>4 DEF LoopInv
<1>6. BacklogInv'
  <2>1. \A k \in 1..Len(backlog) : backlog[k] \in Conns
    BY DEF TypeOK
  <2> QED BY <1>1, <1>4, <2>1 DEF BacklogInv, Nodes
<1>7. EndsInv'
  BY <1>1, <1>4 DEF EndsInv, Nodes, TypeOK
<1>8. HandshakeInv'
  BY <1>1, <1>4 DEF HandshakeInv, Nodes, TypeOK
<1> QED BY <1>3, <1>5, <1>6, <1>7, <1>8

LEMMA LoopStep == ASSUME IInv, NEW n \in Nodes, Loop(n) PROVE IInv'
<1>1. ASSUME n = Server, Listen PROVE IInv'
  BY <1>1, IdleStep DEF Listen, IInv, TypeOK
<1>2. ASSUME n = Server, NotListening PROVE IInv'
  BY <1>2, IdleStep DEF NotListening, links, IInv, TypeOK
<1>3. ASSUME n \in Clients, ConnectFails(n) PROVE IInv'
  <2>1. failures' \in 0..MaxFailures
    BY <1>3, ConnManagerAssumption DEF ConnectFails, IInv, TypeOK
  <2> QED BY <1>3, <2>1, IdleStep DEF ConnectFails, IInv, TypeOK
<1>4. ASSUME n = Server, AcceptErrors PROVE IInv'
  <2>1. failures' \in 0..MaxFailures
    BY <1>4, ConnManagerAssumption DEF AcceptErrors, IInv, TypeOK
  <2> QED BY <1>4, <2>1, IdleStep DEF AcceptErrors, IInv, TypeOK
<1>5. ASSUME Wake(n) PROVE IInv'
  BY <1>5, IdleStep DEF Wake, links, IInv, TypeOK
<1>6. ASSUME NEW d \in Dialers, AcceptStream(n, d) PROVE IInv'
  <2>1. TypeOK'
    BY <1>6 DEF AcceptStream, links, loops, IInv, TypeOK
  <2> QED BY <1>6, <2>1, QuietStep DEF AcceptStream, links, loops
<1> QED BY <1>1, <1>2, <1>3, <1>4, <1>5, <1>6, ConnectStep, AcceptStep, WriteHandshakeStep,
       ReadHandshakeStep, AcceptFailsStep DEF Loop, Nodes

LEMMA CallStep == ASSUME IInv, NEW d \in Dialers, Call(d) PROVE IInv'
<1>1. CASE CreateStreamPanics(d)
  BY <1>1, CreateStreamPanicsStep
<1>2. ASSUME \/ TestMux(d) \/ CreateStream(d) \/ SendConnect(d)
             \/ HandleConnect(d) \/ EntryEnds(d) \/ ExitEnds(d)
      PROVE  IInv'
  <2>1. UNCHANGED <<allowed, listening, backlog, broken, hs, failures, end, pc, conn, mux>>
    BY <1>2 DEF TestMux, CreateStream, SendConnect, HandleConnect, EntryEnds, ExitEnds,
                links, loops
  <2>2. At[d] \in Nodes
    BY ConnManagerAssumption
  <2>3. dial' \in [Dialers -> {"idle", "tested", "opened", "connected", "failed", "over"}]
    BY <1>2 DEF TestMux, CreateStream, SendConnect, HandleConnect, EntryEnds, ExitEnds,
                IInv, TypeOK
  <2>4. stream' \in [Dialers -> Conns \union {None}]
    BY <1>2, <2>2 DEF TestMux, CreateStream, SendConnect, HandleConnect, EntryEnds, ExitEnds,
                      IInv, TypeOK
  <2>5. asked' \subseteq Dialers
    BY <1>2 DEF TestMux, CreateStream, SendConnect, HandleConnect, EntryEnds, ExitEnds,
                IInv, TypeOK
  <2>6. exit' \in [Dialers -> {"none", "syn", "handled", "served", "over"}]
    BY <1>2 DEF TestMux, CreateStream, SendConnect, HandleConnect, EntryEnds, ExitEnds,
                IInv, TypeOK
  <2>7. TypeOK'
    BY <2>1, <2>3, <2>4, <2>5, <2>6 DEF IInv, TypeOK
  <2> QED BY <2>1, <2>7, QuietStep
<1> QED BY <1>1, <1>2 DEF Call

LEMMA NetworkStep == ASSUME IInv, NEW i \in Conns, Network(i) PROVE IInv'
<1>1. CASE Break(i)
  <2>1. TypeOK'
    <3>1. failures' \in 0..MaxFailures
      BY <1>1, ConnManagerAssumption DEF Break, IInv, TypeOK
    <3> QED BY <1>1, <3>1 DEF Break, loops, dials, IInv, TypeOK
  <2> QED BY <1>1, <2>1, QuietStep DEF Break, loops
<1> QED BY <1>1, LearnStep DEF Network

LEMMA StutterStep == ASSUME IInv, UNCHANGED vars PROVE IInv'
<1>1. TypeOK'
  BY DEF vars, links, loops, dials, IInv, TypeOK
<1> QED BY <1>1, QuietStep DEF vars, links, loops

LEMMA NextIInv == IInv /\ [Next]_vars => IInv'
  BY LoopStep, CallStep, NetworkStep, StutterStep DEF Next

LEMMA AlwaysIInv == Spec => []IInv
  BY InitIInv, NextIInv, PTL DEF Spec

LEMMA SessionIsServed == IInv => OneAtATime
<1> SUFFICES ASSUME IInv, NEW c \in Clients, mux[c] # None, Open(mux[c])
             PROVE  conn[Server] = mux[c]
  BY DEF OneAtATime
<1>1. c \in Nodes /\ Server \in Nodes /\ mux[c] \in Conns
  BY DEF Nodes, IInv, TypeOK
<1>2. end[mux[c]][c] = "open"
  BY <1>1 DEF IInv, LoopInv, Open
<1>3. Server \in hs[mux[c]]
  BY <1>2 DEF IInv, HandshakeInv
<1>4. end[mux[c]][Server] = "open"
  BY <1>1, <1>3 DEF IInv, EndsInv, Open
<1> QED BY <1>1, <1>3, <1>4 DEF IInv, HandshakeInv

(* Every variable keeps its type, and a loop that is not in                *)
(* handleTransportConn has neither a connection nor a session: clear() has *)
(* been called on each way out of it.                                      *)
THEOREM TypeCorrect == Spec => []TypeOK
  BY AlwaysIInv, PTL DEF IInv

(* However many clients connect, fail and connect again, a client with a   *)
(* session over an open connection is the one the server's loop, process   *)
(* and handleTransportConn, is dealing with.                               *)
THEOREM OneClientAtATime == Spec => []OneAtATime
  BY AlwaysIInv, SessionIsServed, PTL

-----------------------------------------------------------------------------
(* CrashOnlyAfterLoss.  As long as nothing fails and everybody lets        *)
(* everybody connect, no loop ever leaves handleTransportConn, so that a   *)
(* session that Dial has seen is still there when it looks again.          *)

Untroubled == failures = 0 /\ \A c \in Clients : Agreed(c)

Calm ==
  /\ \A n \in Nodes : Alive(n) /\ (pc[n] = "accept" => mux[n] # None)
  /\ broken = {}
  /\ \A i \in Conns, n \in Nodes : end[i][n] \in {"none", "open"}
  /\ \A d \in Dialers : dial[d] = "tested" => mux[At[d]] # None

CalmInv == Untroubled => Calm

LEMMA InitCalm == Init => CalmInv
<1> SUFFICES ASSUME Init PROVE Calm
  BY DEF CalmInv
<1>1. \A n \in Nodes : Alive(n) /\ pc[n] # "accept"
  BY DEF Init, Alive
<1> QED  BY <1>1 DEF Init, Calm

(* The other one's handshake comes from somebody whom n lets connect.      *)
LEMMA NobodyIsRefused ==
  ASSUME IInv, Untroubled, NEW n \in Nodes, pc[n] = "read",
         NEW p \in hs[conn[n]] \ {n}
  PROVE  p \in allowed[n]
<1>1. /\ conn[n] \in Conns /\ end[conn[n]][n] # "none"
      /\ p \in Nodes /\ p # n /\ end[conn[n]][p] # "none"
  BY DEF IInv, LoopInv, EndsInv, TypeOK
<1>2. CASE n = Server
  BY <1>1, <1>2 DEF Untroubled, Agreed, Nodes
<1>3. CASE n # Server
  <2>1. n \in Clients /\ p = Server
    BY <1>1, <1>3 DEF IInv, EndsInv, Nodes
  <2> QED  BY <2>1 DEF Untroubled, Agreed
<1> QED  BY <1>2, <1>3

LEMMA LoopCalm ==
  ASSUME IInv, Untroubled, Calm, NEW n \in Nodes, Loop(n)
  PROVE  Calm'
<1>0. /\ TypeOK /\ \A i \in Conns : end[i][n] # "dead"
      /\ mux[n] # None => mux[n] \in Conns
      /\ pc[n] \in {"write", "read", "accept"} => conn[n] \in Conns
  BY DEF Calm, IInv, TypeOK, LoopInv
<1>1. ASSUME UNCHANGED <<broken, end, mux, dial>>, 
             NEW place, place \notin {"gone", "accept"}, Goto(n, place)
      PROVE  Calm'
  BY <1>0, <1>1 DEF Calm, Alive, Goto, TypeOK
<1>2. CASE (n = Server /\ (Listen \/ Accept \/ AcceptErrors \/ NotListening)) \/ ConnectFails(n) \/ Wake(n)
  BY <1>1, <1>2 DEF Listen, Accept, AcceptErrors, NotListening, ConnectFails, Wake, dials, links
<1>3. CASE Connect(n)
  <2>1. PICK i \in Conns :
          end' = [end EXCEPT ![i] =
                    [m \in Nodes |-> IF m \in {n, Server} THEN "open" ELSE "none"]]
    BY <1>3 DEF Connect
  <2>2. \A j \in Conns, m \in Nodes : end'[j][m] \in {"none", "open"}
    BY <2>1, <1>0 DEF Calm, TypeOK
  <2>3. UNCHANGED <<broken, mux, dial>> /\ Goto(n, "write")
    BY <1>3 DEF Connect
  <2>4. \A m \in Nodes : Alive(m)' /\ (pc'[m] = "accept" => mux'[m] # None)
    BY <2>3, <1>0 DEF Calm, Alive, Goto, TypeOK
  <2> QED  BY <2>2, <2>3, <2>4 DEF Calm
<1>4. CASE WriteHandshake(n)
  <2>1. UNCHANGED <<broken, end, mux, dial>> /\ Goto(n, "read")
    BY <1>0, <1>4 DEF WriteHandshake, dials
  <2> QED  BY <1>1, <2>1
<1>5. CASE ReadHandshake(n)
  <2>1. /\ pc[n] = "read" /\ Goto(n, "accept")
        /\ mux' = [mux EXCEPT ![n] = conn[n]]
        /\ UNCHANGED <<broken, end, dial>>
    BY <1>0, <1>5, NobodyIsRefused DEF ReadHandshake, dials
  <2>2. conn[n] # None
    BY <1>0, <2>1 DEF Conns
  <2>3. \A m \in Nodes : mux[m] # None => mux'[m] # None
    BY <2>1, <2>2, <1>0 DEF TypeOK
  <2>4. \A m \in Nodes : Alive(m)' /\ (pc'[m] = "accept" => mux'[m] # None)
    BY <2>1, <2>2, <1>0 DEF Calm, Alive, Goto, TypeOK
  <2> QED  BY <2>1, <2>3, <2>4, ConnManagerAssumption DEF Calm
<1>6. CASE AcceptFails(n)
  BY <1>0, <1>6 DEF AcceptFails, Calm
<1>7. ASSUME NEW d \in Dialers, AcceptStream(n, d)
      PROVE  Calm'
  BY <1>7 DEF AcceptStream, links, loops, Calm, Alive
<1> QED  BY <1>2, <1>3, <1>4, <1>5, <1>6, <1>7 DEF Loop


LEMMA CallCalm ==
  ASSUME IInv, Untroubled, Calm, NEW d \in Dialers, Call(d)
  PROVE  Calm'
<1>1. ~CreateStreamPanics(d)
  BY DEF CreateStreamPanics, Calm
<1>2. UNCHANGED <<broken, end, pc, mux>>
  BY <1>1 DEF Call, TestMux, CreateStream, SendConnect, HandleConnect, EntryEnds, ExitEnds,
              links, loops
<1>3. \A e \in Dialers : dial'[e] = "tested" => mux[At[e]] # None
  BY <1>1 DEF Call, TestMux, CreateStream, SendConnect, HandleConnect, EntryEnds, ExitEnds,
              dials, Calm, IInv, TypeOK
<1> QED  BY <1>2, <1>3 DEF Calm, Alive

LEMMA NetworkCalm ==
  ASSUME IInv, Untroubled', Calm, NEW i \in Conns, Network(i)
  PROVE  Calm'
<1>1. ~Break(i)
  <2> SUFFICES ASSUME Break(i) PROVE FALSE
    OBVIOUS
  <2>1. failures \in Nat /\ failures' = failures + 1 /\ failures' = 0
    BY ConnManagerAssumption DEF Break, Untroubled, IInv, TypeOK
  <2> QED  BY <2>1
<1>2. \A n \in Nodes : ~Learn(n, i)
  BY DEF Learn, Calm
<1> QED  BY <1>1, <1>2 DEF Network

LEMMA NextCalm == IInv /\ CalmInv /\ [Next]_vars => CalmInv'
<1> SUFFICES ASSUME IInv, CalmInv, [Next]_vars, Untroubled'
             PROVE  Calm'
  BY DEF CalmInv
<1>1. failures' = failures \/ failures' = failures + 1
  BY DEF Next, Loop, Call, Network, vars, links, Listen, Accept, AcceptErrors,
         NotListening, Connect,
         ConnectFails, WriteHandshake, ReadHandshake, AcceptFails, Wake, AcceptStream,
         TestMux, CreateStream, CreateStreamPanics, SendConnect, HandleConnect, EntryEnds,
         ExitEnds, Break, Learn
<1>2. allowed' = allowed
  BY DEF Next, Loop, Call, Network, vars, Listen, Accept, AcceptErrors,
         NotListening, Connect,
         ConnectFails, WriteHandshake, ReadHandshake, AcceptFails, Wake, AcceptStream,
         TestMux, CreateStream, CreateStreamPanics, SendConnect, HandleConnect, EntryEnds,
         ExitEnds, Break, Learn
<1>3. Untroubled
  <2>1. failures \in Nat
    BY ConnManagerAssumption DEF IInv, TypeOK
  <2>2. failures = 0
    BY <1>1, <2>1 DEF Untroubled
  <2> QED  BY <1>2, <2>2 DEF Untroubled, Agreed
<1>4. Calm
  BY <1>3 DEF CalmInv
<1>5. CASE UNCHANGED vars
  BY <1>4, <1>5 DEF vars, links, loops, dials, Calm, Alive
<1> QED  BY <1>3, <1>4, <1>5, LoopCalm, CallCalm, NetworkCalm DEF Next

(* No process ends on a nil m.mux, in Dial between its test and its use,   *)
(* unless something has failed or a client and the server refuse each      *)
(* other: for any number of clients and calls, in any interleaving.        *)
THEOREM CrashNeedsLoss == Spec => []CrashOnlyAfterLoss
<1>1. Init => CalmInv
  BY InitCalm
<1>2. IInv /\ CalmInv /\ [Next]_vars => CalmInv'
  BY NextCalm
<1>3. IInv /\ CalmInv => CrashOnlyAfterLoss
  <2> SUFFICES ASSUME IInv, CalmInv PROVE CrashOnlyAfterLoss
    OBVIOUS
  <2>1. failures > 0 \/ failures = 0
    BY ConnManagerAssumption DEF IInv, TypeOK
  <2> QED  BY <2>1 DEF CalmInv, Untroubled, Calm, CrashOnlyAfterLoss
<1> QED  BY <1>1, <1>2, <1>3, AlwaysIInv, PTL DEF Spec

=============================================================================
