--------------------------- MODULE MCConnManager ----------------------------
(* A server with the SOCKS proxy and two clients, of whom the first has an *)
(* output and is agreed with; the second is let in or not, and lets the    *)
(* server in or not.                                                       *)
EXTENDS ConnManager

CONSTANTS c1, c2, d1

MCAt == [d \in {d1} |-> Server]

MCConfigurations ==
  {a \in [Nodes -> SUBSET Nodes] :
     /\ c1 \in a[Server] /\ a[Server] \subseteq Clients
     /\ a[c1] = {Server} /\ a[c2] \subseteq {Server}}
=============================================================================
