-------------------------------- MODULE Relay --------------------------------
(***************************************************************************)
(* What the tunnel promises to the programs on its two sides, with no      *)
(* messages, tables or sessions: a client's socket at the "in" end and the *)
(* destination's at the "out" end are joined as by one TCP connection that *)
(* may break.  Every socket is handed what the other one read, from the    *)
(* first chunk on, in order; a socket that dies takes the other one with   *)
(* it, which first gets all that was read; and when an end goes offline    *)
(* all its sockets die together.                                           *)
(***************************************************************************)
EXTENDS Naturals, Sequences

CONSTANT Conns

VARIABLES
  online,     \* online[s]: the end s has a tunnel
  phase,      \* phase[s][c]: the life of c's socket at s
  produced,   \* produced[s][c]: how many chunks it has read
  delivered   \* delivered[s][c]: the chunks that were written to it

relayVars == <<online, phase, produced, delivered>>

Ends == {"in", "out"}
Other(s) == IF s = "in" THEN "out" ELSE "in"
Alive == {"connecting", "open"}
Gone == {"ended", "destroyed"}

(* The first n chunks that c's socket read.                                *)
FirstChunks(c, n) == [k \in 1..n |-> <<c, k>>]

RelayInit ==
  /\ online = [s \in Ends |-> FALSE]
  /\ phase = [s \in Ends |-> [c \in Conns |-> "none"]]
  /\ produced = [s \in Ends |-> [c \in Conns |-> 0]]
  /\ delivered = [s \in Ends |-> [c \in Conns |-> << >>]]

GoesOnline(s) ==
  /\ ~online[s]
  /\ online' = [online EXCEPT ![s] = TRUE]
  /\ UNCHANGED <<phase, produced, delivered>>

GoesOffline(s) ==
  /\ online[s]
  /\ online' = [online EXCEPT ![s] = FALSE]
  /\ phase' = [phase EXCEPT ![s] = [c \in Conns |->
                 IF phase[s][c] \in Alive THEN "destroyed" ELSE phase[s][c]]]
  /\ UNCHANGED <<produced, delivered>>

ClientComes(c) ==
  /\ online["in"] /\ phase["in"][c] = "none"
  /\ phase' = [phase EXCEPT !["in"][c] = "open"]
  /\ UNCHANGED <<online, produced, delivered>>

DestinationSought(c) ==
  /\ online["out"] /\ phase["out"][c] = "none" /\ phase["in"][c] # "none"
  /\ phase' = [phase EXCEPT !["out"][c] = "connecting"]
  /\ UNCHANGED <<online, produced, delivered>>

(* c's socket at s is open, or opens now, and is handed the next chunks,   *)
(* or none.                                                                *)
Hand(s, c) ==
  /\ phase[s][c] \in Alive
  /\ phase' = [phase EXCEPT ![s][c] = "open"]
  /\ \E n \in Len(delivered[s][c])..produced[Other(s)][c] :
       delivered' = [delivered EXCEPT ![s][c] = FirstChunks(c, n)]
  /\ UNCHANGED <<online, produced>>

Read(s, c) ==
  /\ phase[s][c] = "open"
  /\ produced' = [produced EXCEPT ![s][c] = @ + 1]
  /\ UNCHANGED <<online, phase, delivered>>

(* The socket dies of itself ...                                           *)
Dies(s, c) ==
  /\ phase[s][c] \in Alive
  /\ phase' = [phase EXCEPT ![s][c] = "ended"]
  /\ UNCHANGED <<online, produced, delivered>>

(* ... or after the other one, of whose chunks it has had the last.        *)
Follows(s, c) ==
  /\ phase[s][c] \in Alive
  /\ phase[Other(s)][c] \in Gone
  /\ phase[s][c] = "open" => Len(delivered[s][c]) = produced[Other(s)][c]
  /\ phase' = [phase EXCEPT ![s][c] = "destroyed"]
  /\ UNCHANGED <<online, produced, delivered>>

RelayNext ==
  \/ \E s \in Ends : GoesOnline(s) \/ GoesOffline(s)
  \/ \E c \in Conns : ClientComes(c) \/ DestinationSought(c)
  \/ \E s \in Ends, c \in Conns :
       Hand(s, c) \/ Read(s, c) \/ Dies(s, c) \/ Follows(s, c)

RelaySpec == RelayInit /\ [][RelayNext]_relayVars

=============================================================================
