---------------------------- MODULE TransportLink ----------------------------
(***************************************************************************)
(* Transport implements Link: history variables number the connections the *)
(* client establishes, and the sessions of Link are those numbers.  What   *)
(* the nodes write to the sessions is not in Transport.                    *)
(***************************************************************************)
EXTENDS Transport

CONSTANT MaxSessions    \* how many times the client gets a connection

ASSUME LinkAssumption == MaxSessions \in Nat \ {0}

VARIABLES
  opened,   \* how many connections the client has established
  number    \* number[i]: which of them the socket i was last

numberedVars == <<vars, opened, number>>

NumberedInit ==
  /\ Init
  /\ opened = 0
  /\ number = [i \in Socket |-> 0]

NumberedNext ==
  /\ Next
  /\ \/ /\ transportSocket' \in {transportSocket, None}
        /\ UNCHANGED <<opened, number>>
     \/ /\ transportSocket' \notin {transportSocket, None}
        /\ opened < MaxSessions
        /\ opened' = opened + 1
        /\ number' = [number EXCEPT ![transportSocket'] = opened + 1]

NumberedSpec == NumberedInit /\ [][NumberedNext]_numberedVars

Number(i) == IF i = None THEN 0 ELSE number[i]

(* A value for the client's end and one for the server's.                  *)
Ends(a, b) == [s \in {"in", "out"} |-> IF s = "in" THEN a ELSE b]

NoMessages == [k \in 1..MaxSessions |-> << >>]

Sessions == INSTANCE Link WITH
  running <- Ends(working, server = "working"),
  accepted <- opened - Len(backlog),
  session <- Ends(Number(transportSocket), Number(serverSocket)),
  chan <- Ends(NoMessages, NoMessages)

(* The nodes may rely on Link: the server meets the client's connections   *)
(* one by one in the order they were made, drops none while it is free,    *)
(* and both are told of the end of each session they were told of before   *)
(* the next one.                                                           *)
IsLink == Sessions!LinkSpec

=============================================================================
