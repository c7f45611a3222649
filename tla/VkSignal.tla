------------------------------- MODULE VkSignal -------------------------------
(***************************************************************************)
(* transport/vk-calls/VkWebSocketSignalServer.js and the signal server of  *)
(* VK calls behind it.  Every websocket that opens joins the call as a new *)
(* participant; the server tells it who is there and tells the others of   *)
(* it, and relays "custom-data" from one participant to another.  That a   *)
(* participant has left it notices long after the websocket has gone: the  *)
(* comment in handleOnParticipantMessage says 30 to 80 seconds.            *)
(*                                                                         *)
(* The websockets are those of the transports; a name of a participant is  *)
(* never used twice.  What was sent over a websocket that is lost has      *)
(* reached the server.                                                     *)
(***************************************************************************)
EXTENDS Naturals, Sequences

CONSTANTS
  Transports,
  MaxJoins     \* how many websockets ever open

ASSUME SignalAssumption == MaxJoins \in Nat

Participant == 1..MaxJoins
None == 0

VARIABLES
  fetching,  \* transports that wait for the address of the signal server
  ws,        \* the websocket of vkWebSocketSignalServer; none if that is null
  self,      \* the participant the open websocket stands for
  inbox,     \* notifications on their way to the transport
  members,   \* participants who the server thinks are in the call
  owner      \* the transport behind each participant

signalVars == <<fetching, ws, self, inbox, members, owner>>

MessageType == {"CONNECT", "ACCEPT", "BUFFER", "SDP_OFFER", "SDP_ANSWER"}

(* The notifications the code reads.  about is a set of participants: all  *)
(* who are in the call, the one who joined or left, or the sender; data is *)
(* the number of a buffer or what an SDP stands for.                       *)
Notification ==
  [type : {"connection", "registered-peer", "hungup"} \cup MessageType,
   about : SUBSET Participant,
   data : Nat \X Nat]

Notice(type, about) == [type |-> type, about |-> about, data |-> <<0, 0>>]
CustomData(type, sender, data) == [type |-> type, about |-> {sender}, data |-> data]

SignalTypeOK ==
  /\ fetching \in [Transports -> BOOLEAN]
  /\ ws \in [Transports -> {"none", "opening", "open", "closing"}]
  /\ self \in [Transports -> Participant \cup {None}]
  /\ \A t \in Transports : self[t] # None <=> ws[t] = "open"
  /\ inbox \in [Transports -> Seq(Notification)]
  /\ owner \in Seq(Transports) /\ Len(owner) <= MaxJoins
  /\ members \subseteq 1..Len(owner)
  /\ \A t \in Transports : self[t] # None => self[t] \in members /\ owner[self[t]] = t

SignalInit ==
  /\ fetching = [t \in Transports |-> FALSE]
  /\ ws = [t \in Transports |-> "none"]
  /\ self = [t \in Transports |-> None]
  /\ inbox = [t \in Transports |-> << >>]
  /\ members = {} /\ owner = << >>

-----------------------------------------------------------------------------
(* The queues box with a notification added for each participant of to     *)
(* whose websocket is open; for the others it is lost.                     *)
Posted(box, to, n) ==
  [t \in Transports |->
     IF self[t] # None /\ self[t] \in to THEN Append(box[t], n) ELSE box[t]]

Received(t) == [inbox EXCEPT ![t] = Tail(@)]

FetchUrl(t) ==
  /\ fetching' = [fetching EXCEPT ![t] = TRUE]
  /\ UNCHANGED <<ws, self, inbox, members, owner>>

(* VkWebSocketSignalServer.start, once the address is known.               *)
SignalStart(t) ==
  /\ fetching[t]
  /\ fetching' = [fetching EXCEPT ![t] = FALSE]
  /\ ws' = [ws EXCEPT ![t] = "opening"]
  /\ UNCHANGED <<self, inbox, members, owner>>

(* handleWebSocketOnOpen, and what the server does then.                   *)
WebSocketOpens(t) ==
  LET p == Len(owner) + 1
  IN  /\ ws[t] = "opening" /\ p <= MaxJoins
      /\ ws' = [ws EXCEPT ![t] = "open"]
      /\ self' = [self EXCEPT ![t] = p]
      /\ owner' = Append(owner, t)
      /\ members' = members \cup {p}
      /\ inbox' = [Posted(inbox, members, Notice("registered-peer", {p}))
                     EXCEPT ![t] = <<Notice("connection", members \cup {p})>>]
      /\ UNCHANGED fetching

(* The websocket leaves the open state: nothing is read from it any more.  *)
SignalLeaves(t, next) ==
  /\ ws' = [ws EXCEPT ![t] = next]
  /\ self' = [self EXCEPT ![t] = None]
  /\ inbox' = [inbox EXCEPT ![t] = << >>]
  /\ UNCHANGED <<members, owner>>

(* The server has noticed that the websocket of p is gone.                 *)
Hungup(p) ==
  /\ p \in members /\ \A t \in Transports : self[t] # p
  /\ members' = members \ {p}
  /\ inbox' = Posted(inbox, members, Notice("hungup", {p}))
  /\ UNCHANGED <<fetching, ws, self, owner>>
===============================================================================
