------------------------------ MODULE MCVkWebRTC ------------------------------
(***************************************************************************)
(* The transports are alike, so whatever they do some other behaviour does *)
(* with their names exchanged: those in which First is the first to join   *)
(* the call are enough, and are half as many.                              *)
(***************************************************************************)
EXTENDS VkWebRTC

CONSTANT First

ASSUME FirstAssumption == First \in Transports

VARIABLE hasWaited    \* history: nothing has failed, and one has waited alone

historyVars == <<vars, hasWaited>>

FirstJoins == owner = << >> \/ Head(owner) = First

MCInit == Init /\ hasWaited = FALSE

MCNext ==
  /\ Next /\ FirstJoins'
  /\ hasWaited' = /\ NothingFailed'
                  /\ hasWaited \/ \E t \in Transports : WaitsAlone(t)

MCSpec == MCInit /\ [][MCNext]_historyVars /\ Fairness

(* Two transports that stay in the call, when nothing fails, end with a    *)
(* data channel between them, unless each has answered the other's CONNECT *)
(* and both wait for an answer to their offers for ever.  That does not    *)
(* happen when one has been waiting before the other joins.                *)
PairsUp ==
  <>[](NothingFailed /\ (hasWaited \/ \A t \in Transports : InCall(t)))
    => <>[](Connected \/ (Crossed /\ ~hasWaited))
===============================================================================
