----------------------------- MODULE FrameChannel -----------------------------
(***************************************************************************)
(* What two TransportSockets promise the multiplexers that use them, for   *)
(* one direction: the buffers written at one end are emitted at the other, *)
(* whole, in order and once each, until one of the ends is closed.         *)
(***************************************************************************)
EXTENDS Naturals, Sequences

CONSTANT Buffers

VARIABLES
  written,  \* the buffers given to writeBuffer
  emitted,  \* the buffers emitted at the other end
  open      \* the ends that are open

channelVars == <<written, emitted, open>>

Init == written = << >> /\ emitted = << >> /\ open = {"writer", "reader"}

Write(b) ==
  /\ "writer" \in open
  /\ written' = Append(written, b)
  /\ UNCHANGED <<emitted, open>>

Emit ==
  /\ "reader" \in open /\ Len(emitted) < Len(written)
  /\ emitted' = Append(emitted, written[Len(emitted) + 1])
  /\ UNCHANGED <<written, open>>

Close(end) == open' = open \ {end} /\ UNCHANGED <<written, emitted>>

Next ==
  \/ \E b \in Buffers : Write(b)
  \/ Emit
  \/ \E end \in open : Close(end)

Spec == Init /\ [][Next]_channelVars
===============================================================================
