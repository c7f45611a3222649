---------------------------- MODULE BufferedConn ----------------------------
(***************************************************************************)
(* connections/BufferedConn.go: a connection that collects what is written *)
(* and sends it in larger packets.  Write, Flush, the callbacks of timers  *)
(* and a writer goroutine share the buffer under one mutex; packets go to  *)
(* the writer through a channel of limited capacity, and a send on a full  *)
(* channel blocks with the mutex held.                                     *)
(*                                                                         *)
(* Bytes are numbered in the order of the writes; a packet <<a, b>> holds  *)
(* bytes a + 1 to b, and the buffer those after flushed up to accepted.    *)
(***************************************************************************)
EXTENDS Naturals, Sequences

CONSTANTS
  MaxSize,   \* a buffer of this size is sent at once
  Capacity,  \* of writeCh
  MaxBytes   \* how many bytes are ever written

ASSUME BufferedConnAssumption ==
  /\ MaxSize \in Nat \ {0}
  /\ Capacity \in Nat \ {0}
  /\ MaxBytes \in Nat

VARIABLES
  accepted,  \* bytes taken by Write
  flushed,   \* bytes that have left the buffer
  mu,        \* who waits in flushLocked with the mutex, or "free"
  inHand,    \* the packet flushLocked is about to send, as a sequence
  timer,     \* nil, armed, or fired
  callbacks, \* calls of onTimeout that wait for the mutex
  writeCh,
  writer,    \* where the writer goroutine is
  writing,   \* the packet it is writing, as a sequence
  sent,      \* the packets written to Conn
  closed,    \* closeCh is closed
  Conn       \* the connection below: up, broken or closed

bufferVars == <<accepted, flushed, mu, inHand, timer, callbacks>>
writerVars == <<writer, writing, sent>>
vars == <<bufferVars, writeCh, writerVars, closed, Conn>>

Packet == (0..MaxBytes) \X (0..MaxBytes)
AtMostOne == {<< >>} \cup {<<p>> : p \in Packet}
Caller == {"Write", "Flush", "onTimeout", "writer"}

TypeOK ==
  /\ accepted \in 0..MaxBytes
  /\ flushed \in 0..accepted
  /\ mu \in {"free"} \cup Caller
  /\ inHand \in AtMostOne
  /\ mu = "free" <=> inHand = << >>
  /\ timer \in {"nil", "armed", "fired"}
  /\ callbacks \in Nat
  /\ writeCh \in Seq(Packet) /\ Len(writeCh) <= Capacity
  /\ writer \in {"select", "writing", "closing", "flushing", "done"}
  /\ writing \in AtMostOne
  /\ writer = "writing" <=> writing # << >>
  /\ writer = "flushing" <=> mu = "writer"
  /\ sent \in Seq(Packet)
  /\ closed \in BOOLEAN
  /\ Conn \in {"up", "broken", "closed"}

Init ==
  /\ accepted = 0 /\ flushed = 0
  /\ mu = "free" /\ inHand = << >>
  /\ timer = "nil" /\ callbacks = 0
  /\ writeCh = << >>
  /\ writer = "select" /\ writing = << >> /\ sent = << >>
  /\ closed = FALSE
  /\ Conn = "up"

-----------------------------------------------------------------------------
(* flushLocked, up to its select: the timer is stopped (a callback that    *)
(* has started already is not) and the buffer, up to byte end, becomes a   *)
(* packet.                                                                 *)
flushLocked(caller, end) ==
  /\ inHand' = << <<flushed, end>> >>
  /\ flushed' = end
  /\ timer' = "nil"
  /\ mu' = caller

(* Mutant: a byte that starts a packet does not start the timer when the   *)
(* packet before it was sent for its size.                                 *)
Write_TimerOnce(n) ==
  /\ mu = "free"
  /\ accepted + n <= MaxBytes
  /\ accepted' = accepted + n
  /\ \/ /\ accepted + n - flushed >= MaxSize
        /\ flushLocked("Write", accepted + n)
     \/ /\ accepted + n - flushed < MaxSize
        /\ timer' = IF accepted = 0 THEN "armed" ELSE timer
        /\ UNCHANGED <<flushed, mu, inHand>>
  /\ UNCHANGED <<callbacks, writeCh, writerVars, closed, Conn>>

Write(n) ==
  /\ mu = "free"
  /\ accepted + n <= MaxBytes
  /\ accepted' = accepted + n
  /\ \/ /\ accepted + n - flushed >= MaxSize
        /\ flushLocked("Write", accepted + n)
     \/ /\ accepted + n - flushed < MaxSize
        /\ timer' = IF accepted = flushed /\ timer = "nil" THEN "armed" ELSE timer
        /\ UNCHANGED <<flushed, mu, inHand>>
  /\ UNCHANGED <<callbacks, writeCh, writerVars, closed, Conn>>

Flush ==
  /\ mu = "free" /\ accepted > flushed
  /\ flushLocked("Flush", accepted)
  /\ UNCHANGED <<accepted, callbacks, writeCh, writerVars, closed, Conn>>

TimerFires ==
  /\ timer = "armed"
  /\ timer' = "fired"
  /\ callbacks' = callbacks + 1
  /\ UNCHANGED <<accepted, flushed, mu, inHand, writeCh, writerVars, closed, Conn>>

(* A callback flushes what it finds, which may be nothing.                 *)
onTimeout ==
  /\ mu = "free" /\ callbacks > 0
  /\ callbacks' = callbacks - 1
  /\ \/ accepted = flushed /\ UNCHANGED <<flushed, mu, inHand, timer>>
     \/ accepted > flushed /\ flushLocked("onTimeout", accepted)
  /\ UNCHANGED <<accepted, writeCh, writerVars, closed, Conn>>

-----------------------------------------------------------------------------
(* The select of flushLocked, and the mutex is given back.                 *)

Unlock ==
  /\ mu' = "free" /\ inHand' = << >>
  /\ writer' = IF mu = "writer" THEN "done" ELSE writer
  /\ UNCHANGED <<accepted, flushed, timer, callbacks, writing, sent, closed, Conn>>

(* Mutant: the channel has no limit.                                       *)
SendToWriter_Unlimited ==
  /\ mu # "free"
  /\ writeCh' = writeCh \o inHand
  /\ Unlock

SendToWriter ==
  /\ mu # "free" /\ Len(writeCh) < Capacity
  /\ writeCh' = writeCh \o inHand
  /\ Unlock

(* Mutant: the select does not look at closeCh.                            *)
SelectClosed_Never ==
  /\ FALSE
  /\ UNCHANGED writeCh
  /\ Unlock

(* closeCh is closed: the packet is dropped.                               *)
SelectClosed ==
  /\ mu # "free" /\ closed
  /\ UNCHANGED writeCh
  /\ Unlock

-----------------------------------------------------------------------------
(* The writer goroutine.                                                   *)

WriterTakes ==
  /\ writer = "select" /\ writeCh # << >>
  /\ writing' = << Head(writeCh) >>
  /\ writeCh' = Tail(writeCh)
  /\ writer' = "writing"
  /\ UNCHANGED <<bufferVars, sent, closed, Conn>>

(* Mutant: a packet is written twice when the connection is slow.          *)
WriterWrote_Again ==
  /\ writer = "writing" /\ Conn = "up"
  /\ sent' = sent \o writing
  /\ \/ writer' = "select" /\ writing' = << >>
     \/ UNCHANGED <<writer, writing>>
  /\ UNCHANGED <<bufferVars, writeCh, closed, Conn>>

WriterWrote ==
  /\ writer = "writing" /\ Conn = "up"
  /\ sent' = sent \o writing
  /\ writer' = "select" /\ writing' = << >>
  /\ UNCHANGED <<bufferVars, writeCh, closed, Conn>>

(* Conn.Write fails and the writer returns.                                *)
WriterFails ==
  /\ writer = "writing" /\ Conn # "up"
  /\ writer' = "done" /\ writing' = << >>
  /\ UNCHANGED <<bufferVars, writeCh, sent, closed, Conn>>

(* Go's select takes any of its ready cases, so that a packet may wait in  *)
(* writeCh when the writer sees that closeCh is closed.                    *)
WriterSeesClose ==
  /\ writer = "select" /\ closed
  /\ writer' = "closing"
  /\ UNCHANGED <<bufferVars, writeCh, writing, sent, closed, Conn>>

(* It flushes the buffer into its own channel, and returns.                *)
WriterCloses ==
  /\ writer = "closing" /\ mu = "free"
  /\ \/ /\ accepted = flushed
        /\ writer' = "done"
        /\ UNCHANGED <<flushed, mu, inHand, timer>>
     \/ /\ accepted > flushed
        /\ flushLocked("writer", accepted)
        /\ writer' = "flushing"
  /\ UNCHANGED <<accepted, callbacks, writeCh, writing, sent, closed, Conn>>

-----------------------------------------------------------------------------
(* Close closes closeCh, sleeps longer than maxDelay, and closes Conn.     *)
Close ==
  /\ ~closed
  /\ closed' = TRUE
  /\ UNCHANGED <<bufferVars, writeCh, writerVars, Conn>>

CloseConn ==
  /\ closed /\ Conn # "closed"
  /\ Conn' = "closed"
  /\ UNCHANGED <<bufferVars, writeCh, writerVars, closed>>

ConnBreaks ==
  /\ Conn = "up"
  /\ Conn' = "broken"
  /\ UNCHANGED <<bufferVars, writeCh, writerVars, closed>>

Next ==
  \/ \E n \in 1..MaxBytes : Write(n)
  \/ Flush
  \/ TimerFires
  \/ onTimeout
  \/ SendToWriter
  \/ SelectClosed
  \/ WriterTakes
  \/ WriterWrote
  \/ WriterFails
  \/ WriterSeesClose
  \/ WriterCloses
  \/ Close
  \/ CloseConn
  \/ ConnBreaks

Spec == Init /\ [][Next]_vars

(* Timers fire, goroutines run, Conn.Write returns, Close goes on after    *)
(* its sleep, and Go's mutex starves nobody.                               *)
Fairness ==
  /\ WF_vars(TimerFires)
  /\ SF_vars(onTimeout)
  /\ WF_vars(SendToWriter \/ SelectClosed)
  /\ WF_vars(WriterTakes \/ WriterSeesClose)
  /\ WF_vars(WriterWrote \/ WriterFails)
  /\ SF_vars(WriterCloses)
  /\ WF_vars(CloseConn)

FairSpec == Spec /\ Fairness

-----------------------------------------------------------------------------
(* Properties.                                                             *)

(* Each packet begins where the one before it ended.                       *)
Contiguous(packets) ==
  \A i \in 1..Len(packets) :
    packets[i][1] = (IF i = 1 THEN 0 ELSE packets[i - 1][2])

(* What reaches the connection is in order, and no byte is sent twice, also *)
(* when packets are dropped at the end.  As long as nobody closes it, it is *)
(* the stream that was written, and, while the connection works, the rest   *)
(* of the stream is in exactly one of the writer's hands, its channel, the  *)
(* hands of whoever flushes, and the buffer, in that order.                 *)
StreamIntact ==
  /\ \A i, j \in 1..Len(sent) : i < j => sent[i][2] <= sent[j][1]
  /\ ~closed =>
       /\ Contiguous(sent)
       /\ Conn = "up" =>
            Contiguous(sent \o writing \o writeCh \o inHand \o << <<flushed, accepted>> >>)

LastSent == IF sent = << >> THEN 0 ELSE sent[Len(sent)][2]

(* A byte that Write took is sent in the end, unless the connection breaks *)
(* or is closed: it is never forgotten in the buffer without a timer or a  *)
(* callback, whatever stale callbacks, Flush and full packets did to those. *)
BytesAreSent ==
  \A n \in 1..MaxBytes :
    accepted >= n ~> (LastSent >= n \/ closed \/ Conn = "broken")

(* Nobody waits for ever: the mutex is held for good only when the writer   *)
(* is gone, because the connection broke, and nobody calls Close, and after *)
(* Close the writer goroutine ends.                                         *)
NobodyBlocks ==
  /\ mu # "free" ~> (mu = "free" \/ (writer = "done" /\ ~closed))
  /\ closed ~> writer = "done"

(* What the comment of the type says: bytes go out no later than maxDelay.  *)
(* So those taken before Close are sent too, unless its sleep is too short  *)
(* for the writer to end.                                                   *)
SentInTime ==
  \A n \in 1..MaxBytes :
    (accepted >= n /\ ~closed) ~>
      \/ LastSent >= n \/ Conn = "broken"
      \/ Conn = "closed" /\ writer # "done"

=============================================================================
