-------------------------------- MODULE Framing -------------------------------
(***************************************************************************)
(* One direction between two transport sockets (TransportSocket in ntun.js *)
(* and utils/DataRateLimiter.js).  A buffer is sent as its length and then *)
(* its bytes, in chunks that the rate limiter cuts and delays; the network *)
(* cuts them anew and joins them; processData puts the buffers together.   *)
(*                                                                         *)
(* The loops of the code are steps here, one for each turn: while one is   *)
(* under way, nothing else happens in its process.  Buffers have at least  *)
(* one byte, as all messages of the multiplexer do.  The cipher makes a    *)
(* buffer longer, which is left out, or fails.                             *)
(***************************************************************************)
EXTENDS Naturals, Sequences, SequencesExt

CONSTANTS
  LengthSize,          \* bytes of the length: 4 in the code
  MaximumBufferSize, MaximumChunkSize,
  RateLimitBytesPerSecond,
  RateLimitInterval,   \* in milliseconds
  Sizes,               \* of the buffers that are written
  MaxBuffers           \* how many are written

ASSUME FramingAssumption ==
  /\ LengthSize \in Nat \ {0} /\ MaximumChunkSize \in Nat \ {0}
  /\ MaximumBufferSize \in Nat
  /\ RateLimitBytesPerSecond \in Nat /\ RateLimitInterval \in Nat
  /\ Sizes \subseteq Nat \ {0} /\ MaxBuffers \in Nat

VARIABLES
  limited,     \* is there a dataRateLimiter?
  open,        \* the ends whose socket has not emitted 'close'
  written,     \* the buffers given to writeBuffer
  pieces,      \* the chunks the running writeBuffer has still to write
  queue,       \* rateLimitQueue
  processing,  \* processRateLimitQueue is in its loop
  spent,       \* intervalWrittenBytesAmount
  elapsed,     \* the interval that was started is over
  timers,      \* calls of processRateLimitQueue that are due
  wire,        \* bytes under way
  chunks, chunksTotalSize, sizeToRead, state,  \* of the reading end
  emitted      \* the buffers it has emitted

limiterVars == <<queue, processing, spent, elapsed, timers>>
writerVars == <<limited, written, pieces, limiterVars>>
readerVars == <<chunks, chunksTotalSize, sizeToRead, state, emitted>>
vars == <<open, writerVars, wire, readerVars>>

(* A byte of the length n, or byte i of the b-th buffer.                   *)
LengthBytes(n) == [i \in 1..LengthSize |-> <<"length", n, i>>]
BufferBytes(b, n) == [i \in 1..n |-> <<"buffer", b, i>>]

Byte == ({"length"} \X Sizes \X (1..LengthSize))
          \cup ({"buffer"} \X (1..MaxBuffers) \X Nat)
Bytes == Seq(Byte)
Buffers == {BufferBytes(b, n) : b \in 1..MaxBuffers, n \in Sizes}

(* DataRateLimiter.constructor: what one interval allows.                  *)
rateLimitBytesPerInterval == (RateLimitBytesPerSecond * RateLimitInterval) \div 1000

TypeOK ==
  /\ limited \in BOOLEAN
  /\ open \subseteq {"writer", "reader"}
  /\ written \in Seq(Buffers) /\ Len(written) <= MaxBuffers
  /\ pieces \in Seq(Bytes) /\ queue \in Seq(Bytes)
  /\ processing \in BOOLEAN /\ elapsed \in BOOLEAN
  /\ spent \in 0..rateLimitBytesPerInterval
  /\ timers \in Nat
  /\ wire \in Bytes
  /\ chunks \in Seq(Bytes)
  /\ chunksTotalSize = Len(FlattenSeq(chunks))
  /\ sizeToRead \in Nat \ {0}
  /\ state \in {"STATE_READ_LENGTH", "STATE_READ_BUFFER"}
  /\ emitted \in Seq(Bytes)

Init ==
  /\ limited \in BOOLEAN
  /\ open = {"writer", "reader"}
  /\ written = << >> /\ pieces = << >>
  /\ queue = << >> /\ processing = FALSE /\ spent = 0 /\ elapsed = FALSE /\ timers = 0
  /\ wire = << >>
  /\ chunks = << >> /\ chunksTotalSize = 0
  /\ sizeToRead = LengthSize /\ state = "STATE_READ_LENGTH"
  /\ emitted = << >>

-----------------------------------------------------------------------------
(* Writing.                                                                *)

(* The process of the writer is in none of its loops.                      *)
Idle == pieces = << >> /\ ~processing

Cut(bytes) ==
  LET n == (Len(bytes) + MaximumChunkSize - 1) \div MaximumChunkSize
  IN  [i \in 1..n |-> SubSeq(bytes, (i - 1) * MaximumChunkSize + 1,
                             IF i = n THEN Len(bytes) ELSE i * MaximumChunkSize)]

writeBuffer(n) ==
  LET buffer == BufferBytes(Len(written) + 1, n)
  IN  /\ Idle /\ "writer" \in open /\ Len(written) < MaxBuffers
      /\ n <= MaximumBufferSize
      /\ written' = Append(written, buffer)
      /\ pieces' = <<LengthBytes(n)>> \o Cut(buffer)
      /\ UNCHANGED <<open, limited, limiterVars, wire, readerVars>>

(* processRateLimitQueue, up to its loop: an interval that is over is      *)
(* followed by a new one.                                                  *)
processRateLimitQueue ==
  /\ processing' = TRUE
  /\ spent' = IF elapsed THEN 0 ELSE spent
  /\ elapsed' = FALSE

writeData ==
  /\ pieces # << >> /\ ~processing
  /\ pieces' = Tail(pieces)
  /\ \/ /\ limited
        /\ queue' = Append(queue, Head(pieces))
        /\ processRateLimitQueue
        /\ UNCHANGED <<timers, wire>>
     \/ /\ ~limited
        /\ wire' = wire \o Head(pieces)
        /\ UNCHANGED limiterVars
  /\ UNCHANGED <<open, limited, written, readerVars>>

MaySend == queue # << >> /\ spent < rateLimitBytesPerInterval

(* Mutant: what is cut off the chunk is forgotten.                         *)
sendFromQueue_DropsRest ==
  LET current == Head(queue)
      remaining == rateLimitBytesPerInterval - spent
      sent == IF Len(current) <= remaining THEN current ELSE SubSeq(current, 1, remaining)
  IN  /\ processing /\ MaySend
      /\ queue' = Tail(queue)
      /\ wire' = wire \o sent
      /\ spent' = spent + Len(sent)
      /\ UNCHANGED <<open, limited, written, pieces, processing, elapsed, timers, readerVars>>

(* Mutant: a chunk is never cut.                                           *)
sendFromQueue_Uncut ==
  /\ processing /\ MaySend
  /\ queue' = Tail(queue)
  /\ wire' = wire \o Head(queue)
  /\ spent' = spent + Len(Head(queue))
  /\ UNCHANGED <<open, limited, written, pieces, processing, elapsed, timers, readerVars>>

(* One turn of its loop: the first chunk, or what may be sent of it.       *)
sendFromQueue ==
  LET current == Head(queue)
      remaining == rateLimitBytesPerInterval - spent
      sent == IF Len(current) <= remaining THEN current ELSE SubSeq(current, 1, remaining)
      rest == SubSeq(current, Len(sent) + 1, Len(current))
  IN  /\ processing /\ MaySend
      /\ queue' = (IF rest = << >> THEN << >> ELSE <<rest>>) \o Tail(queue)
      /\ wire' = wire \o sent
      /\ spent' = spent + Len(sent)
      /\ UNCHANGED <<open, limited, written, pieces, processing, elapsed, timers, readerVars>>

(* Mutant: the rest of the queue waits for the next send().                *)
endProcessing_NoTimer ==
  /\ processing /\ ~MaySend
  /\ processing' = FALSE
  /\ UNCHANGED <<open, limited, written, pieces, queue, spent, elapsed, timers, wire, readerVars>>

(* Its end.  A timer is set though others may be under way.                *)
endProcessing ==
  /\ processing /\ ~MaySend
  /\ processing' = FALSE
  /\ timers' = IF queue # << >> THEN timers + 1 ELSE timers
  /\ UNCHANGED <<open, limited, written, pieces, queue, spent, elapsed, wire, readerVars>>

rateLimitTimer ==
  /\ Idle /\ timers > 0
  /\ timers' = timers - 1
  /\ \/ queue = << >> /\ UNCHANGED <<processing, spent, elapsed>>
     \/ queue # << >> /\ processRateLimitQueue
  /\ UNCHANGED <<open, limited, written, pieces, queue, wire, readerVars>>

TimePasses ==
  /\ ~elapsed /\ elapsed' = TRUE
  /\ UNCHANGED <<open, limited, written, pieces, queue, processing, spent, timers,
                 wire, readerVars>>

WriterEnds ==
  /\ Idle /\ "writer" \in open
  /\ open' = open \ {"writer"}
  /\ queue' = << >> /\ elapsed' = TRUE
  /\ UNCHANGED <<limited, written, pieces, processing, spent, wire, readerVars>>

(* 'close' of the writer's socket: clear().  Of the timers under way it    *)
(* stops the one that was set last, if that has not fired.                 *)
WriterCloses == WriterEnds /\ timers' \in {timers, timers - 1} \cap Nat

(* "Buffer too large", or a buffer of any size that the cipher fails on,   *)
(* before a byte of it is sent.  The exception, or 'error' of a transport  *)
(* socket to which nobody listens, ends the process.                       *)
writeBufferThrows == WriterEnds /\ timers' = 0
-----------------------------------------------------------------------------
(* Reading.                                                                *)

Complete == chunksTotalSize >= sizeToRead

(* The network hands over the next bytes, as many as it likes.             *)
handleOnData ==
  /\ "reader" \in open /\ ~Complete
  /\ \E k \in 1..Len(wire) :
       /\ chunks' = Append(chunks, SubSeq(wire, 1, k))
       /\ chunksTotalSize' = chunksTotalSize + k
       /\ wire' = SubSeq(wire, k + 1, Len(wire))
  /\ UNCHANGED <<open, writerVars, sizeToRead, state, emitted>>

(* The chunks to read: the fewest that hold sizeToRead bytes.              *)
ChunksToRead ==
  CHOOSE n \in 1..Len(chunks) :
    /\ Len(FlattenSeq(SubSeq(chunks, 1, n))) >= sizeToRead
    /\ Len(FlattenSeq(SubSeq(chunks, 1, n - 1))) < sizeToRead

(* readUInt32BE: the number that the first byte is one of.                 *)
Decoded(bytes) == bytes[1][2]

readAhead == FlattenSeq(SubSeq(chunks, 1, ChunksToRead))

(* The switch: what has been read is a length or a buffer.                 *)
Interpret(bytes) ==
  \/ /\ state = "STATE_READ_LENGTH"
     /\ state' = "STATE_READ_BUFFER"
     /\ sizeToRead' = Decoded(bytes)
     /\ UNCHANGED emitted
  \/ /\ state = "STATE_READ_BUFFER"
     /\ state' = "STATE_READ_LENGTH"
     /\ sizeToRead' = LengthSize
     /\ emitted' = Append(emitted, bytes)

(* One turn of processData.  What follows in its last chunk stays as the   *)
(* first chunk.                                                            *)
processData ==
  LET rest == SubSeq(readAhead, sizeToRead + 1, Len(readAhead))
  IN  /\ Complete
      /\ Interpret(SubSeq(readAhead, 1, sizeToRead))
      /\ chunks' = (IF rest = << >> THEN << >> ELSE <<rest>>)
                     \o SubSeq(chunks, ChunksToRead + 1, Len(chunks))
      /\ chunksTotalSize' = chunksTotalSize - sizeToRead
      /\ UNCHANGED <<open, writerVars, wire>>

(* 'close' of the reader's socket: clear().  What is under way is lost.    *)
ReaderCloses ==
  /\ "reader" \in open /\ ~Complete
  /\ open' = open \ {"reader"}
  /\ wire' = << >> /\ chunks' = << >> /\ chunksTotalSize' = 0
  /\ sizeToRead' = LengthSize /\ state' = "STATE_READ_LENGTH"
  /\ UNCHANGED <<writerVars, emitted>>

-----------------------------------------------------------------------------
Next ==
  \/ \E n \in Sizes : writeBuffer(n)
  \/ writeData \/ sendFromQueue \/ endProcessing
  \/ rateLimitTimer \/ TimePasses
  \/ handleOnData \/ processData
  \/ WriterCloses \/ writeBufferThrows \/ ReaderCloses

Spec == Init /\ [][Next]_vars

(* Loops go on, time passes, timers fire and bytes arrive.  Nobody has to  *)
(* write or to close.                                                      *)
Fairness ==
  /\ WF_vars(writeData) /\ WF_vars(sendFromQueue) /\ WF_vars(endProcessing)
  /\ WF_vars(TimePasses) /\ WF_vars(rateLimitTimer)
  /\ WF_vars(handleOnData) /\ WF_vars(processData)

FairSpec == Spec /\ Fairness

-----------------------------------------------------------------------------
(* Whatever the chunks are cut into, by writeBuffer, by the rate limiter   *)
(* and by the network, the transport sockets are the channel of whole      *)
(* buffers that the multiplexers take them for.                            *)
Channel == INSTANCE FrameChannel
IsChannel == Channel!Spec

(* Every buffer arrives, unless one of the ends is closed: the limiter and *)
(* processData never keep the last bytes back.  Below 40 bytes in a second *)
(* the limiter allows none in an interval, and this does not hold.         *)
BuffersArrive ==
  \A i \in 1..MaxBuffers :
    Len(written) >= i ~> Len(emitted) >= i \/ open # {"writer", "reader"}
===============================================================================
