--------------------------- MODULE StreamParser ----------------------------
(***************************************************************************)
(* ProtocolParser::parseData on one connection, which is also the loop of  *)
(* TcpClient::onReadyRead on its own buffer: frames arrive as a stream of  *)
(* bytes cut anywhere, and the parser puts them together again. A byte is  *)
(* known by its frame and its place in it. Channel says how bytes arrive.  *)
(***************************************************************************)
EXTENDS Naturals, Sequences, SequencesExt

CONSTANTS
  HeaderSize,  \* sizeof(MessageHeader)
  MaxBody      \* the largest bodyLength validateHeader lets pass

VARIABLES
  frames,   \* magic and version of each frame of the stream are right or not, and its bodyLength
  stream,   \* the bytes that recv has returned, which only the properties look at
  buffer,   \* recvBuffers_[fd]
  parsing,  \* parseData is in its loop
  handled   \* the frames handed to the callback, in order

Frame == [known : BOOLEAN, bodyLength : 0 .. MaxBody + 1]

size(i) == HeaderSize + frames[i].bodyLength

Init == buffer = <<>> /\ parsing = FALSE /\ handled = <<>>

----------------------------------------------------------------------------
\* A slip: any length is accepted. Breaks BufferBounded.
validateHeader_anyLength == buffer[1].place = 1 /\ frames[buffer[1].frame].known

\* What stands at the front of the buffer passes for a header: it is one, and the magic, the
\* version and the length are right. Bytes from the middle of a frame do not hold the magic.
validateHeader ==
  /\ buffer[1].place = 1
  /\ frames[buffer[1].frame].known
  /\ frames[buffer[1].frame].bodyLength <= MaxBody

totalLen == size(buffer[1].frame)

\* recv returns some bytes, and they are appended.
Receive(bytes) ==
  /\ ~parsing
  /\ buffer' = buffer \o bytes
  /\ parsing' = TRUE
  /\ UNCHANGED <<frames, handled>>

\* The whole buffer goes when the header is wrong.
BadHeader ==
  /\ parsing /\ Len(buffer) >= HeaderSize
  /\ ~validateHeader
  /\ buffer' = <<>>
  /\ parsing' = FALSE
  /\ UNCHANGED <<frames, handled>>

\* A slip: what was read together with the frame goes too. Breaks FramesHandled.
HandleFrame_clears ==
  /\ parsing /\ Len(buffer) >= HeaderSize
  /\ validateHeader /\ Len(buffer) >= totalLen
  /\ handled' = Append(handled, buffer[1].frame)
  /\ buffer' = <<>>
  /\ UNCHANGED <<frames, parsing>>

\* The callback runs, then the frame is erased, and the loop goes on.
HandleFrame ==
  /\ parsing /\ Len(buffer) >= HeaderSize
  /\ validateHeader /\ Len(buffer) >= totalLen
  /\ handled' = Append(handled, buffer[1].frame)
  /\ buffer' = SubSeq(buffer, totalLen + 1, Len(buffer))
  /\ UNCHANGED <<frames, parsing>>

\* Less than a header, or less than a frame: the rest is still to come.
Incomplete ==
  /\ parsing
  /\ Len(buffer) >= HeaderSize => validateHeader /\ Len(buffer) < totalLen
  /\ parsing' = FALSE
  /\ UNCHANGED <<frames, buffer, handled>>

parseData == BadHeader \/ HandleFrame \/ Incomplete

----------------------------------------------------------------------------
(* Properties. *)

good(i) == frames[i].known /\ frames[i].bodyLength <= MaxBody
whole(k) == \E i \in DOMAIN stream : stream[i] = [frame |-> k, place |-> size(k)]

\* Test cases 5 and 6 of docs/module3_protocol_design.md, for every way of cutting the stream:
\* frames that have arrived whole are handled, each once and in order, when parseData returns.
\* What follows a bad frame may be lost with it, and is never handled twice or out of order.
FramesHandled ==
  /\ \A i, j \in DOMAIN handled : i < j => handled[i] < handled[j]
  /\ ~parsing =>
       \A k \in DOMAIN frames :
         whole(k) /\ (\A i \in 1 .. k : good(i)) => IsPrefix([i \in 1 .. k |-> i], handled)

\* A connection keeps less than one frame between two reads, whatever lengths it is told.
BufferBounded == ~parsing => Len(buffer) < HeaderSize + MaxBody

=============================================================================
