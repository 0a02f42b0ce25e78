------------------------------ MODULE Channel ------------------------------
(***************************************************************************)
(* One direction of a connection from end to end: messages handed to       *)
(* queueSend (SendPath), the socket, and the loop that cuts frames out of  *)
(* what arrives (StreamParser, here in TcpClient::onReadyRead). The frames *)
(* to be sent are chosen at the start; some may be foreign or too long, as *)
(* from a program that is not this server.                                 *)
(***************************************************************************)
EXTENDS SendPath, SequencesExt

CONSTANTS
  HeaderSize, MaxBody,
  NumFrames  \* bound on the messages sent

ASSUME ChannelAssumption == HeaderSize \in Nat \ {0} /\ MaxBody \in Nat /\ NumFrames \in Nat \ {0}

VARIABLES
  frames,                   \* the messages, in the order they are sent
  ends,                     \* of those sent already, each one's last byte, as SendPath counts
  buffer, parsing, handled  \* the receiver's parser: recvBuffer_ and its loop

parserVars == <<frames, buffer, parsing, handled>>
vars == <<sendVars, ends, parserVars>>

start(k) == IF k = 1 THEN 0 ELSE ends[k - 1]

\* The i-th byte given to queueSend, as the parser sees it.
byte(i) ==
  LET k == CHOOSE f \in DOMAIN ends : start(f) < i /\ i <= ends[f]
  IN  [frame |-> k, place |-> i - start(k)]

In == INSTANCE StreamParser WITH stream <- [i \in DOMAIN received |-> byte(received[i])]

\* Of the foreign messages one length is enough: the parser does not look at it.
ChannelInit ==
  /\ Init
  /\ frames \in [1 .. NumFrames -> {f \in In!Frame : f.known \/ f.bodyLength = MaxBody}]
  /\ ends = <<>>
  /\ In!Init

\* The server sends the next message.
SendMessage ==
  /\ Len(ends) < NumFrames
  /\ QueueSend(In!size(Len(ends) + 1))
  /\ ends' = Append(ends, accepted')
  /\ UNCHANGED parserVars

Server == (Main \/ RequestClose) /\ UNCHANGED <<ends, parserVars>>

\* The client reads what has come.
Read ==
  \E n \in 1 .. Len(kernel) : Drain(n) /\ In!Receive([i \in 1 .. n |-> byte(kernel[i])]) /\ UNCHANGED ends

Parse == In!parseData /\ UNCHANGED <<sendVars, ends>>

ConnectionLost == PeerReset /\ UNCHANGED <<ends, parserVars>>

Rest == pc = "idle" /\ ~edge /\ ~event /\ UNCHANGED vars

Next == SendMessage \/ Server \/ Read \/ Parse \/ ConnectionLost \/ Rest

Spec == ChannelInit /\ [][Next]_vars

\* The server's event loop runs; the client keeps reading as long as the connection stands.
FairSpec ==
  /\ Spec
  /\ WF_vars(Main /\ UNCHANGED <<ends, parserVars>>) /\ WF_vars(Read) /\ WF_vars(Parse)

----------------------------------------------------------------------------
(* Properties. *)

\* StreamParser's FramesHandled and BufferBounded, on what really comes out of the sender.
FramesHandled == In!FramesHandled
BufferBounded == In!BufferBounded

\* No wake-up is lost and no frame is left half read: a message given to queueSend is handled by
\* a peer that keeps reading, unless the connection ends or a frame before it was bad, although
\* EPOLLOUT is edge-triggered and later messages are appended without a send.
MessagesHandled ==
  \A k \in 1 .. NumFrames :
    k <= Len(ends) /\ (\A i \in 1 .. k : In!good(i)) ~> Contains(handled, k) \/ closing \/ reset

=============================================================================
