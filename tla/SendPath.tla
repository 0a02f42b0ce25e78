----------------------------- MODULE SendPath ------------------------------
(***************************************************************************)
(* The writing half of one ClientHandler: queueSend, the output buffer,    *)
(* and the edge-triggered EPOLLOUT that empties it. Bytes are numbered in  *)
(* the order queueSend receives them. The steps of the main thread are the *)
(* calls of send(2); the socket buffer empties at any moment between them. *)
(* Channel puts the other end to it.                                       *)
(***************************************************************************)
EXTENDS Naturals, Sequences

CONSTANTS
  Capacity,             \* of the kernel's socket buffer
  LowWater,             \* free space from which the kernel reports EPOLLOUT
  kWriteTrimThreshold,
  MaxBytes              \* bound on what is sent in all

ASSUME SendPathAssumption ==
  /\ Capacity \in Nat \ {0} /\ LowWater \in 1 .. Capacity
  /\ kWriteTrimThreshold \in Nat \ {0} /\ MaxBytes \in Nat

VARIABLES
  pc,         \* the main thread: "idle", in queueSend's loop, in flushOut's
  data,       \* queueSend's argument, past what has been sent of it
  outbuf, outOffset,
  closing,    \* closing_
  interest,   \* EPOLLOUT is among the events registered
  edge,       \* EPOLLOUT is in the kernel's ready list
  event,      \* poll has fetched it and not dispatched it yet
  noSpace,    \* the kernel owes an edge since a send found no room
  kernel,     \* the socket buffer
  reset,      \* the connection is broken
  received,   \* what the peer has read
  accepted    \* bytes given to queueSend so far

handler == <<outbuf, outOffset, closing>>
epoll   == <<interest, edge, event, noSpace>>
socket  == <<kernel, reset, received>>
sendVars == <<pc, data, handler, epoll, socket, accepted>>

pendingBytes == SubSeq(outbuf, outOffset + 1, Len(outbuf))
pending == Len(outbuf) - outOffset
free == Capacity - Len(kernel)

Drop(s, n) == SubSeq(s, n + 1, Len(s))

Init ==
  /\ pc = "idle" /\ data = <<>>
  /\ outbuf = <<>> /\ outOffset = 0 /\ closing = FALSE
  /\ interest = FALSE /\ edge = FALSE /\ event = FALSE /\ noSpace = FALSE
  /\ kernel = <<>> /\ reset = FALSE /\ received = <<>>
  /\ accepted = 0

----------------------------------------------------------------------------
(* The handler's helpers. *)

appendOut(bytes) ==
  IF pending = 0
  THEN outbuf' = bytes /\ outOffset' = 0
  ELSE outbuf' = outbuf \o bytes /\ UNCHANGED outOffset

\* modifyHandler(this, EVENT_READ | EVENT_WRITE): EPOLL_CTL_MOD looks at the socket anew.
watchWrite ==
  /\ interest' = TRUE
  /\ edge' = (edge \/ free >= LowWater)

\* modifyHandler(this, EVENT_READ)
watchReadOnly ==
  /\ interest' = FALSE
  /\ edge' = FALSE

----------------------------------------------------------------------------
(* queueSend. *)

\* A slip: sending starts although a backlog waits. Breaks Refines.
QueueSend_overtakes(n) ==
  /\ pc = "idle" /\ ~closing /\ accepted + n <= MaxBytes
  /\ accepted' = accepted + n
  /\ data' = [i \in 1 .. n |-> accepted + i]
  /\ pc' = "send"
  /\ UNCHANGED <<handler, epoll, socket>>

\* A message of n bytes. Behind a backlog it is appended to it; otherwise sending starts at once.
QueueSend(n) ==
  /\ pc = "idle" /\ ~closing /\ accepted + n <= MaxBytes
  /\ accepted' = accepted + n
  /\ LET bytes == [i \in 1 .. n |-> accepted + i] IN
     IF pending = 0
     THEN /\ pc' = "send" /\ data' = bytes
          /\ UNCHANGED <<outbuf, outOffset, interest, edge>>
     ELSE /\ appendOut(bytes)
          /\ watchWrite
          /\ UNCHANGED <<pc, data>>
  /\ UNCHANGED <<closing, event, noSpace, socket>>

\* send() takes some of it.
SendSome ==
  /\ pc = "send" /\ ~reset
  /\ \E n \in 1 .. Len(data) :
       /\ n <= free
       /\ kernel' = kernel \o SubSeq(data, 1, n)
       /\ data' = Drop(data, n)
  /\ pc' = IF data' = <<>> THEN "idle" ELSE "send"
  /\ UNCHANGED <<handler, epoll, reset, received, accepted>>

\* A slip: what is left is buffered and nobody watches the socket. Breaks
\* MessagesHandled.
SendBlocks_notWatched ==
  /\ pc = "send" /\ ~reset /\ free = 0
  /\ noSpace' = TRUE
  /\ appendOut(data)
  /\ pc' = "idle" /\ data' = <<>>
  /\ UNCHANGED <<interest, edge, closing, event, socket, accepted>>

\* EAGAIN: the rest waits in the output buffer.
SendBlocks ==
  /\ pc = "send" /\ ~reset /\ free = 0
  /\ noSpace' = TRUE
  /\ appendOut(data)
  /\ watchWrite
  /\ pc' = "idle" /\ data' = <<>>
  /\ UNCHANGED <<closing, event, socket, accepted>>

\* send() fails, in queueSend or in flushOut.
SendFails ==
  /\ reset
  /\ pc = "send" \/ (pc = "flush" /\ pending > 0)
  /\ closing' = TRUE
  /\ pc' = "idle" /\ data' = <<>>
  /\ UNCHANGED <<outbuf, outOffset, epoll, socket, accepted>>

----------------------------------------------------------------------------
(* The reactor and handleWrite. *)

\* epoll_wait looks at the socket again and reports the edge once.
EpollWait ==
  /\ pc = "idle" /\ edge /\ ~event
  /\ edge' = FALSE
  /\ event' = (free >= LowWater)
  /\ UNCHANGED <<pc, data, handler, interest, noSpace, socket, accepted>>

\* handleWrite, which does nothing for a connection about to be closed.
HandleWrite ==
  /\ pc = "idle" /\ event
  /\ event' = FALSE
  /\ pc' = IF closing THEN "idle" ELSE "flush"
  /\ UNCHANGED <<data, handler, interest, edge, noSpace, socket, accepted>>

\* A slip: the front is erased and the offset kept. Breaks TypeOK.
FlushSome_offsetKept ==
  /\ pc = "flush" /\ ~reset
  /\ \E n \in 1 .. pending :
       LET sent == outOffset + n IN
       /\ n <= free
       /\ kernel' = kernel \o SubSeq(pendingBytes, 1, n)
       /\ outbuf' = IF sent >= kWriteTrimThreshold THEN Drop(outbuf, sent) ELSE outbuf
       /\ outOffset' = sent
  /\ UNCHANGED <<pc, data, closing, epoll, reset, received, accepted>>

\* flushOut sends some of the buffer, and drops what is sent once it is enough.
FlushSome ==
  /\ pc = "flush" /\ ~reset
  /\ \E n \in 1 .. pending :
       LET sent == outOffset + n IN
       /\ n <= free
       /\ kernel' = kernel \o SubSeq(pendingBytes, 1, n)
       /\ IF sent = Len(outbuf) \/ sent >= kWriteTrimThreshold
          THEN outbuf' = Drop(outbuf, sent) /\ outOffset' = 0
          ELSE outOffset' = sent /\ UNCHANGED outbuf
  /\ UNCHANGED <<pc, data, closing, epoll, reset, received, accepted>>

FlushBlocks ==
  /\ pc = "flush" /\ ~reset /\ pending > 0 /\ free = 0
  /\ noSpace' = TRUE
  /\ pc' = "idle"
  /\ UNCHANGED <<data, handler, interest, edge, event, socket, accepted>>

\* The buffer is empty: handleWrite stops watching for room.
FlushDone ==
  /\ pc = "flush" /\ pending = 0
  /\ watchReadOnly
  /\ pc' = "idle"
  /\ UNCHANGED <<data, handler, event, noSpace, socket, accepted>>

\* requestClose from handleRead or handleError.
RequestClose ==
  /\ pc = "idle" /\ ~closing
  /\ closing' = TRUE
  /\ UNCHANGED <<pc, data, outbuf, outOffset, epoll, socket, accepted>>

----------------------------------------------------------------------------
(* The kernel and the peer. *)

\* The peer takes n bytes; the kernel pays the edge it owes once there is room enough.
Drain(n) ==
  /\ ~reset
  /\ received' = received \o SubSeq(kernel, 1, n)
  /\ kernel' = Drop(kernel, n)
  /\ LET pays == noSpace /\ Capacity - Len(kernel') >= LowWater IN
     /\ noSpace' = (noSpace /\ ~pays)
     /\ edge' = (edge \/ (pays /\ interest))
  /\ UNCHANGED <<pc, data, handler, interest, event, reset, accepted>>

PeerReset ==
  /\ ~reset
  /\ reset' = TRUE
  /\ kernel' = <<>>
  /\ UNCHANGED <<pc, data, handler, epoll, received, accepted>>

----------------------------------------------------------------------------
Main ==
  \/ SendSome \/ SendBlocks \/ SendFails
  \/ EpollWait \/ HandleWrite \/ FlushSome \/ FlushBlocks \/ FlushDone

----------------------------------------------------------------------------
(* Properties. *)

\* Every variable stays in its range.
TypeOK ==
  /\ pc \in {"idle", "send", "flush"}
  /\ closing \in BOOLEAN /\ reset \in BOOLEAN
  /\ interest \in BOOLEAN /\ edge \in BOOLEAN /\ event \in BOOLEAN /\ noSpace \in BOOLEAN
  /\ accepted \in 0 .. MaxBytes
  /\ data \in Seq(1 .. MaxBytes) /\ outbuf \in Seq(1 .. MaxBytes)
  /\ kernel \in Seq(1 .. MaxBytes) /\ received \in Seq(1 .. MaxBytes)
  /\ outOffset \in 0 .. Len(outbuf)

\* Whatever the kernel takes of each send, and wherever the buffer is trimmed, the peer reads a
\* prefix of what queueSend was given: the handler is a byte stream.
Stream == INSTANCE ByteStream WITH given <- [i \in 1 .. accepted |-> i],
                                   got <- received, closed <- closing
Refines == Stream!Spec

=============================================================================
