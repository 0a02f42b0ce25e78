---------------------------- MODULE ChannelProofs ----------------------------
(***************************************************************************)
(* Theorems about Channel, for every size of the socket buffer, of its low *)
(* water, of the trim threshold, of headers and of messages: what queueSend *)
(* is given comes out as a byte stream, and whole frames come out of that, *)
(* each once and in order, however the bytes were cut on the way.          *)
(***************************************************************************)
EXTENDS Channel, SequenceTheorems, TLAPS

----------------------------------------------------------------------------
(* Where the bytes are. *)

\* s holds the bytes after the first n, in order.
InOrder(s, n) == \A i \in 1 .. Len(s) : s[i] = n + i

\* What the kernel has taken, for the peer to read or read already.
taken == Len(received) + Len(kernel)

\* The bytes accepted are, in order, with the peer, in the kernel, and in the handler, either in
\* queueSend's argument or in the output buffer; when the connection is broken only what the peer
\* has is in its place.
Flow ==
  /\ InOrder(received, 0) /\ InOrder(kernel, Len(received)) /\ taken <= accepted
  /\ pc # "send" => data = <<>>
  /\ pc = "send" => pending = 0
  /\ reset => kernel = <<>>
  /\ ~reset =>
       /\ InOrder(data, taken)
       /\ \A i \in 1 .. pending : outbuf[outOffset + i] = taken + i
       /\ accepted = taken + Len(data) + pending

PathInv == TypeOK /\ Flow

----------------------------------------------------------------------------
(* Sequences. *)

\* The first n elements of a sequence, and those after them.
LEMMA TakeDrop ==
  ASSUME NEW T, NEW s \in Seq(T), NEW n \in 0 .. Len(s)
  PROVE  /\ SubSeq(s, 1, n) \in Seq(T) /\ Len(SubSeq(s, 1, n)) = n
         /\ \A i \in 1 .. n : SubSeq(s, 1, n)[i] = s[i]
         /\ Drop(s, n) \in Seq(T) /\ Len(Drop(s, n)) = Len(s) - n
         /\ \A i \in 1 .. Len(s) - n : Drop(s, n)[i] = s[n + i]
<1>1. Len(s) \in Nat /\ \A i \in 1 .. Len(s) : s[i] \in T
  BY ElementOfSeq, LenProperties
<1>2. /\ SubSeq(s, 1, n) \in Seq(T) /\ Len(SubSeq(s, 1, n)) = n
      /\ \A i \in 1 .. n : SubSeq(s, 1, n)[i] = s[i]
  <2>1. \A i \in 1 .. n : s[i] \in T
    BY <1>1
  <2> QED BY <1>1, <2>1, SubSeqProperties
<1>3. /\ Drop(s, n) \in Seq(T) /\ Len(Drop(s, n)) = Len(s) - n
      /\ \A i \in 1 .. Len(s) - n : Drop(s, n)[i] = s[n + i]
  <2>1. \A i \in n + 1 .. Len(s) : s[i] \in T
    BY <1>1
  <2>2. /\ SubSeq(s, n + 1, Len(s)) \in Seq(T)
        /\ Len(SubSeq(s, n + 1, Len(s))) = IF n + 1 <= Len(s) THEN Len(s) - (n + 1) + 1 ELSE 0
        /\ \A i \in 1 .. Len(s) - (n + 1) + 1 : SubSeq(s, n + 1, Len(s))[i] = s[n + 1 + i - 1]
    BY <1>1, <2>1, SubSeqProperties
  <2> QED BY <1>1, <2>2 DEF Drop
<1> QED BY <1>2, <1>3

\* The bytes of a new message.
LEMMA NewBytes ==
  ASSUME NEW a \in Nat, NEW n \in Nat, NEW m \in Nat, a + n <= m
  PROVE  LET s == [i \in 1 .. n |-> a + i]
         IN  s \in Seq(1 .. m) /\ Len(s) = n /\ InOrder(s, a)
<1> DEFINE s == [i \in 1 .. n |-> a + i]
<1>1. s \in [1 .. n -> 1 .. m]
  OBVIOUS
<1>2. s \in Seq(1 .. m) /\ Len(s) = n
  BY <1>1
<1> QED BY <1>2 DEF InOrder

\* Bytes in order behind bytes in order.
LEMMA JoinInOrder ==
  ASSUME NEW T, NEW s \in Seq(T), NEW t \in Seq(T), NEW n \in Nat,
         InOrder(s, n), InOrder(t, n + Len(s))
  PROVE  /\ s \o t \in Seq(T) /\ Len(s \o t) = Len(s) + Len(t)
         /\ InOrder(s \o t, n)
<1>1. Len(s) \in Nat /\ Len(t) \in Nat
  OBVIOUS
<1>2. /\ s \o t \in Seq(T) /\ Len(s \o t) = Len(s) + Len(t)
      /\ \A i \in 1 .. Len(s) + Len(t) : (s \o t)[i] = IF i <= Len(s) THEN s[i] ELSE t[i - Len(s)]
  BY ConcatProperties
<1>3. ASSUME NEW i \in 1 .. Len(s) + Len(t) PROVE (s \o t)[i] = n + i
  <2>1. CASE i <= Len(s)
    BY <1>1, <1>2, <2>1 DEF InOrder
  <2>2. CASE ~(i <= Len(s))
    <3>1. i - Len(s) \in 1 .. Len(t)
      BY <1>1, <2>2
    <3> QED BY <1>1, <1>2, <2>2, <3>1 DEF InOrder
  <2> QED BY <2>1, <2>2
<1> QED BY <1>2, <1>3 DEF InOrder

\* A part of bytes in order, and what is left.
LEMMA SplitInOrder ==
  ASSUME NEW T, NEW s \in Seq(T), NEW n \in 0 .. Len(s), NEW m \in Nat, InOrder(s, m)
  PROVE  InOrder(SubSeq(s, 1, n), m) /\ InOrder(Drop(s, n), m + n)
<1>1. /\ Len(SubSeq(s, 1, n)) = n /\ \A i \in 1 .. n : SubSeq(s, 1, n)[i] = s[i]
      /\ Len(Drop(s, n)) = Len(s) - n /\ \A i \in 1 .. Len(s) - n : Drop(s, n)[i] = s[n + i]
      /\ Len(s) \in Nat
  BY TakeDrop, LenProperties
<1>2. ASSUME NEW i \in 1 .. Len(s) - n PROVE Drop(s, n)[i] = m + n + i
  <2>1. n + i \in 1 .. Len(s)
    BY <1>1
  <2> QED BY <1>1, <2>1 DEF InOrder
<1> QED BY <1>1, <1>2 DEF InOrder

----------------------------------------------------------------------------
(* The handler and the socket. *)

\* A new message is taken up at once, or waits behind the backlog.
LEMMA QueueSendStep ==
  ASSUME PathInv, NEW n \in Nat, QueueSend(n)
  PROVE  PathInv' /\ accepted' = accepted + n /\ received' = received /\ closing' = closing /\ ~closing
<1> DEFINE bytes == [i \in 1 .. n |-> accepted + i]
<1>1. /\ pc = "idle" /\ ~closing /\ accepted' = accepted + n /\ accepted' <= MaxBytes /\ data = <<>> /\ Len(data) = 0
      /\ UNCHANGED <<closing, event, noSpace, kernel, reset, received>>
  BY EmptySeq DEF QueueSend, socket, PathInv, Flow
<1>2. /\ Len(received) \in Nat /\ Len(kernel) \in Nat /\ Len(outbuf) \in Nat /\ pending \in Nat
      /\ accepted \in Nat /\ MaxBytes \in Nat /\ outOffset \in Nat /\ outOffset + pending = Len(outbuf)
      /\ taken \in Nat
  BY SendPathAssumption, LenProperties DEF PathInv, TypeOK, pending, taken
<1>3. bytes \in Seq(1 .. MaxBytes) /\ Len(bytes) = n /\ InOrder(bytes, accepted)
  BY <1>1, <1>2, NewBytes
<1>4. interest' \in BOOLEAN /\ edge' \in BOOLEAN
  BY DEF QueueSend, watchWrite, PathInv, TypeOK
<1> HIDE DEF bytes
<1>5. CASE pending = 0
  <2>1. pc' = "send" /\ data' = bytes /\ UNCHANGED <<outbuf, outOffset>>
    BY <1>5 DEF QueueSend, bytes
  <2>2. TypeOK'
    BY <1>1, <1>2, <1>3, <1>4, <2>1 DEF PathInv, TypeOK
  <2>3. Flow'
    <3>1. pending' = 0 /\ taken' = taken
      BY <1>1, <1>5, <2>1 DEF pending, taken
    <3>2. ~reset => accepted = taken
      BY <1>1, <1>2, <1>5 DEF PathInv, Flow
    <3>3. InOrder(received', 0) /\ InOrder(kernel', Len(received')) /\ taken' <= accepted'
      BY <1>1, <1>2, <3>1 DEF PathInv, Flow
    <3>4. ~reset => InOrder(data', taken') /\ accepted' = taken' + Len(data') + pending'
      BY <1>1, <1>2, <1>3, <2>1, <3>1, <3>2
    <3> QED BY <1>1, <2>1, <3>1, <3>3, <3>4 DEF PathInv, Flow
  <2> QED BY <1>1, <2>2, <2>3 DEF PathInv
<1>6. CASE pending # 0
  <2>1. /\ outbuf' = outbuf \o bytes /\ outOffset' = outOffset /\ UNCHANGED <<pc, data>>
    BY <1>6 DEF QueueSend, appendOut, bytes
  <2>2. /\ outbuf' \in Seq(1 .. MaxBytes) /\ Len(outbuf') = Len(outbuf) + n
        /\ \A i \in 1 .. Len(outbuf) + n :
             outbuf'[i] = IF i <= Len(outbuf) THEN outbuf[i] ELSE bytes[i - Len(outbuf)]
    BY <1>3, <2>1, ConcatProperties DEF PathInv, TypeOK
  <2>3. TypeOK'
    BY <1>1, <1>2, <1>4, <2>1, <2>2 DEF PathInv, TypeOK
  <2>4. pending' = pending + n /\ taken' = taken
    BY <1>1, <1>2, <2>1, <2>2 DEF pending, taken
  <2>5. ASSUME ~reset, NEW i \in 1 .. pending + n
        PROVE  outbuf'[outOffset' + i] = taken + i
    <3>1. outOffset + i \in 1 .. Len(outbuf) + n /\ accepted = taken + pending
      BY <1>1, <1>2, <2>5 DEF PathInv, Flow
    <3>2. CASE i <= pending
      BY <1>2, <2>1, <2>2, <2>5, <3>1, <3>2 DEF PathInv, Flow
    <3>3. CASE i > pending
      <4>1. (outOffset + i) - Len(outbuf) \in 1 .. n /\ ~(outOffset + i <= Len(outbuf))
        BY <1>2, <3>3
      <4>2. outbuf'[outOffset + i] = bytes[(outOffset + i) - Len(outbuf)]
        BY <2>2, <3>1, <4>1
      <4>3. bytes[(outOffset + i) - Len(outbuf)] = accepted + ((outOffset + i) - Len(outbuf))
        BY <1>3, <4>1 DEF InOrder
      <4> QED BY <1>2, <2>1, <3>1, <4>2, <4>3
    <3> QED BY <1>2, <3>2, <3>3
  <2>6. Flow'
    <3>1. InOrder(received', 0) /\ InOrder(kernel', Len(received')) /\ taken' <= accepted'
      BY <1>1, <1>2, <2>4 DEF PathInv, Flow
    <3>2. ~reset => /\ InOrder(data', taken')
                    /\ accepted' = taken' + Len(data') + pending'
      BY <1>1, <1>2, <2>1, <2>4 DEF PathInv, Flow
    <3>3. ~reset => \A i \in 1 .. pending' : outbuf'[outOffset' + i] = taken' + i
      BY <2>4, <2>5
    <3> QED BY <1>1, <2>1, <3>1, <3>2, <3>3 DEF PathInv, Flow
  <2> QED BY <1>1, <2>3, <2>6 DEF PathInv
<1> QED BY <1>5, <1>6

\* send() moves bytes from the argument to the kernel.
LEMMA SendSomeStep ==
  ASSUME PathInv, SendSome
  PROVE  PathInv' /\ UNCHANGED <<accepted, received, closing>>
<1>1. PICK n \in 1 .. Len(data) : kernel' = kernel \o SubSeq(data, 1, n) /\ data' = Drop(data, n)
  BY DEF SendSome
<1>2. /\ pc = "send" /\ ~reset /\ pc' \in {"idle", "send"} /\ (pc' = "idle" <=> data' = <<>>)
      /\ UNCHANGED <<outbuf, outOffset, closing, interest, edge, event, noSpace, reset, received, accepted>>
  BY DEF SendSome, handler, epoll
<1>3. /\ Len(received) \in Nat /\ Len(kernel) \in Nat /\ Len(data) \in Nat /\ accepted \in Nat
      /\ data \in Seq(1 .. MaxBytes) /\ kernel \in Seq(1 .. MaxBytes) /\ n \in 0 .. Len(data)
      /\ taken \in Nat
  BY LenProperties DEF PathInv, TypeOK, taken
<1>4. InOrder(data, taken) /\ InOrder(kernel, Len(received)) /\ pending = 0 /\ accepted = taken + Len(data)
  BY <1>2, <1>3 DEF PathInv, Flow, taken
<1>5. /\ SubSeq(data, 1, n) \in Seq(1 .. MaxBytes) /\ Len(SubSeq(data, 1, n)) = n
      /\ data' \in Seq(1 .. MaxBytes) /\ Len(data') = Len(data) - n
      /\ InOrder(SubSeq(data, 1, n), taken) /\ InOrder(data', taken + n)
  BY <1>1, <1>3, <1>4, TakeDrop, SplitInOrder
<1>6. kernel' \in Seq(1 .. MaxBytes) /\ Len(kernel') = Len(kernel) + n /\ InOrder(kernel', Len(received))
  BY <1>1, <1>3, <1>4, <1>5, JoinInOrder DEF taken
<1>7. TypeOK'
  BY <1>2, <1>5, <1>6 DEF PathInv, TypeOK
<1>8. Flow'
  <2>1. taken' = taken + n /\ pending' = 0
    BY <1>2, <1>3, <1>4, <1>6 DEF taken, pending
  <2> QED BY <1>2, <1>3, <1>4, <1>5, <1>6, <2>1 DEF PathInv, Flow, taken
<1> QED BY <1>2, <1>7, <1>8 DEF PathInv

\* What the kernel does not take goes to the output buffer, which is empty.
LEMMA SendBlocksStep ==
  ASSUME PathInv, SendBlocks
  PROVE  PathInv' /\ UNCHANGED <<accepted, received, closing>>
<1>1. pending = 0 /\ ~reset /\ pc = "send"
  BY DEF SendBlocks, PathInv, Flow
<1>2. /\ outbuf' = data /\ outOffset' = 0 /\ data' = <<>> /\ pc' = "idle"
      /\ UNCHANGED <<closing, event, kernel, reset, received, accepted>>
      /\ interest' \in BOOLEAN /\ edge' \in BOOLEAN /\ noSpace' \in BOOLEAN
  BY <1>1 DEF SendBlocks, appendOut, watchWrite, socket, PathInv, TypeOK
<1>3. Len(data) \in Nat /\ <<>> \in Seq(1 .. MaxBytes) /\ Len(<<>>) = 0
  BY EmptySeq, LenProperties DEF PathInv, TypeOK
<1>4. TypeOK'
  BY <1>2, <1>3 DEF PathInv, TypeOK
<1>5. Flow'
  <2>1. pending' = Len(data) /\ taken' = taken
    BY <1>2, <1>3 DEF pending, taken
  <2> QED BY <1>1, <1>2, <1>3, <2>1 DEF PathInv, Flow, InOrder, taken
<1> QED BY <1>2, <1>4, <1>5 DEF PathInv

\* A broken connection ends the sending, and an end of the connection moves no byte.
LEMMA CloseStep ==
  ASSUME PathInv, SendFails \/ RequestClose
  PROVE  PathInv' /\ closing' = TRUE /\ UNCHANGED <<accepted, received>>
<1>1. /\ closing' = TRUE /\ UNCHANGED <<outbuf, outOffset, interest, edge, event, noSpace, kernel, reset, received, accepted>>
      /\ \/ reset /\ pc' = "idle" /\ data' = <<>>
         \/ UNCHANGED <<pc, data>>
  BY DEF SendFails, RequestClose, epoll, socket
<1>2. <<>> \in Seq(1 .. MaxBytes)
  BY EmptySeq
<1>3. TypeOK'
  BY <1>1, <1>2 DEF PathInv, TypeOK
<1>4. Flow'
  BY <1>1 DEF PathInv, Flow, InOrder, taken, pending
<1> QED BY <1>1, <1>3, <1>4 DEF PathInv

\* What the reactor does moves no byte either.
LEMMA EventStep ==
  ASSUME PathInv, EpollWait \/ HandleWrite \/ FlushBlocks \/ FlushDone
  PROVE  PathInv' /\ UNCHANGED <<accepted, received, closing>>
<1>1. /\ UNCHANGED <<data, outbuf, outOffset, closing, kernel, reset, received, accepted>>
      /\ pc # "send" /\ pc' \in {"idle", "flush"}
  BY DEF EpollWait, HandleWrite, FlushBlocks, FlushDone, handler, socket
<1>2. interest' \in BOOLEAN /\ edge' \in BOOLEAN /\ event' \in BOOLEAN /\ noSpace' \in BOOLEAN
  <2>1. CASE EpollWait
    <3>1. event' \in BOOLEAN
      <4>1. event' = (free >= LowWater)
        BY <2>1 DEF EpollWait
      <4> QED BY <4>1
    <3> QED BY <2>1, <3>1 DEF EpollWait, PathInv, TypeOK
  <2>2. CASE HandleWrite \/ FlushBlocks \/ FlushDone
    BY <2>2 DEF HandleWrite, FlushBlocks, FlushDone, watchReadOnly, PathInv, TypeOK
  <2> QED BY <2>1, <2>2
<1>3. TypeOK'
  BY <1>1, <1>2 DEF PathInv, TypeOK
<1>4. Flow'
  BY <1>1 DEF PathInv, Flow, InOrder, taken, pending
<1> QED BY <1>1, <1>3, <1>4 DEF PathInv

\* flushOut moves bytes from the output buffer to the kernel, and trims the buffer or does not.
LEMMA FlushSomeStep ==
  ASSUME PathInv, FlushSome
  PROVE  PathInv' /\ UNCHANGED <<accepted, received, closing>>
<1>1. PICK n \in 1 .. pending :
        /\ kernel' = kernel \o SubSeq(pendingBytes, 1, n)
        /\ \/ outbuf' = Drop(outbuf, outOffset + n) /\ outOffset' = 0
           \/ outOffset' = outOffset + n /\ outbuf' = outbuf
  BY DEF FlushSome
<1>2. /\ pc = "flush" /\ ~reset
      /\ UNCHANGED <<pc, data, closing, interest, edge, event, noSpace, reset, received, accepted>>
  BY DEF FlushSome, epoll
<1>3. /\ Len(received) \in Nat /\ Len(kernel) \in Nat /\ Len(outbuf) \in Nat /\ taken \in Nat
      /\ outOffset \in 0 .. Len(outbuf) /\ pending = Len(outbuf) - outOffset /\ pending \in Nat
      /\ outbuf \in Seq(1 .. MaxBytes) /\ kernel \in Seq(1 .. MaxBytes)
  BY LenProperties DEF PathInv, TypeOK, pending, taken
<1>4. /\ InOrder(kernel, Len(received)) /\ \A i \in 1 .. pending : outbuf[outOffset + i] = taken + i
      /\ data = <<>> /\ accepted = taken + Len(data) + pending
  BY <1>2 DEF PathInv, Flow
<1>5. pendingBytes \in Seq(1 .. MaxBytes) /\ Len(pendingBytes) = pending /\ InOrder(pendingBytes, taken)
  <2>1. /\ Drop(outbuf, outOffset) \in Seq(1 .. MaxBytes)
        /\ Len(Drop(outbuf, outOffset)) = Len(outbuf) - outOffset
        /\ \A i \in 1 .. Len(outbuf) - outOffset : Drop(outbuf, outOffset)[i] = outbuf[outOffset + i]
    BY <1>3, TakeDrop
  <2> QED BY <1>3, <1>4, <2>1 DEF pendingBytes, Drop, InOrder
<1>6. /\ SubSeq(pendingBytes, 1, n) \in Seq(1 .. MaxBytes) /\ Len(SubSeq(pendingBytes, 1, n)) = n
      /\ InOrder(SubSeq(pendingBytes, 1, n), taken)
  <2>1. n \in 0 .. Len(pendingBytes)
    BY <1>3, <1>5
  <2> QED BY <1>3, <1>5, <2>1, TakeDrop, SplitInOrder
<1>7. kernel' \in Seq(1 .. MaxBytes) /\ Len(kernel') = Len(kernel) + n /\ InOrder(kernel', Len(received))
  <2>1. InOrder(SubSeq(pendingBytes, 1, n), Len(received) + Len(kernel))
    BY <1>6 DEF taken
  <2> QED BY <1>1, <1>3, <1>4, <1>6, <2>1, JoinInOrder
<1>8. /\ outbuf' \in Seq(1 .. MaxBytes) /\ outOffset' \in 0 .. Len(outbuf') /\ pending' = pending - n
      /\ \A i \in 1 .. pending - n : outbuf'[outOffset' + i] = taken + n + i
  <2> DEFINE sent == outOffset + n
  <2>1. sent \in 0 .. Len(outbuf)
    BY <1>3
  <2>2. ASSUME NEW i \in 1 .. pending - n PROVE outbuf[sent + i] = taken + n + i
    <3>1. n + i \in 1 .. pending /\ outOffset + (n + i) = sent + i /\ taken + (n + i) = taken + n + i
      BY <1>3
    <3> QED BY <1>4, <3>1
  <2>3. CASE outbuf' = Drop(outbuf, sent) /\ outOffset' = 0
    <3>1. /\ outbuf' \in Seq(1 .. MaxBytes) /\ Len(outbuf') = Len(outbuf) - sent
          /\ \A i \in 1 .. Len(outbuf) - sent : outbuf'[i] = outbuf[sent + i]
      BY <1>3, <2>1, <2>3, TakeDrop
    <3>2. pending' = pending - n /\ Len(outbuf) - sent = pending - n /\ Len(outbuf') \in Nat
      BY <1>3, <2>1, <2>3, <3>1 DEF pending
    <3>3. ASSUME NEW i \in 1 .. pending - n PROVE outbuf'[outOffset' + i] = taken + n + i
      <4>1. outOffset' + i = i
        BY <2>3
      <4> QED BY <2>2, <3>1, <3>2, <4>1
    <3> QED BY <2>3, <3>1, <3>2, <3>3
  <2>4. CASE outOffset' = sent /\ outbuf' = outbuf
    BY <1>3, <2>1, <2>2, <2>4 DEF pending
  <2> QED BY <1>1, <2>3, <2>4
<1>9. TypeOK'
  BY <1>2, <1>7, <1>8 DEF PathInv, TypeOK
<1>10. Flow'
  <2>1. taken' = taken + n /\ taken + n \in Nat
    BY <1>2, <1>3, <1>7 DEF taken
  <2>2. InOrder(received', 0) /\ InOrder(kernel', Len(received')) /\ taken' <= accepted'
    BY <1>2, <1>3, <1>4, <1>7, <2>1, EmptySeq DEF PathInv, Flow
  <2>3. InOrder(data', taken') /\ accepted' = taken' + Len(data') + pending'
    BY <1>2, <1>3, <1>4, <1>8, <2>1, EmptySeq DEF InOrder
  <2>4. \A i \in 1 .. pending' : outbuf'[outOffset' + i] = taken' + i
    BY <1>8, <2>1
  <2> QED BY <1>2, <1>4, <2>2, <2>3, <2>4 DEF Flow
<1> QED BY <1>2, <1>9, <1>10 DEF PathInv

\* The peer reads from the front of the kernel's bytes.
LEMMA DrainStep ==
  ASSUME PathInv, NEW n \in 1 .. Len(kernel), Drain(n)
  PROVE  /\ PathInv' /\ UNCHANGED <<accepted, closing>>
         /\ Len(received') = Len(received) + n /\ Len(received') <= accepted
         /\ \A i \in 1 .. n : kernel[i] = Len(received) + i
<1>1. /\ received' = received \o SubSeq(kernel, 1, n) /\ kernel' = Drop(kernel, n) /\ ~reset
      /\ UNCHANGED <<pc, data, outbuf, outOffset, closing, interest, event, reset, accepted>>
      /\ edge' \in BOOLEAN /\ noSpace' \in BOOLEAN
  BY DEF Drain, handler, PathInv, TypeOK
<1>2. /\ Len(received) \in Nat /\ Len(kernel) \in Nat /\ n \in 0 .. Len(kernel) /\ accepted \in Nat
      /\ received \in Seq(1 .. MaxBytes) /\ kernel \in Seq(1 .. MaxBytes)
  BY LenProperties DEF PathInv, TypeOK
<1>3. InOrder(received, 0) /\ InOrder(kernel, Len(received)) /\ taken <= accepted
  BY DEF PathInv, Flow
<1>4. /\ SubSeq(kernel, 1, n) \in Seq(1 .. MaxBytes) /\ Len(SubSeq(kernel, 1, n)) = n
      /\ kernel' \in Seq(1 .. MaxBytes) /\ Len(kernel') = Len(kernel) - n
      /\ InOrder(SubSeq(kernel, 1, n), 0 + Len(received)) /\ InOrder(kernel', Len(received) + n)
  <2>1. InOrder(SubSeq(kernel, 1, n), Len(received)) /\ InOrder(kernel', Len(received) + n)
    BY <1>1, <1>2, <1>3, SplitInOrder
  <2>2. 0 + Len(received) = Len(received)
    BY <1>2
  <2> QED BY <1>1, <1>2, <2>1, <2>2, TakeDrop
<1>5. received' \in Seq(1 .. MaxBytes) /\ Len(received') = Len(received) + n /\ InOrder(received', 0)
  BY <1>1, <1>2, <1>3, <1>4, JoinInOrder
<1>6. TypeOK'
  BY <1>1, <1>4, <1>5 DEF PathInv, TypeOK
<1>7. taken' = taken
  BY <1>2, <1>4, <1>5 DEF taken
<1>8. Flow'
  <2>1. pending' = pending
    BY <1>1 DEF pending
  <2> QED BY <1>1, <1>3, <1>4, <1>5, <1>7, <2>1 DEF PathInv, Flow
<1>9. Len(received') <= accepted
  BY <1>2, <1>3, <1>5 DEF taken
<1> QED BY <1>1, <1>3, <1>5, <1>6, <1>8, <1>9 DEF PathInv, InOrder

\* A reset empties the kernel.
LEMMA PeerResetStep ==
  ASSUME PathInv, PeerReset
  PROVE  PathInv' /\ UNCHANGED <<accepted, received, closing>>
<1>1. /\ kernel' = <<>> /\ reset' = TRUE
      /\ UNCHANGED <<pc, data, outbuf, outOffset, closing, interest, edge, event, noSpace, received, accepted>>
  BY DEF PeerReset, handler, epoll
<1>2. <<>> \in Seq(1 .. MaxBytes) /\ Len(<<>>) = 0 /\ Len(kernel) \in Nat /\ Len(received) \in Nat /\ accepted \in Nat
  BY EmptySeq, LenProperties DEF PathInv, TypeOK
<1>3. TypeOK'
  BY <1>1, <1>2 DEF PathInv, TypeOK
<1>4. Flow'
  BY <1>1, <1>2 DEF PathInv, Flow, InOrder, taken, pending
<1> QED BY <1>1, <1>3, <1>4 DEF PathInv

----------------------------------------------------------------------------
(* The frames in the stream. *)

\* The messages sent lie in the stream one behind the other, and fill it.
Framing ==
  /\ frames \in [1 .. NumFrames -> In!Frame]
  /\ ends \in Seq(Nat) /\ Len(ends) <= NumFrames
  /\ \A k \in 1 .. Len(ends) : ends[k] = start(k) + In!size(k)
  /\ \A j, k \in 1 .. Len(ends) : j < k => ends[j] <= start(k)
  /\ accepted = start(Len(ends) + 1)
  /\ \A i \in 1 .. accepted : \E k \in 1 .. Len(ends) : start(k) < i /\ i <= ends[k]

Bytes == [frame : 1 .. NumFrames, place : Nat]

\* How many bytes the parser is done with.
done == Len(received) - Len(buffer)

Good(k) == \A i \in 1 .. k : In!good(i)

\* The first k frames are handled.
HandledTo(k) == k <= Len(handled) /\ \A i \in 1 .. k : handled[i] = i

\* Just one of the first k frames comes next, or the one behind them, and those before it are handled.
InStep(k) == \E m \in 0 .. k : done = start(m + 1) /\ Len(handled) = m /\ HandledTo(m)

\* Between two reads no good frame waits that has come whole, unless it stands behind a bad one.
AllHandled ==
  ~parsing => \A k \in 1 .. Len(ends) : ends[k] <= Len(received) /\ Good(k) => HandledTo(k)

\* The parser's buffer is the end of what was received. What is handled lies before it, in the
\* order of the stream. As long as the frames are good they are handled one by one and the buffer
\* begins with the next; and those before the first bad one are handled for good.
Parsing ==
  /\ buffer \in Seq(Bytes) /\ Len(buffer) <= Len(received) /\ parsing \in BOOLEAN
  /\ \A j \in done + 1 .. Len(received) : buffer[j - done] = byte(j)
  /\ handled \in Seq(1 .. NumFrames)
  /\ \A i \in 1 .. Len(handled) : handled[i] <= Len(ends) /\ ends[handled[i]] <= done
  /\ \A i, j \in 1 .. Len(handled) : i < j => handled[i] < handled[j]
  /\ \A k \in 0 .. Len(ends) : Good(k) => InStep(k) \/ HandledTo(k)
  /\ AllHandled /\ BufferBounded

ChannelInv == PathInv /\ Framing /\ Parsing

\* The places of a frame in the stream.
LEMMA FramePlaces ==
  ASSUME Framing
  PROVE  /\ \A k \in 1 .. NumFrames : In!size(k) \in Nat /\ In!size(k) >= HeaderSize /\ In!size(k) >= 1
         /\ \A k \in 1 .. Len(ends) + 1 : start(k) \in Nat
         /\ \A k \in 1 .. Len(ends) : /\ ends[k] \in Nat /\ start(k) < ends[k] /\ k \in 1 .. NumFrames
                                      /\ start(k + 1) = ends[k] /\ ends[k] <= accepted
         /\ \A j, k \in 1 .. Len(ends) + 1 : j < k => start(j) < start(k) /\ ends[j] <= start(k)
         /\ Len(ends) \in Nat /\ accepted \in Nat
<1>1. Len(ends) \in Nat /\ \A k \in 1 .. Len(ends) : ends[k] \in Nat /\ k \in 1 .. NumFrames
  BY ElementOfSeq, LenProperties, ChannelAssumption DEF Framing
<1>2. \A k \in 1 .. NumFrames : In!size(k) \in Nat /\ In!size(k) >= HeaderSize /\ In!size(k) >= 1
  <2> TAKE k \in 1 .. NumFrames
  <2>1. frames[k].bodyLength \in 0 .. MaxBody + 1
    BY DEF Framing, In!Frame
  <2> QED BY <2>1, ChannelAssumption DEF In!size
<1>3. \A k \in 1 .. Len(ends) + 1 : start(k) \in Nat
  BY <1>1 DEF start
<1>4. \A k \in 1 .. Len(ends) : start(k) < ends[k] /\ start(k + 1) = ends[k]
  <2> TAKE k \in 1 .. Len(ends)
  <2>1. ends[k] = start(k) + In!size(k) /\ start(k) \in Nat /\ In!size(k) \in Nat /\ In!size(k) >= 1
    BY <1>1, <1>2, <1>3 DEF Framing
  <2>2. k + 1 # 1 /\ (k + 1) - 1 = k
    BY <1>1
  <2> QED BY <1>1, <2>1, <2>2 DEF start
<1>5. \A j, k \in 1 .. Len(ends) + 1 : j < k => start(j) < start(k) /\ ends[j] <= start(k)
  <2> SUFFICES ASSUME NEW j \in 1 .. Len(ends) + 1, NEW k \in 1 .. Len(ends) + 1, j < k
               PROVE  start(j) < start(k) /\ ends[j] <= start(k)
    OBVIOUS
  <2>1. j \in 1 .. Len(ends) /\ start(j) < ends[j] /\ start(j) \in Nat /\ ends[j] \in Nat /\ start(k) \in Nat
    BY <1>1, <1>3, <1>4
  <2>2. ends[j] <= start(k)
    <3>1. CASE k \in 1 .. Len(ends)
      BY <2>1, <3>1 DEF Framing
    <3>2. CASE k = Len(ends) + 1 /\ j = Len(ends)
      BY <1>4, <2>1, <3>2
    <3>3. CASE k = Len(ends) + 1 /\ j < Len(ends)
      <4>1. Len(ends) \in 1 .. Len(ends) /\ ends[j] <= start(Len(ends))
        BY <1>1, <2>1, <3>3 DEF Framing
      <4> QED BY <1>1, <1>3, <1>4, <2>1, <3>3, <4>1
    <3> QED BY <1>1, <3>1, <3>2, <3>3
  <2> QED BY <2>1, <2>2
<1>6. \A k \in 1 .. Len(ends) : ends[k] <= accepted
  BY <1>1, <1>5 DEF Framing
<1>7. accepted \in Nat
  BY <1>1, <1>3 DEF Framing
<1> QED BY <1>1, <1>2, <1>3, <1>4, <1>5, <1>6, <1>7

\* Each byte belongs to one frame.
Belongs == \A k \in 1 .. Len(ends), i \in Nat :
             start(k) < i /\ i <= ends[k] => byte(i) = [frame |-> k, place |-> i - start(k)]

\* The frames share no byte.
LEMMA ByteOf == Framing => Belongs
<1> SUFFICES ASSUME Framing, NEW k \in 1 .. Len(ends), NEW i \in Nat, start(k) < i, i <= ends[k]
             PROVE  byte(i) = [frame |-> k, place |-> i - start(k)]
  BY DEF Belongs
<1>1. Len(ends) \in Nat /\ DOMAIN ends = 1 .. Len(ends)
  BY LenProperties DEF Framing
<1>2. ASSUME NEW f \in 1 .. Len(ends), start(f) < i, i <= ends[f]
      PROVE  f = k
  <2>1. start(f) \in Nat /\ start(k) \in Nat /\ ends[f] \in Nat /\ ends[k] \in Nat
    BY <1>1, FramePlaces
  <2>2. f < k => ends[f] <= start(k)
    BY DEF Framing
  <2>3. k < f => ends[k] <= start(f)
    BY DEF Framing
  <2> QED BY <1>1, <1>2, <2>1, <2>2, <2>3
<1>3. (CHOOSE f \in DOMAIN ends : start(f) < i /\ i <= ends[f]) = k
  BY <1>1, <1>2
<1> QED BY <1>3 DEF byte

\* What a byte says of its place.
LEMMA ByteTells ==
  ASSUME Framing, NEW i \in 1 .. accepted
  PROVE  /\ byte(i) \in Bytes /\ byte(i).frame \in 1 .. Len(ends)
         /\ i = start(byte(i).frame) + byte(i).place /\ i <= ends[byte(i).frame]
<1>1. PICK k \in 1 .. Len(ends) : start(k) < i /\ i <= ends[k]
  BY DEF Framing
<1>2. byte(i) = [frame |-> k, place |-> i - start(k)]
  BY <1>1, ByteOf, FramePlaces DEF Belongs
<1>3. start(k) \in Nat /\ k \in 1 .. NumFrames /\ i \in Nat
  BY FramePlaces
<1>4. i - start(k) \in Nat /\ i = start(k) + (i - start(k))
  BY <1>1, <1>3
<1> QED BY <1>1, <1>2, <1>3, <1>4 DEF Bytes

----------------------------------------------------------------------------
(* Sending and reading. *)

\* The next message lies behind the others, and moves no byte of theirs.
LEMMA FramingGrows ==
  ASSUME Framing, Len(ends) < NumFrames,
         ends' = Append(ends, accepted'), accepted' = accepted + In!size(Len(ends) + 1), frames' = frames
  PROVE  /\ Framing' /\ Len(ends') = Len(ends) + 1
         /\ \A k \in 1 .. Len(ends) : ends'[k] = ends[k]
         /\ \A k \in 1 .. Len(ends) + 1 : start(k)' = start(k)
         /\ \A i \in 1 .. accepted : byte(i)' = byte(i)
<1>0. PICK n \in Nat : n = Len(ends)
  BY FramePlaces
<1>1. n = Len(ends) /\ n + 1 \in 1 .. NumFrames /\ accepted \in Nat /\ start(n + 1) = accepted
  BY <1>0, FramePlaces, ChannelAssumption DEF Framing
<1>2. In!size(n + 1) \in Nat /\ In!size(n + 1) >= 1 /\ accepted' \in Nat /\ accepted < accepted'
  BY <1>1, FramePlaces
<1>3. /\ ends' \in Seq(Nat) /\ Len(ends') = n + 1 /\ ends'[n + 1] = accepted'
      /\ \A k \in 1 .. n : ends'[k] = ends[k]
  BY <1>1, <1>2, AppendProperties DEF Framing
<1>4. \A k \in 1 .. n + 1 : start(k)' = start(k)
  <2> TAKE k \in 1 .. n + 1
  <2>1. k # 1 => k - 1 \in 1 .. n /\ ends'[k - 1] = ends[k - 1]
    BY <1>1, <1>3
  <2> QED BY <2>1 DEF start
<1>5. start(n + 2)' = accepted'
  <2>1. n + 2 # 1 /\ (n + 2) - 1 = n + 1
    OBVIOUS
  <2> QED BY <1>3, <2>1 DEF start
<1>6. \A k \in 1 .. n + 1 : In!size(k)' = In!size(k)
  BY DEF In!size
<1>7. Framing'
  <2>1. \A k \in 1 .. n + 1 : ends'[k] = start(k)' + In!size(k)'
    <3> TAKE k \in 1 .. n + 1
    <3>1. CASE k \in 1 .. n
      BY <1>1, <1>3, <1>4, <1>6, <3>1 DEF Framing
    <3>2. CASE k = n + 1
      BY <1>1, <1>3, <1>4, <1>6, <3>2
    <3> QED BY <1>1, <3>1, <3>2
  <2>2. \A j, k \in 1 .. n + 1 : j < k => ends'[j] <= start(k)'
    <3> SUFFICES ASSUME NEW j \in 1 .. n + 1, NEW k \in 1 .. n + 1, j < k PROVE ends'[j] <= start(k)'
      OBVIOUS
    <3>1. j \in 1 .. n /\ ends[j] <= start(k)
      BY <1>1, FramePlaces
    <3> QED BY <1>3, <1>4, <3>1
  <2>3. \A i \in 1 .. accepted' : \E k \in 1 .. n + 1 : start(k)' < i /\ i <= ends'[k]
    <3> TAKE i \in 1 .. accepted'
    <3>1. CASE i <= accepted
      <4>1. PICK k \in 1 .. n : start(k) < i /\ i <= ends[k]
        BY <1>1, <1>2, <3>1 DEF Framing
      <4>2. k \in 1 .. n + 1
        BY <1>1
      <4> QED BY <1>3, <1>4, <4>1, <4>2
    <3>2. CASE i > accepted
      <4>1. n + 1 \in 1 .. n + 1 /\ start(n + 1)' < i /\ i <= ends'[n + 1]
        BY <1>1, <1>2, <1>3, <1>4, <3>2
      <4> QED BY <4>1
    <3> QED BY <1>1, <1>2, <3>1, <3>2
  <2>4. frames' \in [1 .. NumFrames -> In!Frame]
    BY DEF Framing
  <2>5. Len(ends') + 1 = n + 2 /\ n + 1 <= NumFrames
    BY <1>1, <1>3
  <2> QED BY <1>3, <1>5, <2>1, <2>2, <2>3, <2>4, <2>5 DEF Framing
<1>8. \A i \in 1 .. accepted : byte(i)' = byte(i)
  <2> TAKE i \in 1 .. accepted
  <2>1. PICK k \in 1 .. n : start(k) < i /\ i <= ends[k]
    BY <1>1 DEF Framing
  <2>2. byte(i) = [frame |-> k, place |-> i - start(k)]
    BY <1>1, <2>1, ByteOf DEF Belongs
  <2>3. k \in 1 .. n + 1 /\ i \in Nat
    BY <1>1
  <2>4. start(k)' < i /\ i <= ends'[k] /\ k \in 1 .. Len(ends')
    BY <1>3, <1>4, <2>1, <2>3
  <2>5. byte(i)' = [frame |-> k, place |-> i - start(k)']
    <3>1. Belongs'
      BY <1>7, ByteOf, PTL
    <3> QED BY <2>3, <2>4, <3>1 DEF Belongs
  <2> QED BY <1>4, <2>2, <2>3, <2>5
<1> QED BY <1>3, <1>4, <1>7, <1>8

----------------------------------------------------------------------------
(* Steps that leave the parser alone. *)

\* The peer has read less than was accepted.
LEMMA Behind ==
  ASSUME ChannelInv
  PROVE  /\ Len(received) \in Nat /\ Len(buffer) \in Nat /\ Len(handled) \in Nat /\ Len(ends) \in Nat
         /\ done \in Nat /\ done + Len(buffer) = Len(received)
         /\ Len(received) <= accepted /\ accepted \in Nat
         /\ \A i \in 1 .. Len(handled) : handled[i] \in 1 .. Len(ends)
<1>1. /\ Len(received) \in Nat /\ Len(buffer) \in Nat /\ Len(kernel) \in Nat /\ Len(handled) \in Nat
      /\ Len(ends) \in Nat
  BY LenProperties DEF ChannelInv, PathInv, TypeOK, Parsing, Framing
<1>2. accepted \in Nat /\ Len(received) + Len(kernel) <= accepted
  BY FramePlaces DEF ChannelInv, PathInv, Flow, taken
<1>3. \A i \in 1 .. Len(handled) : handled[i] \in 1 .. NumFrames
  BY ElementOfSeq DEF ChannelInv, Parsing
<1> QED BY <1>1, <1>2, <1>3 DEF ChannelInv, Parsing, done

\* Nothing that the parser sees changes.
LEMMA ParserRests ==
  ASSUME ChannelInv, PathInv', UNCHANGED <<ends, parserVars, accepted, received>>
  PROVE  ChannelInv'
<1> USE DEF parserVars
<1>1. \A k \in Nat : start(k)' = start(k)
  BY DEF start
<1>2. \A k \in Nat : In!size(k)' = In!size(k) /\ In!good(k)' = In!good(k) /\ byte(k)' = byte(k)
  BY DEF In!size, In!good, byte, start
<1>3. Framing'
  BY DEF ChannelInv, Framing, start, In!size
<1>4. \A k \in Nat : Good(k)' = Good(k) /\ HandledTo(k)' = HandledTo(k)
  BY DEF Good, HandledTo, In!good
<1>5. done' = done /\ BufferBounded' = BufferBounded
  BY DEF done, BufferBounded, In!BufferBounded
<1>6. \A k \in Nat : InStep(k) => InStep(k)'
  BY <1>1, <1>4, <1>5 DEF InStep
<1>7. Parsing'
  <2>1. Len(ends) \in Nat /\ Len(received) \in Nat /\ done \in Nat
    BY Behind
  <2>2. \A k \in 0 .. Len(ends') : Good(k)' => InStep(k)' \/ HandledTo(k)'
    BY <1>4, <1>6, <2>1 DEF ChannelInv, Parsing
  <2>3. \A j \in done' + 1 .. Len(received') : buffer'[j - done'] = byte(j)'
    BY <1>2, <1>5, <2>1 DEF ChannelInv, Parsing
  <2>4. AllHandled'
    BY <1>4, <2>1 DEF ChannelInv, Parsing, AllHandled
  <2> QED BY <1>5, <2>2, <2>3, <2>4 DEF ChannelInv, Parsing
<1> QED BY <1>3, <1>7 DEF ChannelInv

\* The next message is sent: it is behind all that the parser knows of.
LEMMA SendMessageStep ==
  ASSUME ChannelInv, SendMessage
  PROVE  ChannelInv'
<1>0. PICK n \in Nat : n = Len(ends)
  BY Behind
<1>1. /\ QueueSend(In!size(n + 1)) /\ n < NumFrames /\ ends' = Append(ends, accepted')
      /\ UNCHANGED <<frames, buffer, parsing, handled>>
  BY <1>0 DEF SendMessage, parserVars
<1>2. In!size(n + 1) \in Nat /\ In!size(n + 1) >= 1
  BY <1>0, <1>1, FramePlaces, ChannelAssumption DEF ChannelInv
<1>3. PathInv' /\ accepted' = accepted + In!size(n + 1) /\ received' = received
  BY <1>1, <1>2, QueueSendStep DEF ChannelInv
<1>4. /\ Framing' /\ Len(ends') = n + 1
      /\ \A k \in 1 .. n : ends'[k] = ends[k]
      /\ \A k \in 1 .. n + 1 : start(k)' = start(k)
      /\ \A i \in 1 .. accepted : byte(i)' = byte(i)
  BY <1>0, <1>1, <1>3, FramingGrows DEF ChannelInv
<1>5. /\ done' = done /\ done \in Nat /\ Len(received) <= accepted /\ Len(received) \in Nat /\ accepted \in Nat
      /\ Len(handled) \in Nat
      /\ \A i \in 1 .. Len(handled) : handled[i] \in 1 .. n /\ ends[handled[i]] <= done
  BY <1>0, <1>1, <1>3, Behind DEF done, ChannelInv, Parsing
<1>6. \A k \in Nat : Good(k)' = Good(k) /\ HandledTo(k)' = HandledTo(k)
  BY <1>1 DEF Good, HandledTo, In!good
<1>7. ASSUME NEW k \in 0 .. n + 1, Good(k) PROVE InStep(k)' \/ HandledTo(k)
  <2>1. CASE k \in 0 .. n
    <3>1. InStep(k) \/ HandledTo(k)
      BY <1>0, <1>7, <2>1 DEF ChannelInv, Parsing
    <3>2. ASSUME InStep(k) PROVE InStep(k)'
      <4>1. PICK m \in 0 .. k : done = start(m + 1) /\ Len(handled) = m /\ HandledTo(m)
        BY <3>2 DEF InStep
      <4>2. start(m + 1)' = start(m + 1) /\ HandledTo(m)'
        BY <1>4, <1>6, <2>1, <4>1
      <4> QED BY <1>1, <1>5, <4>1, <4>2 DEF InStep
    <3> QED BY <3>1, <3>2
  <2>2. CASE k = n + 1
    <3>1. Good(n)
      BY <1>7, <2>2 DEF Good
    <3>2. InStep(n) \/ HandledTo(n)
      BY <1>0, <3>1 DEF ChannelInv, Parsing
    <3>3. ASSUME HandledTo(n) PROVE done = start(n + 1) /\ Len(handled) = n
      <4>1. Len(handled) = n
        <5> SUFFICES ASSUME Len(handled) # n PROVE FALSE
          OBVIOUS
        <5>1. n + 1 \in 1 .. Len(handled) /\ handled[n + 1] \in 1 .. n /\ n \in 1 .. Len(handled) /\ handled[n] = n
          BY <1>5, <3>3 DEF HandledTo
        <5>2. handled[n] < handled[n + 1]
          BY <1>5, <5>1 DEF ChannelInv, Parsing
        <5> QED BY <5>1, <5>2
      <4>2. start(n + 1) = accepted
        BY <1>0 DEF ChannelInv, Framing
      <4>3. CASE n = 0
        BY <1>5, <4>2, <4>3, FramePlaces DEF ChannelInv, start, done
      <4>4. CASE n # 0
        <5>1. n \in 1 .. Len(handled) /\ handled[n] = n /\ ends[n] <= done /\ start(n + 1) = ends[n]
          BY <1>0, <1>5, <3>3, <4>1, <4>4, FramePlaces DEF HandledTo, ChannelInv
        <5>2. done <= accepted
          BY <1>5, Behind
        <5> QED BY <1>5, <4>1, <4>2, <5>1, <5>2
      <4> QED BY <4>1, <4>3, <4>4
    <3>4. PICK m \in 0 .. n : done = start(m + 1) /\ Len(handled) = m /\ HandledTo(m)
      BY <3>2, <3>3 DEF InStep
    <3>5. start(m + 1)' = start(m + 1) /\ HandledTo(m)' /\ m \in 0 .. k
      BY <1>4, <1>6, <2>2, <3>4
    <3> QED BY <1>1, <1>5, <3>4, <3>5 DEF InStep
  <2> QED BY <2>1, <2>2
<1>8. AllHandled'
  <2>1. ASSUME ~parsing, NEW k \in 1 .. n + 1, ends'[k] <= Len(received), Good(k) PROVE HandledTo(k)
    <3>1. k # n + 1
      BY <1>0, <1>1, <1>2, <1>3, <1>5, <2>1, AppendProperties DEF ChannelInv, Framing
    <3> QED BY <1>0, <1>4, <2>1, <3>1 DEF ChannelInv, Parsing, AllHandled
  <2> QED BY <1>1, <1>3, <1>4, <1>6, <2>1 DEF AllHandled
<1>9. Parsing'
  <2>1. \A j \in done' + 1 .. Len(received') : buffer'[j - done'] = byte(j)'
    BY <1>1, <1>3, <1>4, <1>5 DEF ChannelInv, Parsing
  <2>2. \A i \in 1 .. Len(handled) : handled[i] <= Len(ends') /\ ends'[handled[i]] <= done
    BY <1>4, <1>5
  <2>3. BufferBounded'
    BY <1>1 DEF ChannelInv, Parsing, BufferBounded, In!BufferBounded
  <2>4. \A k \in 0 .. Len(ends') : Good(k)' => InStep(k)' \/ HandledTo(k)'
    BY <1>4, <1>6, <1>7
  <2> QED BY <1>1, <1>3, <1>5, <1>8, <2>1, <2>2, <2>3, <2>4 DEF ChannelInv, Parsing
<1> QED BY <1>3, <1>4, <1>9 DEF ChannelInv

----------------------------------------------------------------------------
(* Receiving and parsing. *)

\* What is received is put behind the rest; done does not move.
LEMMA ReadStep ==
  ASSUME ChannelInv, Read
  PROVE  ChannelInv'
<1>1. PICK n \in 1 .. Len(kernel) : Drain(n) /\ In!Receive([i \in 1 .. n |-> byte(kernel[i])]) /\ UNCHANGED ends
  BY DEF Read
<1> DEFINE bytes == [i \in 1 .. n |-> byte(kernel[i])]
<1>2. /\ PathInv' /\ accepted' = accepted /\ Len(received') = Len(received) + n /\ Len(received') <= accepted
      /\ \A i \in 1 .. n : kernel[i] = Len(received) + i
  BY <1>1, DrainStep DEF ChannelInv
<1>3. /\ buffer' = buffer \o bytes /\ parsing' = TRUE /\ UNCHANGED <<ends, frames, handled>>
  BY <1>1 DEF In!Receive
<1>4. /\ Len(received) \in Nat /\ Len(buffer) \in Nat /\ done \in Nat /\ done + Len(buffer) = Len(received)
      /\ accepted \in Nat /\ n \in Nat /\ Len(ends) \in Nat
  <2>1. Len(kernel) \in Nat
    BY LenProperties DEF ChannelInv, PathInv, TypeOK
  <2> QED BY <2>1, Behind
<1>5. bytes \in Seq(Bytes) /\ Len(bytes) = n
  <2>1. ASSUME NEW i \in 1 .. n PROVE byte(kernel[i]) \in Bytes
    <3>1. kernel[i] \in 1 .. accepted
      BY <1>2, <1>4
    <3> QED BY <3>1, ByteTells DEF ChannelInv
  <2>2. bytes \in [1 .. n -> Bytes]
    BY <2>1
  <2> QED BY <1>4, <2>2
<1>6. /\ buffer' \in Seq(Bytes) /\ Len(buffer') = Len(buffer) + n
      /\ \A i \in 1 .. Len(buffer) + n : buffer'[i] = IF i <= Len(buffer) THEN buffer[i] ELSE bytes[i - Len(buffer)]
  BY <1>3, <1>5, ConcatProperties DEF ChannelInv, Parsing
<1>7. done' = done /\ Len(buffer') <= Len(received')
  BY <1>2, <1>4, <1>6 DEF done
<1>8. /\ \A k \in Nat : start(k)' = start(k) /\ byte(k)' = byte(k) /\ Good(k)' = Good(k) /\ HandledTo(k)' = HandledTo(k)
      /\ \A k \in Nat : In!size(k)' = In!size(k)
  BY <1>3 DEF start, byte, Good, In!good, In!size, HandledTo
<1>9. Framing'
  BY <1>2, <1>3 DEF ChannelInv, Framing, start, In!size
<1>10. ASSUME NEW j \in done + 1 .. Len(received') PROVE buffer'[j - done] = byte(j)'
  <2>1. j - done \in 1 .. Len(buffer) + n /\ j \in Nat
    BY <1>2, <1>4
  <2>2. CASE j <= Len(received)
    <3>1. j \in done + 1 .. Len(received) /\ j - done <= Len(buffer)
      BY <1>4, <2>1, <2>2
    <3>2. buffer[j - done] = byte(j)
      BY <3>1 DEF ChannelInv, Parsing
    <3>3. buffer'[j - done] = buffer[j - done]
      BY <1>6, <2>1, <3>1
    <3> QED BY <1>8, <2>1, <3>2, <3>3
  <2>3. CASE j > Len(received)
    <3>0. j <= Len(received) + n
      BY <1>2, <1>4
    <3>1. PICK i \in 1 .. n : i = j - Len(received)
      BY <1>4, <2>1, <2>3, <3>0
    <3>2. (j - done) - Len(buffer) = i /\ ~(j - done <= Len(buffer)) /\ Len(received) + i = j
      BY <1>4, <2>1, <3>1
    <3>3. buffer'[j - done] = bytes[i]
      BY <1>6, <2>1, <3>2
    <3>4. kernel[i] = j
      BY <1>2, <3>2
    <3> QED BY <1>8, <2>1, <3>3, <3>4
  <2> QED BY <1>4, <2>1, <2>2, <2>3
<1> HIDE DEF bytes
<1>11. \A k \in 0 .. Len(ends) : Good(k)' => InStep(k)' \/ HandledTo(k)'
  <2> SUFFICES ASSUME NEW k \in 0 .. Len(ends), Good(k), ~HandledTo(k) PROVE InStep(k)'
    BY <1>4, <1>8
  <2>1. PICK m \in 0 .. k : done = start(m + 1) /\ Len(handled) = m /\ HandledTo(m)
    BY DEF ChannelInv, Parsing, InStep
  <2>2. m \in Nat /\ m + 1 \in Nat
    BY <1>4
  <2>3. start(m + 1)' = start(m + 1) /\ HandledTo(m)'
    BY <1>8, <2>1, <2>2
  <2> QED BY <1>3, <1>7, <2>1, <2>3 DEF InStep
<1>12. AllHandled' /\ BufferBounded'
  BY <1>3 DEF AllHandled, BufferBounded, In!BufferBounded
<1> QED BY <1>2, <1>3, <1>6, <1>7, <1>9, <1>10, <1>11, <1>12 DEF ChannelInv, Parsing

\* When the buffer begins with a good frame, its header passes.
LEMMA GoodFront ==
  ASSUME ChannelInv, NEW m \in Nat, m + 1 \in 1 .. Len(ends), done = start(m + 1), In!good(m + 1), Len(buffer) >= 1
  PROVE  /\ In!validateHeader /\ In!totalLen = In!size(m + 1) /\ buffer[1].frame = m + 1
         /\ done + In!size(m + 1) = ends[m + 1] /\ In!size(m + 1) \in Nat /\ In!size(m + 1) >= HeaderSize
<1>1. PICK j \in Nat : j = done + 1
  BY Behind
<1>2. j \in done + 1 .. Len(received) /\ j - done = 1 /\ done \in Nat
  BY <1>1, Behind
<1>3. buffer[1] = byte(j)
  BY <1>2 DEF ChannelInv, Parsing
<1>4. start(m + 1) < ends[m + 1] /\ ends[m + 1] \in Nat /\ m + 1 \in 1 .. NumFrames
  BY FramePlaces DEF ChannelInv
<1>5. byte(j) = [frame |-> m + 1, place |-> j - start(m + 1)]
  <2>0. PICK b \in Nat : b = start(m + 1)
    BY <1>2
  <2>1. start(m + 1) < j /\ j <= ends[m + 1]
    BY <1>1, <1>4, <2>0
  <2> QED BY <2>1, ByteOf DEF Belongs, ChannelInv
<1>6. buffer[1].frame = m + 1 /\ buffer[1].place = 1
  BY <1>2, <1>3, <1>5
<1>7. In!validateHeader /\ In!totalLen = In!size(m + 1)
  BY <1>6 DEF In!validateHeader, In!totalLen, In!good
<1>8. In!size(m + 1) \in Nat /\ In!size(m + 1) >= HeaderSize
  BY <1>4, FramePlaces DEF ChannelInv
<1>9. done + In!size(m + 1) = ends[m + 1]
  BY DEF ChannelInv, Framing
<1> QED BY <1>6, <1>7, <1>8, <1>9

\* A header that passes is that of a good frame, of which nothing has been taken.
LEMMA FrontIsGood ==
  ASSUME ChannelInv, Len(buffer) >= 1, In!validateHeader
  PROVE  LET f == buffer[1].frame
         IN  /\ f \in 1 .. Len(ends) /\ done = start(f) /\ In!good(f) /\ In!totalLen = In!size(f)
             /\ ends[f] = done + In!size(f) /\ In!size(f) \in Nat /\ In!size(f) >= 1 /\ In!size(f) <= HeaderSize + MaxBody
<1> DEFINE f == buffer[1].frame
<1>1. PICK j \in Nat : j = done + 1
  BY Behind
<1>2. j \in done + 1 .. Len(received) /\ j - done = 1 /\ done \in Nat /\ j \in 1 .. accepted
  BY <1>1, Behind
<1>3. buffer[1] = byte(j)
  BY <1>2 DEF ChannelInv, Parsing
<1>4. f \in 1 .. Len(ends) /\ j = start(f) + buffer[1].place
  BY <1>2, <1>3, ByteTells DEF ChannelInv
<1>5. buffer[1].place = 1 /\ In!good(f)
  BY DEF In!validateHeader, In!good
<1>6. start(f) \in Nat /\ f \in 1 .. NumFrames
  BY <1>4, FramePlaces, Behind DEF ChannelInv
<1>7. done = start(f)
  BY <1>1, <1>2, <1>4, <1>5, <1>6
<1>8. ends[f] = done + In!size(f)
  BY <1>4, <1>7 DEF ChannelInv, Framing
<1>9. In!size(f) \in Nat /\ In!size(f) >= 1 /\ In!size(f) <= HeaderSize + MaxBody
  <2>1. frames[f].bodyLength \in 0 .. MaxBody + 1 /\ frames[f].bodyLength <= MaxBody
    BY <1>5, <1>6 DEF In!good, ChannelInv, Framing, In!Frame
  <2> QED BY <2>1, ChannelAssumption DEF In!size
<1> QED BY <1>4, <1>5, <1>7, <1>8, <1>9 DEF In!totalLen

\* A frame is handled: it is the one that comes next, and the next after it comes then.
LEMMA HandleFrameStep ==
  ASSUME ChannelInv, In!HandleFrame, UNCHANGED <<sendVars, ends>>
  PROVE  ChannelInv'
<1>0. /\ In!validateHeader /\ Len(buffer) >= In!totalLen /\ handled' = Append(handled, buffer[1].frame)
      /\ buffer' = SubSeq(buffer, In!totalLen + 1, Len(buffer)) /\ parsing
      /\ UNCHANGED <<frames, parsing, ends>>
      /\ Len(buffer) >= 1
  <2>1. Len(buffer) >= HeaderSize /\ Len(buffer) \in Nat
    BY Behind DEF In!HandleFrame
  <2> QED BY <2>1, ChannelAssumption DEF In!HandleFrame
<1>1. PICK f \in 1 .. Len(ends) : f = buffer[1].frame
  BY <1>0, FrontIsGood
<1>2. PICK n \in Nat : n = In!size(f)
  BY <1>0, <1>1, FrontIsGood
<1>3. /\ done = start(f) /\ In!good(f) /\ In!totalLen = n /\ ends[f] = done + n /\ n >= 1
  BY <1>0, <1>1, <1>2, FrontIsGood
<1>4. /\ Len(received) \in Nat /\ Len(buffer) \in Nat /\ Len(handled) \in Nat /\ Len(ends) \in Nat
      /\ done \in Nat /\ done + Len(buffer) = Len(received)
  BY Behind
<1>5. PathInv' /\ UNCHANGED <<received, accepted>>
  BY DEF ChannelInv, PathInv, TypeOK, Flow, InOrder, taken, pending, sendVars, handler, epoll, socket
<1>6. /\ buffer' \in Seq(Bytes) /\ Len(buffer') = Len(buffer) - n
      /\ \A i \in 1 .. Len(buffer) - n : buffer'[i] = buffer[n + i]
  <2>1. n \in 0 .. Len(buffer) /\ buffer \in Seq(Bytes)
    BY <1>0, <1>3, <1>4 DEF ChannelInv, Parsing
  <2> QED BY <1>0, <1>3, <2>1, TakeDrop DEF Drop
<1>7. done' = done + n /\ Len(buffer') <= Len(received')
  <2>1. Len(received') = Len(received) /\ Len(buffer') = Len(buffer) - n
    BY <1>5, <1>6
  <2>2. done' = Len(received) - (Len(buffer) - n) /\ done = Len(received) - Len(buffer)
    BY <2>1 DEF done
  <2> QED BY <1>3, <1>4, <2>1, <2>2
<1>8. /\ \A k \in Nat : start(k)' = start(k) /\ byte(k)' = byte(k) /\ Good(k)' = Good(k)
      /\ \A k \in Nat : In!size(k)' = In!size(k)
  BY <1>0 DEF start, byte, Good, In!good, In!size
<1>9. Framing'
  BY <1>0, <1>5 DEF ChannelInv, Framing, start, In!size
<1>10. ASSUME NEW j \in done' + 1 .. Len(received') PROVE buffer'[j - done'] = byte(j)'
  <2>1. /\ j - done' \in 1 .. Len(buffer) - n /\ j \in done + 1 .. Len(received) /\ n + (j - done') = j - done
        /\ j \in Nat
    BY <1>4, <1>5, <1>7
  <2>2. buffer[j - done] = byte(j)
    BY <2>1 DEF ChannelInv, Parsing
  <2>3. buffer'[j - done'] = buffer[j - done]
    BY <1>6, <2>1
  <2> QED BY <1>8, <2>1, <2>2, <2>3
<1>11. \A i \in 1 .. Len(handled) : handled[i] < f /\ handled[i] \in 1 .. Len(ends) /\ ends[handled[i]] <= done
  <2> TAKE i \in 1 .. Len(handled)
  <2>1. PICK g \in 1 .. Len(ends) : g = handled[i]
    BY Behind
  <2>2. ends[g] <= done
    BY <2>1 DEF ChannelInv, Parsing
  <2>3. /\ ends[g] \in Nat /\ start(g) < ends[g] /\ start(f) < ends[f] /\ start(g) \in Nat /\ start(f) \in Nat
        /\ ends[f] \in Nat
    BY <1>4, FramePlaces DEF ChannelInv
  <2>4. f < g => ends[f] <= start(g)
    BY <1>4, FramePlaces DEF ChannelInv
  <2>5. g < f
    BY <1>3, <1>4, <2>2, <2>3, <2>4
  <2> QED BY <2>1, <2>2, <2>5
<1>12. /\ handled' \in Seq(1 .. NumFrames) /\ Len(handled') = Len(handled) + 1
       /\ \A i \in 1 .. Len(handled) : handled'[i] = handled[i]
       /\ handled'[Len(handled) + 1] = f
  <2>1. f \in 1 .. NumFrames /\ handled \in Seq(1 .. NumFrames)
    BY FramePlaces DEF ChannelInv, Parsing
  <2> QED BY <1>0, <1>1, <2>1, AppendProperties
<1>13. \A i \in 1 .. Len(handled') : handled'[i] <= Len(ends') /\ ends'[handled'[i]] <= done'
  <2> TAKE i \in 1 .. Len(handled')
  <2>1. CASE i \in 1 .. Len(handled)
    <3>1. PICK g \in 1 .. Len(ends) : g = handled[i]
      BY <1>11, <2>1
    <3>2. ends[g] <= done /\ ends[g] \in Nat
      BY <1>11, <2>1, <3>1, FramePlaces DEF ChannelInv
    <3> QED BY <1>0, <1>4, <1>7, <1>12, <2>1, <3>1, <3>2
  <2>2. CASE i = Len(handled) + 1
    BY <1>0, <1>3, <1>4, <1>7, <1>12, <2>2
  <2> QED BY <1>4, <1>12, <2>1, <2>2
<1>14. \A i, j \in 1 .. Len(handled') : i < j => handled'[i] < handled'[j]
  <2> SUFFICES ASSUME NEW i \in 1 .. Len(handled'), NEW j \in 1 .. Len(handled'), i < j
               PROVE  handled'[i] < handled'[j]
    OBVIOUS
  <2>1. i \in 1 .. Len(handled) /\ handled'[i] = handled[i]
    BY <1>4, <1>12
  <2>2. CASE j \in 1 .. Len(handled)
    BY <1>12, <2>1, <2>2 DEF ChannelInv, Parsing
  <2>3. CASE j = Len(handled) + 1
    BY <1>11, <1>12, <2>1, <2>3
  <2> QED BY <1>4, <1>12, <2>2, <2>3
<1>15. \A k \in Nat : HandledTo(k) => HandledTo(k)'
  BY <1>4, <1>12 DEF HandledTo
<1>16. ASSUME NEW k \in 0 .. Len(ends), Good(k), ~HandledTo(k) PROVE InStep(k)'
  <2>1. PICK m \in 0 .. k : done = start(m + 1) /\ Len(handled) = m /\ HandledTo(m)
    BY <1>16 DEF ChannelInv, Parsing, InStep
  <2>2. m + 1 = f
    <3>1. PICK g \in 1 .. Len(ends) + 1 : g = m + 1
      BY <1>4
    <3>2. \A i, j \in 1 .. Len(ends) + 1 : i < j => start(i) < start(j)
      BY FramePlaces DEF ChannelInv
    <3>3. f \in 1 .. Len(ends) + 1 /\ start(f) \in Nat /\ start(g) \in Nat
      BY <1>4, FramePlaces DEF ChannelInv
    <3>4. start(g) = start(f)
      BY <1>3, <2>1, <3>1
    <3>5. (g < f => start(g) < start(f)) /\ (f < g => start(f) < start(g))
      BY <3>2, <3>3
    <3> QED BY <1>4, <3>1, <3>3, <3>4, <3>5
  <2>3. m < k
    BY <1>4, <1>16, <2>1
  <2>4. start(f + 1) = ends[f] /\ f + 1 \in Nat
    BY FramePlaces DEF ChannelInv
  <2>5. done' = start(f + 1)' /\ Len(handled') = f /\ f \in 0 .. k
    BY <1>3, <1>4, <1>7, <1>8, <1>12, <2>1, <2>2, <2>3, <2>4
  <2>6. \A i \in 1 .. f : handled'[i] = i
    BY <1>4, <1>12, <2>1, <2>2 DEF HandledTo
  <2> QED BY <2>5, <2>6 DEF InStep, HandledTo
<1>17. \A k \in 0 .. Len(ends') : Good(k)' => InStep(k)' \/ HandledTo(k)'
  BY <1>0, <1>4, <1>8, <1>15, <1>16
<1>18. AllHandled' /\ BufferBounded'
  BY <1>0 DEF AllHandled, BufferBounded, In!BufferBounded
<1>19. parsing' \in BOOLEAN
  BY <1>0 DEF ChannelInv, Parsing
<1>20. Parsing'
  BY <1>6, <1>7, <1>10, <1>12, <1>13, <1>14, <1>17, <1>18, <1>19 DEF Parsing
<1> QED BY <1>5, <1>9, <1>20 DEF ChannelInv

\* When the loop ends no frame is missed: the next good one has not come whole, and no header fails
\* in its place.
LEMMA NoneMissed ==
  ASSUME ChannelInv, In!BadHeader \/ In!Incomplete, NEW k \in 0 .. Len(ends), Good(k), ~HandledTo(k)
  PROVE  In!Incomplete /\ k # 0 /\ Len(received) < ends[k]
<1>1. PICK m \in 0 .. k : done = start(m + 1) /\ Len(handled) = m /\ HandledTo(m)
  BY DEF ChannelInv, Parsing, InStep
<1>2. /\ Len(received) \in Nat /\ Len(buffer) \in Nat /\ Len(ends) \in Nat
      /\ done \in Nat /\ done + Len(buffer) = Len(received)
  BY Behind
<1>3. m \in Nat /\ m + 1 \in 1 .. k /\ m + 1 \in 1 .. Len(ends) /\ k \in 1 .. Len(ends)
  <2>1. m # k
    BY <1>1
  <2> QED BY <1>2, <2>1
<1>4. In!good(m + 1)
  BY <1>3 DEF Good
<1>5. Len(buffer) >= 1 => /\ In!validateHeader /\ In!totalLen = In!size(m + 1)
                          /\ done + In!size(m + 1) = ends[m + 1]
  BY <1>1, <1>3, <1>4, GoodFront
<1>6. HeaderSize \in Nat /\ HeaderSize >= 1
  BY ChannelAssumption
<1>7. In!Incomplete
  BY <1>2, <1>5, <1>6 DEF In!BadHeader
<1>8. /\ ends[m + 1] \in Nat /\ ends[k] \in Nat /\ start(m + 1) < ends[m + 1] /\ ends[m + 1] <= ends[k]
  <2>1. PICK g \in 1 .. Len(ends) : g = m + 1
    BY <1>3
  <2>2. /\ ends[g] \in Nat /\ ends[k] \in Nat /\ start(g) < ends[g] /\ start(k) < ends[k] /\ start(k) \in Nat
    BY <1>2, <1>3, FramePlaces DEF ChannelInv
  <2>3. g < k => ends[g] <= start(k)
    BY <1>3 DEF ChannelInv, Framing
  <2> QED BY <1>3, <2>1, <2>2, <2>3
<1>9. Len(received) < ends[k]
  <2>1. CASE Len(buffer) < HeaderSize
    <3>1. PICK n \in Nat : n = In!size(m + 1)
      BY <1>3, FramePlaces DEF ChannelInv
    <3>2. n >= HeaderSize /\ ends[m + 1] = done + n
      BY <1>1, <1>3, <3>1, FramePlaces DEF ChannelInv, Framing
    <3> QED BY <1>2, <1>6, <1>8, <2>1, <3>2
  <2>2. CASE Len(buffer) >= HeaderSize
    <3>1. Len(buffer) >= 1 /\ Len(buffer) < In!totalLen
      BY <1>2, <1>6, <1>7, <2>2 DEF In!Incomplete
    <3>2. PICK n \in Nat : n = In!size(m + 1)
      BY <1>3, FramePlaces DEF ChannelInv
    <3> QED BY <1>2, <1>5, <1>8, <3>1, <3>2
  <2> QED BY <1>2, <1>6, <2>1, <2>2
<1> QED BY <1>3, <1>7, <1>9

\* The loop ends: the buffer is dropped or kept.
LEMMA LoopEnds ==
  ASSUME ChannelInv, In!BadHeader \/ In!Incomplete, UNCHANGED <<sendVars, ends>>
  PROVE  ChannelInv'
<1>1. /\ buffer' = <<>> \/ (buffer' = buffer /\ In!Incomplete)
      /\ parsing' = FALSE /\ UNCHANGED <<frames, handled, ends>>
  BY DEF In!BadHeader, In!Incomplete
<1>2. /\ Len(received) \in Nat /\ Len(buffer) \in Nat /\ Len(handled) \in Nat /\ Len(ends) \in Nat
      /\ done \in Nat /\ done + Len(buffer) = Len(received)
      /\ \A i \in 1 .. Len(handled) : handled[i] \in 1 .. Len(ends)
  BY Behind
<1>3. PathInv' /\ UNCHANGED <<received, accepted>>
  BY DEF ChannelInv, PathInv, TypeOK, Flow, InOrder, taken, pending, sendVars, handler, epoll, socket
<1>4. Framing'
  BY <1>1, <1>3 DEF ChannelInv, Framing, start, In!size
<1>5. /\ buffer' \in Seq(Bytes) /\ Len(buffer') <= Len(received') /\ Len(buffer') \in Nat
      /\ done' \in Nat /\ done <= done'
  <2>1. <<>> \in Seq(Bytes) /\ Len(<<>>) = 0
    BY EmptySeq
  <2>2. CASE buffer' = <<>>
    BY <1>2, <1>3, <2>1, <2>2 DEF done
  <2>3. CASE buffer' = buffer
    BY <1>2, <1>3, <2>3 DEF done, ChannelInv, Parsing
  <2> QED BY <1>1, <2>2, <2>3
<1>6. \A j \in done' + 1 .. Len(received') : buffer'[j - done'] = byte(j)'
  <2>1. CASE buffer' = <<>>
    <3>1. done' = Len(received')
      BY <1>2, <1>3, <2>1, EmptySeq DEF done
    <3> QED BY <1>2, <1>3, <3>1
  <2>2. CASE buffer' = buffer
    <3>1. \A j \in Nat : byte(j)' = byte(j)
      BY <1>1 DEF byte, start
    <3>2. done' = done
      BY <1>3, <2>2 DEF done
    <3> QED BY <1>2, <1>3, <2>2, <3>1, <3>2 DEF ChannelInv, Parsing
  <2> QED BY <1>1, <2>1, <2>2
<1>7. \A i \in 1 .. Len(handled) : handled[i] <= Len(ends) /\ ends[handled[i]] <= done'
  <2> TAKE i \in 1 .. Len(handled)
  <2>1. ends[handled[i]] <= done /\ ends[handled[i]] \in Nat
    BY <1>2, FramePlaces DEF ChannelInv, Parsing
  <2> QED BY <1>2, <1>5, <2>1
<1>8. \A k \in Nat : Good(k)' = Good(k) /\ HandledTo(k)' = HandledTo(k) /\ start(k)' = start(k)
  BY <1>1 DEF Good, In!good, HandledTo, start
<1>9. \A k \in 0 .. Len(ends') : Good(k)' => InStep(k)' \/ HandledTo(k)'
  <2> SUFFICES ASSUME NEW k \in 0 .. Len(ends), Good(k), ~HandledTo(k) PROVE InStep(k)'
    BY <1>1, <1>2, <1>8
  <2>1. PICK m \in 0 .. k : done = start(m + 1) /\ Len(handled) = m /\ HandledTo(m)
    BY DEF ChannelInv, Parsing, InStep
  <2>2. m \in Nat /\ m + 1 \in Nat
    BY <1>2
  <2>3. buffer' = buffer
    BY <1>1, NoneMissed DEF In!BadHeader, In!Incomplete
  <2>4. done' = done
    BY <1>3, <2>3 DEF done
  <2>5. start(m + 1)' = start(m + 1) /\ HandledTo(m)'
    BY <1>8, <2>1, <2>2
  <2> QED BY <1>1, <2>1, <2>4, <2>5 DEF InStep
<1>10. AllHandled'
  <2>1. ASSUME NEW k \in 1 .. Len(ends), ends[k] <= Len(received), Good(k), ~HandledTo(k) PROVE FALSE
    <3>1. Len(received) < ends[k] /\ ends[k] \in Nat
      BY <1>2, <2>1, NoneMissed, FramePlaces DEF ChannelInv
    <3> QED BY <1>2, <2>1, <3>1
  <2>2. \A k \in 1 .. Len(ends) : k \in Nat
    BY <1>2
  <2> QED BY <1>1, <1>3, <1>8, <2>1, <2>2 DEF AllHandled
<1>11. BufferBounded'
  <2>1. CASE buffer' = <<>>
    BY <2>1, EmptySeq, ChannelAssumption DEF BufferBounded, In!BufferBounded
  <2>2. CASE buffer' = buffer /\ In!Incomplete
    <3>1. CASE Len(buffer) < HeaderSize
      BY <1>2, <2>2, <3>1, ChannelAssumption DEF BufferBounded, In!BufferBounded
    <3>2. CASE Len(buffer) >= HeaderSize
      <4>1. Len(buffer) >= 1 /\ In!validateHeader /\ Len(buffer) < In!totalLen
        BY <1>2, <2>2, <3>2, ChannelAssumption DEF In!Incomplete
      <4>2. PICK n \in Nat : n = In!totalLen
        BY <4>1, FrontIsGood
      <4>3. n <= HeaderSize + MaxBody
        BY <4>1, <4>2, FrontIsGood
      <4> QED BY <1>2, <2>2, <4>1, <4>2, <4>3, ChannelAssumption DEF BufferBounded, In!BufferBounded
    <3> QED BY <1>2, <3>1, <3>2, ChannelAssumption
  <2> QED BY <1>1, <2>1, <2>2
<1>12. Parsing'
  BY <1>1, <1>5, <1>6, <1>7, <1>9, <1>10, <1>11 DEF Parsing, ChannelInv
<1> QED BY <1>3, <1>4, <1>12 DEF ChannelInv

----------------------------------------------------------------------------
(* The invariant. *)

\* Nothing is sent, and nothing waits.
LEMMA ChannelStarts == ChannelInit => ChannelInv
<1> SUFFICES ASSUME ChannelInit PROVE ChannelInv
  OBVIOUS
<1>1. /\ pc = "idle" /\ data = <<>> /\ outbuf = <<>> /\ outOffset = 0 /\ closing = FALSE
      /\ interest = FALSE /\ edge = FALSE /\ event = FALSE /\ noSpace = FALSE
      /\ kernel = <<>> /\ reset = FALSE /\ received = <<>> /\ accepted = 0
      /\ frames \in [1 .. NumFrames -> In!Frame] /\ ends = <<>>
      /\ buffer = <<>> /\ parsing = FALSE /\ handled = <<>>
  BY DEF ChannelInit, Init, In!Init
<1>2. Len(<<>>) = 0 /\ \A T : <<>> \in Seq(T)
  BY EmptySeq
<1>3. MaxBytes \in Nat /\ NumFrames \in Nat /\ HeaderSize \in Nat /\ HeaderSize >= 1 /\ MaxBody \in Nat
  BY SendPathAssumption, ChannelAssumption
<1>4. PathInv
  <2>1. TypeOK
    <3>1. accepted \in 0 .. MaxBytes /\ outOffset \in 0 .. Len(outbuf)
      BY <1>1, <1>2, <1>3
    <3>2. /\ data \in Seq(1 .. MaxBytes) /\ outbuf \in Seq(1 .. MaxBytes)
          /\ kernel \in Seq(1 .. MaxBytes) /\ received \in Seq(1 .. MaxBytes)
      BY <1>1, <1>2
    <3> QED BY <1>1, <3>1, <3>2 DEF TypeOK
  <2>2. taken = 0 /\ pending = 0 /\ Len(data) = 0
    BY <1>1, <1>2 DEF taken, pending
  <2>3. \A n : InOrder(received, n) /\ InOrder(kernel, n) /\ InOrder(data, n)
    BY <1>1, <1>2 DEF InOrder
  <2>4. Flow
    BY <1>1, <2>2, <2>3 DEF Flow
  <2> QED BY <2>1, <2>4 DEF PathInv
<1>5. Framing
  BY <1>1, <1>2, <1>3 DEF Framing, start
<1>6. done = 0 /\ start(1) = 0 /\ Len(handled) = 0 /\ Len(received) = 0 /\ Len(buffer) = 0 /\ Len(ends) = 0
  BY <1>1, <1>2 DEF done, start
<1>7. HandledTo(0) /\ AllHandled /\ BufferBounded
  BY <1>3, <1>6 DEF HandledTo, AllHandled, BufferBounded, In!BufferBounded
<1>8. Parsing
  <2>1. buffer \in Seq(Bytes) /\ handled \in Seq(1 .. NumFrames) /\ parsing \in BOOLEAN
    BY <1>1, <1>2
  <2>2. \A k \in 0 .. Len(ends) : Good(k) => HandledTo(k)
    BY <1>6, <1>7
  <2> QED BY <1>6, <1>7, <2>1, <2>2 DEF Parsing
<1> QED BY <1>4, <1>5, <1>8 DEF ChannelInv

\* The steps of the handler and of the socket that the parser takes no part in.
LEMMA ServerStep ==
  ASSUME ChannelInv, Server \/ ConnectionLost
  PROVE  ChannelInv' /\ UNCHANGED <<accepted, received>>
<1>1. PathInv /\ UNCHANGED <<ends, parserVars>>
  BY DEF ChannelInv, Server, ConnectionLost
<1>2. PathInv' /\ UNCHANGED <<accepted, received>>
  BY <1>1, SendSomeStep, SendBlocksStep, CloseStep, EventStep, FlushSomeStep, PeerResetStep
     DEF Server, ConnectionLost, Main
<1> QED BY <1>1, <1>2, ParserRests

\* The loop of parseData.
LEMMA ParseStep ==
  ASSUME ChannelInv, Parse
  PROVE  ChannelInv'
<1>1. (In!BadHeader \/ In!Incomplete) \/ In!HandleFrame
  BY DEF Parse, In!parseData
<1>2. UNCHANGED <<sendVars, ends>>
  BY DEF Parse
<1> QED BY <1>1, <1>2, HandleFrameStep, LoopEnds

\* A step of nothing keeps the invariant.
LEMMA ChannelStutters ==
  ASSUME ChannelInv, UNCHANGED vars
  PROVE  ChannelInv'
<1>1. PathInv'
  BY DEF ChannelInv, PathInv, TypeOK, Flow, InOrder, taken, pending, vars, sendVars, handler, epoll, socket
<1>2. UNCHANGED <<ends, parserVars, accepted, received>>
  BY DEF vars, sendVars, socket
<1> QED BY <1>1, <1>2, ParserRests

\* The invariant of one connection's way from a sender's queue to a receiver's parser.
THEOREM ChannelInvariant == Spec => []ChannelInv
<1>1. ChannelInit => ChannelInv
  BY ChannelStarts
<1>2. ChannelInv /\ [Next]_vars => ChannelInv'
  BY SendMessageStep, ServerStep, ReadStep, ParseStep, ChannelStutters DEF Next, Rest
<1> QED BY <1>1, <1>2, PTL DEF Spec

----------------------------------------------------------------------------
(* What follows. *)

\* SendPath's types hold along the whole way: the offset of the output buffer stays inside it, whatever
\* send takes and whenever the buffer is trimmed.
THEOREM ChannelTypes == Spec => []TypeOK
<1>1. ChannelInv => TypeOK
  BY DEF ChannelInv, PathInv
<1> QED BY <1>1, ChannelInvariant, PTL

\* The receiver keeps less than one frame between two reads, whatever lengths it is told.
THEOREM BufferStaysSmall == Spec => []BufferBounded
<1>1. ChannelInv => BufferBounded
  BY DEF ChannelInv, Parsing
<1> QED BY <1>1, ChannelInvariant, PTL

\* StreamParser calls a frame whole when its last byte has come, which is when the peer has read so far.
LEMMA WholeMeans ==
  ASSUME ChannelInv, NEW k \in 1 .. NumFrames, In!whole(k)
  PROVE  k \in 1 .. Len(ends) /\ ends[k] <= Len(received)
<1>1. PICK i \in DOMAIN received : byte(received[i]) = [frame |-> k, place |-> In!size(k)]
  BY DEF In!whole
<1>2. i \in 1 .. Len(received) /\ received[i] = i
  <2>1. DOMAIN received = 1 .. Len(received)
    BY LenProperties DEF ChannelInv, PathInv, TypeOK
  <2>2. \A j \in 1 .. Len(received) : received[j] = 0 + j
    BY DEF ChannelInv, PathInv, Flow, InOrder
  <2> QED BY <2>1, <2>2, Behind
<1>3. i \in 1 .. accepted
  BY <1>2, Behind
<1>4. k \in 1 .. Len(ends) /\ i = start(k) + In!size(k)
  BY <1>1, <1>2, <1>3, ByteTells DEF ChannelInv
<1> QED BY <1>2, <1>4 DEF ChannelInv, Framing

\* Each frame is handled at most once and in order; when parseData returns every frame that has come
\* whole is handled, if it and those before it are good. However send and recv cut the bytes.
THEOREM WholeFramesAreHandled == Spec => []FramesHandled
<1>1. ASSUME ChannelInv PROVE FramesHandled
  <2>1. DOMAIN handled = 1 .. Len(handled) /\ DOMAIN frames = 1 .. NumFrames /\ handled \in Seq(1 .. NumFrames)
    BY <1>1, LenProperties DEF ChannelInv, Parsing, Framing
  <2>2. \A i, j \in DOMAIN handled : i < j => handled[i] < handled[j]
    BY <1>1, <2>1 DEF ChannelInv, Parsing
  <2>3. ASSUME ~parsing, NEW k \in DOMAIN frames, In!whole(k), \A i \in 1 .. k : In!good(i)
        PROVE  In!IsPrefix([i \in 1 .. k |-> i], handled)
    <3>1. k \in 1 .. Len(ends) /\ ends[k] <= Len(received) /\ k \in Nat
      BY <1>1, <2>1, <2>3, WholeMeans
    <3>2. HandledTo(k)
      BY <1>1, <2>3, <3>1 DEF ChannelInv, Parsing, AllHandled, Good
    <3>3. Len([i \in 1 .. k |-> i]) = k /\ Len(handled) \in Nat /\ k <= Len(handled)
      BY <2>1, <3>1, <3>2, LenProperties DEF HandledTo
    <3>4. [i \in 1 .. k |-> i] = SubSeq(handled, 1, k)
      <4>1. \A i \in 1 .. k : handled[i] = i
        BY <3>2 DEF HandledTo
      <4>2. k \in 0 .. Len(handled)
        BY <3>1, <3>3
      <4>3. /\ SubSeq(handled, 1, k) \in Seq(1 .. NumFrames) /\ Len(SubSeq(handled, 1, k)) = k
            /\ \A i \in 1 .. k : SubSeq(handled, 1, k)[i] = handled[i]
        BY <2>1, <4>2, TakeDrop
      <4>4. [i \in 1 .. k |-> i] \in Seq(Nat)
        BY <3>1
      <4> QED BY <3>3, <4>1, <4>3, <4>4, SeqEqual
    <3>5. SubSeq([i \in 1 .. k |-> i], 1, k) = [i \in 1 .. k |-> i]
      <4>1. [i \in 1 .. k |-> i] \in Seq(Nat) /\ k \in 0 .. Len([i \in 1 .. k |-> i])
        BY <3>1, <3>3
      <4>2. /\ SubSeq([i \in 1 .. k |-> i], 1, k) \in Seq(Nat) /\ Len(SubSeq([i \in 1 .. k |-> i], 1, k)) = k
            /\ \A j \in 1 .. k : SubSeq([i \in 1 .. k |-> i], 1, k)[j] = [i \in 1 .. k |-> i][j]
        BY <4>1, TakeDrop
      <4> QED BY <3>3, <4>1, <4>2, SeqEqual
    <3> QED BY <3>3, <3>4, <3>5 DEF In!IsPrefix
  <2> QED BY <2>2, <2>3 DEF FramesHandled, In!FramesHandled
<1> QED BY <1>1, ChannelInvariant, PTL

----------------------------------------------------------------------------
(* The sender is a byte stream: what each step does to given, got and closed. *)

\* A step of the channel gives, delivers, closes, or shows nothing.
LEMMA StreamStep ==
  ASSUME ChannelInv, [Next]_vars
  PROVE  \/ accepted' > accepted /\ accepted' <= MaxBytes /\ ~closing /\ UNCHANGED <<received, closing>>
         \/ /\ Len(received') > Len(received) /\ Len(received') <= accepted
            /\ UNCHANGED <<accepted, closing>>
         \/ closing' = TRUE /\ UNCHANGED <<accepted, received>>
         \/ UNCHANGED <<accepted, received, closing>>
<1>0. PathInv /\ Framing
  BY DEF ChannelInv
<1>1. CASE SendMessage
  <2>1. PICK n \in Nat : n = Len(ends) + 1
    BY Behind
  <2>2. n \in 1 .. NumFrames /\ QueueSend(In!size(n))
    BY <1>1, <2>1, Behind, ChannelAssumption DEF SendMessage
  <2>3. PICK b \in Nat : b = In!size(n) /\ b >= 1
    BY <1>0, <2>2, FramePlaces
  <2>4. accepted' = accepted + b /\ received' = received /\ closing' = closing /\ ~closing
    BY <1>0, <2>2, <2>3, QueueSendStep
  <2>5. accepted' <= MaxBytes
    BY <2>2, <2>3 DEF QueueSend
  <2> QED BY <2>3, <2>4, <2>5, Behind
<1>2. CASE Server \/ ConnectionLost
  BY <1>0, <1>2, SendSomeStep, SendBlocksStep, CloseStep, EventStep, FlushSomeStep, PeerResetStep
     DEF Server, ConnectionLost, Main
<1>3. CASE Read
  <2>1. PICK n \in 1 .. Len(kernel) : Drain(n)
    BY <1>3 DEF Read
  <2>2. UNCHANGED <<accepted, closing>> /\ Len(received') = Len(received) + n /\ Len(received') <= accepted
    BY <1>0, <2>1, DrainStep
  <2>3. Len(kernel) \in Nat
    BY <1>0, LenProperties DEF PathInv, TypeOK
  <2> QED BY <2>2, <2>3, Behind
<1>4. CASE Parse \/ Rest \/ UNCHANGED vars
  BY <1>4 DEF Parse, Rest, vars, sendVars, handler, socket
<1> QED BY <1>1, <1>2, <1>3, <1>4 DEF Next

\* What the other end has got are the first of the numbers given.
LEMMA GotIsPrefix ==
  ASSUME NEW a \in Nat, NEW r \in Seq(Nat), InOrder(r, 0), Len(r) <= a
  PROVE  r = SubSeq([i \in 1 .. a |-> i], 1, Len(r))
<1> DEFINE s == [i \in 1 .. a |-> i]
<1>1. s \in Seq(Nat) /\ Len(s) = a /\ Len(r) \in 0 .. Len(s) /\ Len(r) \in Nat
  BY LenProperties
<1>2. /\ SubSeq(s, 1, Len(r)) \in Seq(Nat) /\ Len(SubSeq(s, 1, Len(r))) = Len(r)
      /\ \A i \in 1 .. Len(r) : SubSeq(s, 1, Len(r))[i] = s[i]
  BY <1>1, TakeDrop
<1>3. \A i \in 1 .. Len(r) : r[i] = s[i]
  BY <1>1 DEF InOrder
<1> QED BY <1>1, <1>2, <1>3, SeqEqual

\* Whatever the kernel takes of each send, whenever the buffer is trimmed and the edges come, the peer
\* reads the bytes queueSend was given: none twice, none out of order, none left out on the way.
THEOREM HandlerIsByteStream == Spec => Refines
<1> DEFINE given == [i \in 1 .. accepted |-> i]
<1>1. ChannelInit => Stream!Init
  <2> SUFFICES ASSUME ChannelInit PROVE Stream!Init
    OBVIOUS
  <2>1. accepted = 0 /\ received = <<>> /\ closing = FALSE
    BY DEF ChannelInit, Init
  <2>2. [i \in 1 .. 0 |-> i] = <<>>
    <3>1. [i \in 1 .. 0 |-> i] \in Seq(Nat) /\ Len([i \in 1 .. 0 |-> i]) = 0
      OBVIOUS
    <3> QED BY <3>1, EmptySeq
  <2> QED BY <2>1, <2>2 DEF Stream!Init
<1>2. ASSUME ChannelInv, ChannelInv', [Next]_vars PROVE [Stream!Next]_(Stream!vars)
  <2>1. /\ accepted \in Nat /\ accepted' \in Nat /\ Len(received) \in Nat /\ Len(received') \in Nat
        /\ received' \in Seq(Nat) /\ InOrder(received', 0) /\ MaxBytes \in Nat
    <3>1. accepted' \in 0 .. MaxBytes /\ received' \in Seq(1 .. MaxBytes) /\ InOrder(received', 0)
      BY <1>2 DEF ChannelInv, PathInv, TypeOK, Flow, InOrder
    <3>2. received' \in Seq(Nat)
      <4>1. 1 .. MaxBytes \subseteq Nat
        BY SendPathAssumption
      <4> QED BY <3>1, <4>1, SeqMonotonic, Zenon
    <3> QED BY <1>2, <3>1, <3>2, Behind, SendPathAssumption, LenProperties
  <2>2. Len(given) = accepted
    BY <2>1
  <2>3. CASE accepted' > accepted /\ accepted' <= MaxBytes /\ ~closing /\ UNCHANGED <<received, closing>>
    <3>1. accepted' \in Len(given) + 1 .. MaxBytes
      BY <2>1, <2>2, <2>3
    <3>2. Stream!Give
      BY <2>3, <3>1 DEF Stream!Give
    <3> QED BY <3>2 DEF Stream!Next
  <2>4. CASE Len(received') > Len(received) /\ Len(received') <= accepted /\ UNCHANGED <<accepted, closing>>
    <3>1. Len(received') \in Len(received) + 1 .. Len(given)
      BY <2>1, <2>2, <2>4
    <3>2. received' = SubSeq(given, 1, Len(received'))
      BY <2>1, <2>4, GotIsPrefix
    <3>3. Stream!Deliver
      BY <2>4, <3>1, <3>2 DEF Stream!Deliver
    <3> QED BY <3>3 DEF Stream!Next
  <2>5. CASE closing' = TRUE /\ UNCHANGED <<accepted, received>>
    BY <2>5 DEF Stream!Next, Stream!Close
  <2>6. CASE UNCHANGED <<accepted, received, closing>>
    BY <2>6 DEF Stream!vars
  <2> QED BY <1>2, <2>3, <2>4, <2>5, <2>6, StreamStep
<1> QED BY <1>1, <1>2, ChannelInvariant, PTL DEF Spec, Refines, Stream!Spec

=============================================================================
