-------------------------- MODULE FileTransferProofs --------------------------
(***************************************************************************)
(* Theorems about FileTransfer, for every size of files and chunks: the    *)
(* relay stands while both ends do, nothing is sent unaccepted, and what   *)
(* is received is whole, whoever leaves and comes back.                    *)
(***************************************************************************)
EXTENDS FileTransfer, SequenceTheorems, TLAPS

----------------------------------------------------------------------------
(* Where the offer is. *)

Chunks == {d \in {Data(o, n) : o \in 0 .. MaxSize, n \in 1 .. kFileChunkSize} :
             d.offset + d.length <= MaxSize}

\* What each channel may hold: the offer goes to the receiver alone, and the data after it, when
\* it has been taken; one answer comes back.
Channels ==
  /\ up[S] = <<Offer>> \/ up[S] \in Seq(Chunks)
  /\ down[R] = <<Offer>> \/ down[R] \in Seq(Chunks)
  /\ up[R] = <<>> \/ \E r \in {"accept", "decline"} : up[R] = <<Answer(r)>>
  /\ down[S] = <<>> \/ \E r \in {"accept", "decline", "busy"} : down[S] = <<Answer(r)>>

\* The transfer is in one of these stages, or in none: before the offer, after the end, or where
\* something was lost.
Asked    == up[S] = <<Offer>>
Told     == down[R] = <<Offer>>
Answered == up[R] # <<>>
Replied  == down[S] # <<>>
Flowing  == task = "sending" \/ (up[S] # <<>> /\ ~Asked) \/ (down[R] # <<>> /\ ~Told)

NoStage == ~Asked /\ ~Told /\ ~buttons /\ ~Answered /\ ~Replied /\ ~Flowing

OneStage ==
  /\ Asked    => ~Told /\ ~buttons /\ ~Answered /\ ~Replied /\ ~Flowing
  /\ Told     => ~buttons /\ ~Answered /\ ~Replied /\ ~Flowing
  /\ buttons  => ~Answered /\ ~Replied /\ ~Flowing
  /\ Answered => ~Replied /\ ~Flowing
  /\ Replied  => ~Flowing

\* Nothing has begun, and nothing has been written.
Fresh == ~created /\ ~pendingOffer /\ ~recvSession /\ disk = {} /\ bytesReceived = 0

\* What each stage says of the two ends.
Stages ==
  /\ sendRow = "none" => /\ NoStage /\ Fresh /\ ~sendSession /\ ~fileSession /\ recvRow = "none"
                         /\ task \in {"loop", "dialog"}
  /\ task = "dialog" => sendRow = "none"
  /\ Asked \/ Told => Fresh
  /\ buttons => ~created /\ ~recvSession /\ disk = {} /\ bytesReceived = 0
  /\ Answered \/ Replied => disk = {} /\ bytesReceived = 0
  /\ pendingOffer => buttons /\ socket[R] # "down"
  /\ recvSession => created /\ socket[R] = "up" /\ up[R] # <<Answer("decline")>>
  /\ Flowing => created
  /\ up[R] = <<Answer("accept")>> \/ down[S] = <<Answer("accept")>> => created
  /\ sendRow \in {"sending", "sent"} => created

\* The server's session joins the two ends while both hold their half.
Relayed ==
  /\ fileSession => alive[S] /\ alive[R]
  /\ sendSession /\ socket[S] # "up" => NoStage /\ ~pendingOffer /\ ~recvSession
  /\ sendSession /\ alive[S] /\ alive[R] /\ (Told \/ pendingOffer \/ recvSession) => fileSession

----------------------------------------------------------------------------
(* What is between the two ends. *)

\* The chunks of a sequence follow one another, from a place in the file to another.
Consecutive(s, from) ==
  \A i \in 1 .. Len(s) : s[i].offset = IF i = 1 THEN from ELSE s[i - 1].offset + s[i - 1].length

EndOf(s, from) == IF s = <<>> THEN from ELSE s[Len(s)].offset + s[Len(s)].length

\* While the receiver takes data, the disk is written up to bytesReceived, and the next chunk,
\* if there is one, begins there.
NoHole ==
  recvSession =>
    /\ disk = 1 .. bytesReceived
    /\ Consecutive(down[R], bytesReceived)
    /\ fileSession => Consecutive(up[S], EndOf(down[R], bytesReceived))
    /\ fileSession /\ task = "sending" /\ socket[S] = "up" =>
         bytesSent = EndOf(up[S], EndOf(down[R], bytesReceived))

\* Nobody reads or writes past the end of the file offered, unless it was changed.
WithinOffer ==
  ~changed =>
    /\ sendSession \/ task = "sending" => file = offered
    /\ task = "sending" => bytesSent <= offered
    /\ bytesReceived <= offered
    /\ ~Asked => \A i \in 1 .. Len(up[S]) : up[S][i].offset + up[S][i].length <= offered
    /\ ~Told => \A i \in 1 .. Len(down[R]) : down[R][i].offset + down[R][i].length <= offered

Received == recvRow = "received" => ~recvSession

FileInv ==
  TypeOK /\ Channels /\ OneStage /\ Stages /\ Relayed /\ NoHole /\ WithinOffer
         /\ Received /\ ReceivedWhole

----------------------------------------------------------------------------
(* Messages and sequences. *)

\* The type of a message tells what it is.
LEMMA MessageTypes ==
  /\ Offer.type = "offer"
  /\ \A r : Answer(r).type = "answer" /\ Answer(r).result = r
  /\ \A d \in Chunks : /\ d.type = "data" /\ d \in Message /\ d # Offer
                       /\ d.offset \in Nat /\ d.length \in 1 .. kFileChunkSize
                       /\ d.offset + d.length <= MaxSize
  /\ Offer \in Message /\ \A r \in {"accept", "decline", "busy"} : Answer(r) \in Message
BY FileTransferAssumption DEF Offer, Answer, Data, Chunks, Message

\* A channel that holds one message.
LEMMA OneMessage ==
  ASSUME NEW m
  PROVE  /\ <<m>> # <<>> /\ Head(<<m>>) = m /\ Tail(<<m>>) = <<>> /\ Append(<<>>, m) = <<m>>
         /\ \A n : <<m>> = <<n>> <=> m = n
OBVIOUS

\* The empty channel.
LEMMA NoMessage ==
  /\ <<>> \in Seq(Chunks) /\ <<>> \in Seq(Message) /\ \A m : <<>> # <<m>>
  /\ 1 .. Len(<<>>) = {}
  /\ \A n : Consecutive(<<>>, n) /\ EndOf(<<>>, n) = n
BY EmptySeq DEF Consecutive, EndOf

\* The head and the tail of a sequence of chunks.
LEMMA ChunkSequence ==
  ASSUME NEW s \in Seq(Chunks)
  PROVE  /\ \A d \in Chunks : Append(s, d) \in Seq(Chunks) /\ Append(s, d) # <<>>
         /\ s # <<>> => Head(s) \in Chunks /\ Tail(s) \in Seq(Chunks)
         /\ s # <<Offer>>
<1>1. s # <<Offer>>
  BY MessageTypes
<1>2. ASSUME NEW d \in Chunks
      PROVE  Append(s, d) \in Seq(Chunks) /\ Append(s, d) # <<>>
  <2>1. Append(s, d) \in Seq(Chunks) /\ Len(Append(s, d)) = Len(s) + 1 /\ Len(s) \in Nat
    BY AppendProperties
  <2> QED BY <2>1, EmptySeq
<1>3. s # <<>> => Head(s) \in Chunks /\ Tail(s) \in Seq(Chunks)
  BY HeadTailProperties
<1> QED BY <1>1, <1>2, <1>3

\* A chunk taken from the front begins where the others began to be read; the others follow it.
LEMMA TakeFirst ==
  ASSUME NEW s \in Seq(Chunks), NEW from, Consecutive(s, from), s # <<>>
  PROVE  LET next == Head(s).offset + Head(s).length
         IN  /\ Head(s).offset = from
             /\ Consecutive(Tail(s), next)
             /\ EndOf(Tail(s), next) = EndOf(s, from)
<1> DEFINE next == Head(s).offset + Head(s).length
<1>1. Len(s) \in Nat \ {0} /\ Head(s) = s[1]
  OBVIOUS
<1>2. Len(Tail(s)) = Len(s) - 1 /\ \A i \in 1 .. Len(Tail(s)) : Tail(s)[i] = s[i + 1]
  OBVIOUS
<1>3. Head(s).offset = from
  BY <1>1 DEF Consecutive
<1>4. ASSUME NEW i \in 1 .. Len(Tail(s))
      PROVE  Tail(s)[i].offset = IF i = 1 THEN next ELSE Tail(s)[i - 1].offset + Tail(s)[i - 1].length
  <2>1. s[i + 1].offset = s[i].offset + s[i].length
    <3>1. i + 1 \in 1 .. Len(s) /\ i + 1 # 1 /\ (i + 1) - 1 = i
      BY <1>1, <1>2
    <3> QED BY <3>1 DEF Consecutive
  <2>2. Tail(s)[i] = s[i + 1]
    BY <1>2
  <2>3. CASE i = 1
    BY <1>1, <2>1, <2>2, <2>3
  <2>4. CASE i # 1
    <3>1. i - 1 \in 1 .. Len(Tail(s)) /\ (i - 1) + 1 = i
      BY <1>1, <1>2, <2>4
    <3>2. Tail(s)[i - 1] = s[i]
      BY <1>2, <3>1
    <3> QED BY <2>1, <2>2, <2>4, <3>2
  <2> QED BY <2>3, <2>4
<1>5. EndOf(Tail(s), next) = EndOf(s, from)
  <2>1. CASE Len(s) = 1
    <3>1. Tail(s) = <<>>
      <4>1. Tail(s) \in Seq(Chunks) /\ Len(Tail(s)) = 0
        BY <1>2, <2>1, HeadTailProperties
      <4> QED BY <4>1, EmptySeq
    <3> QED BY <1>1, <2>1, <3>1 DEF EndOf
  <2>2. CASE Len(s) # 1
    <3>1. Tail(s) # <<>> /\ Len(Tail(s)) \in 1 .. Len(Tail(s)) /\ Len(Tail(s)) + 1 = Len(s)
      BY <1>1, <1>2, <2>2
    <3>2. Tail(s)[Len(Tail(s))] = s[Len(s)]
      BY <1>2, <3>1
    <3> QED BY <3>1, <3>2 DEF EndOf
  <2> QED BY <2>1, <2>2
<1> QED BY <1>3, <1>4, <1>5 DEF Consecutive

\* A chunk that begins at the end of the others may be put behind them.
LEMMA PutLast ==
  ASSUME NEW s \in Seq(Chunks), NEW from, Consecutive(s, from),
         NEW d \in Chunks, d.offset = EndOf(s, from)
  PROVE  /\ Consecutive(Append(s, d), from)
         /\ EndOf(Append(s, d), from) = d.offset + d.length
<1> DEFINE t == Append(s, d)
<1>1. /\ Len(s) \in Nat /\ Len(t) = Len(s) + 1 /\ t[Len(s) + 1] = d /\ t # <<>>
      /\ \A i \in 1 .. Len(s) : t[i] = s[i]
  OBVIOUS
<1>2. ASSUME NEW i \in 1 .. Len(t)
      PROVE  t[i].offset = IF i = 1 THEN from ELSE t[i - 1].offset + t[i - 1].length
  <2>1. CASE i \in 1 .. Len(s)
    BY <1>1, <2>1 DEF Consecutive
  <2>2. CASE i = Len(s) + 1
    <3>1. CASE Len(s) = 0
      BY <1>1, <2>2, <3>1 DEF EndOf
    <3>2. CASE Len(s) # 0
      <4>1. s # <<>> /\ i # 1 /\ i - 1 = Len(s) /\ i - 1 \in 1 .. Len(s)
        BY <1>1, <2>2, <3>2
      <4> QED BY <1>1, <2>2, <4>1 DEF EndOf
    <3> QED BY <3>1, <3>2
  <2> QED BY <1>1, <2>1, <2>2
<1>3. EndOf(t, from) = d.offset + d.length
  BY <1>1 DEF EndOf
<1> QED BY <1>2, <1>3 DEF Consecutive

----------------------------------------------------------------------------
(* Steps that leave the channels alone. *)

\* Leaving clears the client's half of the sessions.
LEMMA LeaveStep ==
  ASSUME FileInv, NEW c \in Clients, Leave(c)
  PROVE  FileInv'
<1> USE DEF Leave, clearFileSessions, Clients, S, R
<1>1. TypeOK'
  BY DEF FileInv, TypeOK
<1>2. Channels' /\ OneStage' /\ Received' /\ ReceivedWhole'
  BY DEF FileInv, Channels, OneStage, Asked, Told, Answered, Replied, Flowing, Received, ReceivedWhole
<1>3. Stages'
  BY DEF FileInv, TypeOK, Stages, Asked, Told, Answered, Replied, Flowing, NoStage, Fresh
<1>4. Relayed'
  BY DEF FileInv, TypeOK, Relayed, Asked, Told, Answered, Replied, Flowing, NoStage
<1>5. NoHole' /\ WithinOffer'
  BY DEF FileInv, TypeOK, NoHole, WithinOffer, Consecutive, EndOf, Asked, Told
<1> QED BY <1>1, <1>2, <1>3, <1>4, <1>5 DEF FileInv

\* A lost connection takes what was on its way to the client, and the sessions of the client.
LEMMA LostStep ==
  ASSUME FileInv, NEW c \in Clients, Lost(c)
  PROVE  FileInv'
<1> USE DEF Lost, clearFileSessions, Clients, S, R
<1>1. TypeOK'
  BY NoMessage DEF FileInv, TypeOK
<1>2. Channels' /\ OneStage' /\ Received' /\ ReceivedWhole'
  BY NoMessage DEF FileInv, TypeOK, Channels, OneStage, Asked, Told, Answered, Replied, Flowing, Received,
         ReceivedWhole
<1>3. Stages'
  BY DEF FileInv, TypeOK, Channels, Stages, Asked, Told, Answered, Replied, Flowing, NoStage, Fresh
<1>4. Relayed'
  BY DEF FileInv, TypeOK, Channels, Stages, OneStage, Relayed, Asked, Told, Answered, Replied, Flowing, NoStage
<1>5. NoHole' /\ WithinOffer'
  BY NoMessage DEF FileInv, TypeOK, NoHole, WithinOffer, Asked, Told
<1> QED BY <1>1, <1>2, <1>3, <1>4, <1>5 DEF FileInv

\* A receiver that crashes while it answers takes its sessions with it, and the answer.
LEMMA AnswerCrashStep ==
  ASSUME FileInv, AnswerCrashes
  PROVE  FileInv'
<1> USE DEF AnswerCrashes, clearFileSessions, Clients, S, R
<1>1. TypeOK'
  BY NoMessage DEF FileInv, TypeOK, Rows
<1>2. Channels' /\ OneStage' /\ Received' /\ ReceivedWhole'
  BY NoMessage DEF FileInv, TypeOK, Channels, OneStage, Asked, Told, Answered, Replied, Flowing, Received,
         ReceivedWhole
<1>3. Stages'
  BY DEF FileInv, TypeOK, Channels, OneStage, Stages, Asked, Told, Answered, Replied, Flowing, NoStage, Fresh
<1>4. Relayed'
  BY DEF FileInv, TypeOK, Channels, Stages, OneStage, Relayed, Asked, Told, Answered, Replied, Flowing, NoStage
<1>5. NoHole' /\ WithinOffer'
  BY NoMessage DEF FileInv, TypeOK, NoHole, WithinOffer, Asked, Told
<1> QED BY <1>1, <1>2, <1>3, <1>4, <1>5 DEF FileInv

\* Only a client that the server has dropped comes back, with empty channels.
LEMMA ConnectStep ==
  ASSUME FileInv, NEW c \in Clients, Connect(c)
  PROVE  FileInv'
<1> USE DEF Connect, sender, receiver, Clients, S, R
<1>1. TypeOK'
  BY NoMessage DEF FileInv, TypeOK
<1>2. Channels' /\ OneStage' /\ Received' /\ ReceivedWhole'
  BY NoMessage DEF FileInv, TypeOK, Channels, OneStage, Asked, Told, Answered, Replied, Flowing, Received,
         ReceivedWhole
<1>3. Stages'
  BY DEF FileInv, TypeOK, Channels, Stages, Asked, Told, Answered, Replied, Flowing, NoStage, Fresh
<1>4. Relayed'
  BY DEF FileInv, TypeOK, Channels, Stages, OneStage, Relayed, Asked, Told, Answered, Replied, Flowing, NoStage
<1>5. NoHole' /\ WithinOffer'
  BY NoMessage DEF FileInv, TypeOK, Relayed, NoHole, WithinOffer, Asked, Told
<1> QED BY <1>1, <1>2, <1>3, <1>4, <1>5 DEF FileInv

\* The server forgets the session with either end.
LEMMA ServerDropsStep ==
  ASSUME FileInv, NEW c \in Clients, ServerDrops(c)
  PROVE  FileInv'
<1> USE DEF ServerDrops, sender, receiver, Clients, S, R
<1>1. TypeOK'
  BY NoMessage DEF FileInv, TypeOK
<1>2. Channels' /\ OneStage' /\ Received' /\ ReceivedWhole'
  BY NoMessage DEF FileInv, TypeOK, Channels, OneStage, Asked, Told, Answered, Replied, Flowing, Received,
         ReceivedWhole
<1>3. Stages'
  BY DEF FileInv, TypeOK, Channels, Stages, Asked, Told, Answered, Replied, Flowing, NoStage, Fresh
<1>4. Relayed'
  BY DEF FileInv, TypeOK, Channels, Stages, OneStage, Relayed, Asked, Told, Answered, Replied, Flowing, NoStage
<1>5. NoHole' /\ WithinOffer'
  BY NoMessage DEF FileInv, TypeOK, Relayed, NoHole, WithinOffer, Asked, Told
<1> QED BY <1>1, <1>2, <1>3, <1>4, <1>5 DEF FileInv

\* The sender's dialogs, buttons and file touch no channel; neither do the ends of the sending.
LEMMA DialogStep ==
  ASSUME FileInv, SelectFile \/ CancelDialog \/ OfferVanished \/ CancelTransfer
  PROVE  FileInv'
<1> USE DEF SelectFile, CancelDialog, OfferVanished, CancelTransfer, network, receiver, S, R
<1>1. TypeOK'
  <2>1. sendRow' \in Rows /\ task' \in {"loop", "dialog", "sending", "crashed"}
        /\ sendSession' \in BOOLEAN /\ cancelButton' \in BOOLEAN
    BY DEF FileInv, TypeOK, Rows
  <2> QED BY <2>1 DEF FileInv, TypeOK
<1>2. Channels' /\ OneStage' /\ Received' /\ ReceivedWhole'
  BY DEF FileInv, Channels, OneStage, Asked, Told, Answered, Replied, Flowing, Received, ReceivedWhole
<1>3. Stages'
  BY DEF FileInv, Stages, Asked, Told, Answered, Replied, Flowing, NoStage, Fresh
<1>4. Relayed' /\ NoHole' /\ WithinOffer'
  BY DEF FileInv, Relayed, Asked, Told, Answered, Replied, Flowing, NoStage, NoHole, WithinOffer,
         Consecutive, EndOf
<1> QED BY <1>1, <1>2, <1>3, <1>4 DEF FileInv

\* Nothing is promised of a file that has changed.
LEMMA ChangeFileStep ==
  ASSUME FileInv, ChangeFile
  PROVE  FileInv'
<1> USE DEF ChangeFile, network, receiver, S, R
<1>1. TypeOK'
  BY FileTransferAssumption DEF FileInv, TypeOK, Missing
<1>2. Channels' /\ OneStage' /\ Received' /\ ReceivedWhole'
  BY DEF FileInv, Channels, OneStage, Asked, Told, Answered, Replied, Flowing, Received, ReceivedWhole
<1>3. Stages' /\ Relayed'
  BY DEF FileInv, Stages, Relayed, Asked, Told, Answered, Replied, Flowing, NoStage, Fresh
<1>4. NoHole' /\ WithinOffer'
  BY DEF FileInv, NoHole, WithinOffer, Consecutive, EndOf
<1> QED BY <1>1, <1>2, <1>3, <1>4 DEF FileInv

\* The sending ends: with the whole file, with a disk that fails, or with the process.
LEMMA SendEndStep ==
  ASSUME FileInv, SendDone \/ SendFails \/ Crash
  PROVE  FileInv'
<1> USE DEF SendDone, SendFails, Crash, network, receiver, S, R
<1>1. TypeOK'
  <2>1. sendRow' \in Rows /\ task' \in {"loop", "dialog", "sending", "crashed"}
        /\ sendSession' \in BOOLEAN /\ cancelButton' \in BOOLEAN
    BY DEF FileInv, TypeOK, Rows
  <2> QED BY <2>1 DEF FileInv, TypeOK
<1>2. Channels' /\ OneStage' /\ Received' /\ ReceivedWhole'
  BY DEF FileInv, Channels, OneStage, Asked, Told, Answered, Replied, Flowing, Received, ReceivedWhole
<1>3. Stages'
  BY DEF FileInv, Stages, OneStage, Asked, Told, Answered, Replied, Flowing, NoStage, Fresh
<1>4. Relayed' /\ NoHole' /\ WithinOffer'
  BY DEF FileInv, Relayed, Asked, Told, Answered, Replied, Flowing, NoStage, NoHole, WithinOffer,
         Consecutive, EndOf
<1> QED BY <1>1, <1>2, <1>3, <1>4 DEF FileInv

----------------------------------------------------------------------------
(* Steps of the two ends on the channels. *)

\* The offer is the first message of the transfer.
LEMMA OfferFileStep ==
  ASSUME FileInv, OfferFile
  PROVE  FileInv'
<1> USE DEF OfferFile, sendData, receiver, Clients, S, R
<1>1. /\ sendRow = "none" /\ NoStage /\ Fresh /\ ~fileSession /\ recvRow = "none"
      /\ up[S] = <<>> /\ down[R] = <<>>
  BY DEF FileInv, Channels, Stages, NoStage, Flowing, Asked, Told
<1>2. /\ up'[S] = (IF socket[S] = "up" THEN <<Offer>> ELSE <<>>) /\ up'[R] = up[R]
      /\ up' \in [Clients -> Seq(Message)]
  BY <1>1, OneMessage, MessageTypes DEF FileInv, TypeOK
<1>3. TypeOK'
  BY <1>2 DEF FileInv, TypeOK, Rows, Missing
<1>4. Channels' /\ OneStage' /\ Received' /\ ReceivedWhole'
  BY <1>1, <1>2, NoMessage DEF FileInv, Channels, OneStage, NoStage, Asked, Told, Answered, Replied, Flowing,
     Received, ReceivedWhole, Fresh
<1>5. Stages'
  BY <1>1, <1>2, NoMessage DEF FileInv, Stages, NoStage, Asked, Told, Answered, Replied, Flowing, Fresh
<1>6. Relayed' /\ NoHole' /\ WithinOffer'
  BY <1>1, <1>2, NoMessage DEF FileInv, TypeOK, Relayed, NoStage, Asked, Told, Answered, Replied, Flowing, Fresh, NoHole,
     WithinOffer
<1> QED BY <1>3, <1>4, <1>5, <1>6 DEF FileInv

\* The offer is taken when nothing else is under way.
LEMMA ReceiveOfferStep ==
  ASSUME FileInv, ReceiveOffer
  PROVE  FileInv'
<1> USE DEF ReceiveOffer, Arrives, sender, Clients, S, R
<1>1. Told
  BY MessageTypes, ChunkSequence DEF FileInv, Channels, Told
<1>2. down'[R] = <<>> /\ down'[S] = down[S] /\ down' \in [Clients -> Seq(Message)]
  BY <1>1, OneMessage, NoMessage DEF FileInv, TypeOK, Told
<1>3. TypeOK'
  BY <1>2 DEF FileInv, TypeOK, Rows
<1>4. Channels' /\ OneStage' /\ Received' /\ ReceivedWhole'
  BY <1>1, <1>2, NoMessage DEF FileInv, Channels, OneStage, Asked, Told, Answered, Replied, Flowing,
     Received, ReceivedWhole
<1>5. Stages'
  BY <1>1, <1>2, NoMessage DEF FileInv, Stages, OneStage, NoStage, Asked, Told, Answered, Replied, Flowing, Fresh
<1>6. Relayed' /\ NoHole' /\ WithinOffer'
  BY <1>1, <1>2, NoMessage DEF FileInv, Relayed, Stages, NoStage, Asked, Told, Answered, Replied, Flowing, Fresh, NoHole,
     WithinOffer
<1> QED BY <1>3, <1>4, <1>5, <1>6 DEF FileInv

\* An answer is given once, to an offer that waits for it.
LEMMA AnswerStep ==
  ASSUME FileInv, Accept \/ Decline
  PROVE  FileInv'
<1> USE DEF Accept, Decline, sendData, sender, Clients, S, R
<1>1. /\ up[R] = <<>> /\ down[S] = <<>> /\ ~Asked /\ ~Told /\ ~Flowing
      /\ up[S] = <<>> /\ down[R] = <<>> /\ task # "sending"
      /\ disk = {} /\ bytesReceived = 0 /\ ~recvSession
  BY DEF FileInv, OneStage, Stages, Answered, Replied, Asked, Told, Flowing
<1>2. PICK r \in {"accept", "decline"} :
        /\ up'[R] = (IF socket[R] = "up" THEN <<Answer(r)>> ELSE <<>>) /\ up'[S] = up[S]
        /\ up' \in [Clients -> Seq(Message)]
        /\ (r = "accept") => pendingOffer /\ recvSession' = TRUE /\ created' = TRUE /\ bytesReceived' = 0 /\ socket[R] = "up"
        /\ (r = "decline") => UNCHANGED <<recvSession, created, bytesReceived>>
  <2>1. PICK r \in {"accept", "decline"} :
          /\ up' = (IF socket[R] = "up" THEN [up EXCEPT ![R] = Append(@, Answer(r))] ELSE up)
          /\ (r = "accept") => pendingOffer /\ recvSession' = TRUE /\ created' = TRUE /\ bytesReceived' = 0
          /\ (r = "decline") => UNCHANGED <<recvSession, created, bytesReceived>>
    OBVIOUS
  <2>2. Append(up[R], Answer(r)) = <<Answer(r)>> /\ <<Answer(r)>> \in Seq(Message)
    BY <1>1, OneMessage, MessageTypes
  <2>3. pendingOffer => socket[R] = "up"
    BY DEF FileInv, TypeOK, Stages
  <2> QED BY <1>1, <2>1, <2>2, <2>3 DEF FileInv, TypeOK
<1>3. Answer("accept") # Answer("decline")
  BY MessageTypes
<1>4. TypeOK'
  <2>1. recvSession' \in BOOLEAN /\ created' \in BOOLEAN /\ bytesReceived' \in 0 .. MaxSize
    <3>1. CASE r = "accept"
      BY <1>2, <3>1, FileTransferAssumption
    <3>2. CASE r = "decline"
      BY <1>2, <3>2 DEF FileInv, TypeOK
    <3> QED BY <3>1, <3>2
  <2>2. recvRow' \in Rows /\ buttons' \in BOOLEAN /\ pendingOffer' \in BOOLEAN
    BY DEF Rows
  <2> QED BY <1>2, <2>1, <2>2 DEF FileInv, TypeOK
<1>5. Channels' /\ OneStage' /\ Received' /\ ReceivedWhole'
  BY <1>1, <1>2, NoMessage, OneMessage DEF FileInv, Channels, OneStage, Asked, Told, Answered, Replied, Flowing,
     Received, ReceivedWhole
<1>6. Stages'
  BY <1>1, <1>2, <1>3, NoMessage, OneMessage DEF FileInv, Stages, NoStage, Asked, Told, Answered, Replied, Flowing, Fresh
<1>7. Relayed'
  BY <1>1, <1>2, NoMessage DEF FileInv, Relayed, Stages, NoStage, Asked, Told, Answered, Replied, Flowing, Fresh
<1>8. NoHole'
  <2>1. bytesReceived' = 0 /\ disk' = 1 .. 0 /\ task' # "sending" /\ down'[R] = <<>> /\ up'[S] = <<>>
    BY <1>1, <1>2
  <2> QED BY <2>1, NoMessage DEF NoHole
<1>9. WithinOffer'
  BY <1>1, <1>2, NoMessage DEF FileInv, TypeOK, WithinOffer, Asked, Told
<1> QED BY <1>4, <1>5, <1>6, <1>7, <1>8, <1>9 DEF FileInv

\* The answer comes when nothing has been sent, and the reading begins where the writing does.
LEMMA ReceiveAnswerStep ==
  ASSUME FileInv, ReceiveAnswer
  PROVE  FileInv'
<1> USE DEF ReceiveAnswer, Arrives, receiver, Clients, S, R
<1>1. PICK r \in {"accept", "decline", "busy"} : down[S] = <<Answer(r)>> /\ Head(down[S]).result = r
  BY MessageTypes, OneMessage DEF FileInv, Channels
<1>2. down'[S] = <<>> /\ down'[R] = down[R] /\ down' \in [Clients -> Seq(Message)]
  BY <1>1, OneMessage, NoMessage DEF FileInv, TypeOK
<1>3. /\ ~Asked /\ ~Told /\ ~buttons /\ up[R] = <<>> /\ up[S] = <<>> /\ down[R] = <<>>
      /\ disk = {} /\ bytesReceived = 0 /\ sendRow # "none" /\ task # "sending"
  BY <1>1, NoMessage DEF FileInv, OneStage, Stages, NoStage, Asked, Told, Answered, Replied, Flowing
<1>4. \/ /\ r = "accept" /\ sendSession /\ file # Missing
         /\ task' = "sending" /\ bytesSent' = 0 /\ sendRow' = "accepted" /\ sendSession' = sendSession
      \/ /\ task' = task /\ bytesSent' = bytesSent
         /\ sendSession' => sendSession
         /\ sendRow' \in {"failed", "accepted", "decline", "busy"}
  BY <1>1 DEF onAnswer, startFileSend, FileInv, TypeOK
<1>5. TypeOK'
  <2>1. sendRow' \in Rows
    BY <1>4 DEF Rows
  <2>2. task' \in {"loop", "dialog", "sending", "crashed"} /\ bytesSent' \in 0 .. MaxSize
    BY <1>4, FileTransferAssumption DEF FileInv, TypeOK
  <2>3. sendSession' \in BOOLEAN
    BY DEF FileInv, TypeOK, onAnswer, startFileSend
  <2> QED BY <1>2, <2>1, <2>2, <2>3 DEF FileInv, TypeOK
<1>6. Channels' /\ OneStage' /\ Received' /\ ReceivedWhole'
  BY <1>2, <1>3, <1>4, NoMessage DEF FileInv, Channels, OneStage, Asked, Told, Answered, Replied, Flowing,
     Received, ReceivedWhole
<1>7. Stages'
  BY <1>1, <1>2, <1>3, <1>4, NoMessage DEF FileInv, Stages, NoStage, Asked, Told, Answered, Replied, Flowing, Fresh
<1>8. Relayed'
  BY <1>1, <1>2, <1>3, <1>4, NoMessage DEF FileInv, Relayed, Stages, NoStage, Asked, Told, Answered, Replied, Flowing
<1>9. NoHole' /\ WithinOffer'
  BY <1>1, <1>2, <1>3, <1>4, NoMessage, FileTransferAssumption DEF FileInv, TypeOK, Missing, NoHole, WithinOffer, Asked, Told
<1> QED BY <1>5, <1>6, <1>7, <1>8, <1>9 DEF FileInv

\* What startFileSend puts on the way is a chunk of the file, next to the one before.
LEMMA NextChunk ==
  ASSUME TypeOK, SendChunk
  PROVE  LET length == smaller(kFileChunkSize, file - bytesSent)
             d      == Data(bytesSent, length)
         IN  /\ d \in Chunks /\ d.offset = bytesSent /\ d.length = length
             /\ bytesSent' = bytesSent + length
             /\ bytesSent' \in 0 .. MaxSize /\ bytesSent' <= file
             /\ up' = IF socket[S] = "up" THEN [up EXCEPT ![S] = Append(@, d)] ELSE up
<1> DEFINE length == smaller(kFileChunkSize, file - bytesSent)
<1> DEFINE d == Data(bytesSent, length)
<1>1. /\ bytesSent \in 0 .. MaxSize /\ file \in 0 .. MaxSize /\ bytesSent < file
      /\ length \in 1 .. kFileChunkSize /\ bytesSent + length <= file
  BY FileTransferAssumption DEF TypeOK, Missing, SendChunk, smaller
<1>2. d.offset = bytesSent /\ d.length = length
  BY DEF Data
<1> HIDE DEF length
<1>3. d \in Chunks
  <2>1. d \in {Data(o, n) : o \in 0 .. MaxSize, n \in 1 .. kFileChunkSize}
    BY <1>1
  <2>2. d.offset + d.length <= MaxSize
    BY <1>1, <1>2, FileTransferAssumption
  <2> QED BY <2>1, <2>2 DEF Chunks
<1>4. bytesSent' = bytesSent + length /\ up' = IF socket[S] = "up" THEN [up EXCEPT ![S] = Append(@, d)] ELSE up
  BY DEF SendChunk, sendData, length
<1>5. bytesSent' \in 0 .. MaxSize /\ bytesSent' <= file
  BY <1>1, <1>4, FileTransferAssumption
<1> QED BY <1>2, <1>3, <1>4, <1>5 DEF length

\* sendNextChunk puts the next piece of the file on the way up.
LEMMA SendChunkStep ==
  ASSUME FileInv, SendChunk
  PROVE  FileInv'
<1> DEFINE d == Data(bytesSent, smaller(kFileChunkSize, file - bytesSent))
<1>1. /\ d \in Chunks /\ d \in Message /\ d.offset = bytesSent
      /\ bytesSent' = d.offset + d.length /\ bytesSent' \in 0 .. MaxSize /\ bytesSent' <= file
      /\ up' = IF socket[S] = "up" THEN [up EXCEPT ![S] = Append(@, d)] ELSE up
  BY NextChunk, MessageTypes DEF FileInv
<1> HIDE DEF d
<1> USE DEF receiver, Clients, S, R
<1>2. /\ UNCHANGED <<socket, alive, down, fileSession, task, file, offered, sendSession, cancelButton, changed, receiver>>
      /\ task = "sending" /\ sendRow' \in {sendRow, "sending"}
  BY DEF SendChunk
<1>3. /\ Flowing /\ ~Asked /\ ~Told /\ ~buttons /\ up[R] = <<>> /\ down[S] = <<>> /\ sendRow # "none" /\ created
      /\ up[S] \in Seq(Chunks)
  BY <1>2 DEF FileInv, OneStage, Stages, Channels, NoStage, Flowing, Asked, Answered, Replied
<1>4. /\ up'[S] = (IF socket[S] = "up" THEN Append(up[S], d) ELSE up[S]) /\ up'[R] = up[R]
      /\ up'[S] \in Seq(Chunks) /\ up' \in [Clients -> Seq(Message)]
  <2>1. Append(up[S], d) \in Seq(Chunks) /\ Append(up[S], d) \in Seq(Message)
    BY <1>1, <1>3, ChunkSequence, AppendProperties DEF FileInv, TypeOK
  <2> QED BY <1>1, <1>3, <2>1 DEF FileInv, TypeOK
<1>5. ~Asked'
  BY <1>4, ChunkSequence DEF Asked
<1>6. TypeOK'
  <2>1. sendRow' \in Rows
    BY <1>2 DEF FileInv, TypeOK, Rows
  <2> QED BY <1>1, <1>2, <1>4, <2>1 DEF FileInv, TypeOK
<1>7. Channels' /\ OneStage' /\ Received' /\ ReceivedWhole'
  BY <1>2, <1>3, <1>4, <1>5 DEF FileInv, Channels, OneStage, Asked, Told, Answered, Replied, Flowing,
     Received, ReceivedWhole
<1>8. Stages' /\ Relayed'
  BY <1>2, <1>3, <1>4, <1>5 DEF FileInv, Stages, Relayed, NoStage, Asked, Told, Answered, Replied, Flowing, Fresh
<1>9. NoHole'
  <2> SUFFICES ASSUME recvSession PROVE NoHole'
    BY <1>2 DEF NoHole
  <2>1. CASE socket[S] = "up" /\ fileSession
    <3> DEFINE from == EndOf(down[R], bytesReceived)
    <3>1. Consecutive(up[S], from) /\ d.offset = EndOf(up[S], from)
      BY <1>1, <1>2, <2>1 DEF FileInv, NoHole
    <3> HIDE DEF from
    <3>2. Consecutive(up'[S], from) /\ EndOf(up'[S], from) = bytesSent'
      BY <1>1, <1>3, <1>4, <2>1, <3>1, PutLast
    <3> QED BY <1>2, <3>2 DEF FileInv, NoHole, from
  <2>2. CASE ~(socket[S] = "up" /\ fileSession)
    BY <1>2, <1>4, <2>2 DEF FileInv, NoHole, Consecutive, EndOf
  <2> QED BY <2>1, <2>2
<1>10. WithinOffer'
  <2> SUFFICES ASSUME ~changed PROVE WithinOffer'
    BY <1>2 DEF WithinOffer
  <2>1. bytesSent' <= offered
    BY <1>1, <1>2 DEF FileInv, WithinOffer
  <2>2. ASSUME NEW i \in 1 .. Len(up'[S])
        PROVE  up'[S][i].offset + up'[S][i].length <= offered
    <3>1. CASE i \in 1 .. Len(up[S]) /\ up'[S][i] = up[S][i]
      BY <1>3, <3>1 DEF FileInv, WithinOffer
    <3>2. CASE up'[S][i] = d
      BY <1>1, <2>1, <3>2
    <3> QED BY <1>1, <1>3, <1>4, <3>1, <3>2, AppendProperties
  <2> QED BY <1>2, <1>5, <2>1, <2>2 DEF FileInv, WithinOffer, Told
<1> QED BY <1>6, <1>7, <1>8, <1>9, <1>10 DEF FileInv

\* What is taken from the receiver's channel is the first chunk of it.
LEMMA TakeChunk ==
  ASSUME FileInv, Arrives(R, "data")
  PROVE  /\ ~Told /\ down[R] \in Seq(Chunks) /\ down[R] # <<>> /\ Head(down[R]) \in Chunks
         /\ down'[R] = Tail(down[R]) /\ down'[S] = down[S]
         /\ down'[R] \in Seq(Chunks) /\ ~Told' /\ down' \in [Clients -> Seq(Message)]
         /\ \A i \in 1 .. Len(down'[R]) : \E j \in 1 .. Len(down[R]) : down'[R][i] = down[R][j]
<1> USE DEF Arrives, Clients, S, R
<1>1. down[R] # <<>> /\ ~Told
  BY MessageTypes, OneMessage DEF Told
<1>2. down[R] \in Seq(Chunks)
  BY <1>1 DEF FileInv, Channels, Told
<1>3. Head(down[R]) \in Chunks /\ Tail(down[R]) \in Seq(Chunks) /\ Tail(down[R]) # <<Offer>>
  BY <1>1, <1>2, ChunkSequence
<1>4. Tail(down[R]) \in Seq(Message)
  BY <1>1, HeadTailProperties DEF FileInv, TypeOK
<1>5. \A i \in 1 .. Len(Tail(down[R])) : i + 1 \in 1 .. Len(down[R]) /\ Tail(down[R])[i] = down[R][i + 1]
  BY <1>1, <1>2, HeadTailProperties, LenProperties
<1> QED BY <1>1, <1>2, <1>3, <1>4, <1>5 DEF FileInv, TypeOK, Told

\* A chunk that is written ends where the next one begins.
LEMMA WriteChunk ==
  ASSUME FileInv, ReceiveData, recvSession
  PROVE  /\ bytesReceived' = Head(down[R]).offset + Head(down[R]).length
         /\ bytesReceived' \in 0 .. MaxSize
         /\ disk' = 1 .. bytesReceived'
         /\ Consecutive(down'[R], bytesReceived')
         /\ EndOf(down'[R], bytesReceived') = EndOf(down[R], bytesReceived)
         /\ ~changed => bytesReceived' <= offered
         /\ recvSession' = ~(offered > 0 /\ bytesReceived' >= offered)
         /\ recvRow' \in {recvRow, "receiving"} \/ (recvRow' = "received" /\ bytesReceived' >= offered /\ ~recvSession')
<1> DEFINE d == Head(down[R])
<1>1. /\ d \in Chunks /\ d.offset \in Nat /\ d.length \in 1 .. kFileChunkSize /\ d.offset + d.length <= MaxSize
      /\ ~Told /\ down[R] \in Seq(Chunks) /\ down[R] # <<>> /\ down'[R] = Tail(down[R])
  BY TakeChunk, MessageTypes DEF ReceiveData
<1>2. /\ disk = 1 .. bytesReceived /\ Consecutive(down[R], bytesReceived)
  BY DEF FileInv, NoHole
<1>3. /\ bytesReceived' = d.offset + d.length
      /\ disk' = disk \cup (d.offset + 1 .. d.offset + d.length)
      /\ recvSession' = ~(offered > 0 /\ bytesReceived' >= offered)
      /\ recvRow' \in {recvRow, "receiving"} \/ (recvRow' = "received" /\ bytesReceived' >= offered /\ ~recvSession')
  BY DEF ReceiveData, complete
<1>4. /\ d.offset = bytesReceived
      /\ Consecutive(down'[R], bytesReceived')
      /\ EndOf(down'[R], bytesReceived') = EndOf(down[R], bytesReceived)
  BY <1>1, <1>2, <1>3, TakeFirst
<1>5. ~changed => bytesReceived' <= offered
  <2>1. down[R][1] = d /\ 1 \in 1 .. Len(down[R])
    BY <1>1, EmptySeq
  <2> QED BY <1>1, <1>3, <2>1 DEF FileInv, WithinOffer
<1> HIDE DEF d
<1>6. bytesReceived' \in 0 .. MaxSize /\ disk' = 1 .. bytesReceived'
  BY <1>1, <1>2, <1>3, <1>4, FileTransferAssumption
<1> QED BY <1>3, <1>4, <1>5, <1>6 DEF d

\* onFileData takes a piece in order, and the last one ends the transfer.
LEMMA ReceiveDataStep ==
  ASSUME FileInv, ReceiveData
  PROVE  FileInv'
<1> USE DEF sender, Clients, S, R
<1>1. /\ ~Told /\ down[R] \in Seq(Chunks) /\ down[R] # <<>>
      /\ down'[R] = Tail(down[R]) /\ down'[S] = down[S]
      /\ down'[R] \in Seq(Chunks) /\ ~Told' /\ down' \in [Clients -> Seq(Message)]
      /\ \A i \in 1 .. Len(down'[R]) : \E j \in 1 .. Len(down[R]) : down'[R][i] = down[R][j]
  BY TakeChunk DEF ReceiveData
<1>2. UNCHANGED <<socket, alive, up, fileSession, sender, pendingOffer, buttons, created>>
  BY DEF ReceiveData
<1>3. /\ Flowing /\ ~Asked /\ ~buttons /\ up[R] = <<>> /\ down[S] = <<>> /\ sendRow # "none" /\ created
      /\ ~pendingOffer
  BY <1>1 DEF FileInv, OneStage, Stages, Channels, NoStage, Flowing, Asked, Answered, Replied
<1>4. CASE recvSession
  <2>1. /\ bytesReceived' \in 0 .. MaxSize /\ disk' = 1 .. bytesReceived'
        /\ Consecutive(down'[R], bytesReceived')
        /\ EndOf(down'[R], bytesReceived') = EndOf(down[R], bytesReceived)
        /\ ~changed => bytesReceived' <= offered
        /\ recvSession' = ~(offered > 0 /\ bytesReceived' >= offered)
        /\ recvRow' \in {recvRow, "receiving"} \/ (recvRow' = "received" /\ bytesReceived' >= offered /\ ~recvSession')
    BY <1>4, WriteChunk
  <2>2. TypeOK'
    <3>1. recvRow' \in Rows /\ recvSession' \in BOOLEAN
      BY <2>1 DEF FileInv, TypeOK, Rows
    <3>2. disk' \subseteq 1 .. MaxSize
      BY <2>1, FileTransferAssumption
    <3> QED BY <1>1, <1>2, <2>1, <3>1, <3>2 DEF FileInv, TypeOK
  <2>3. Channels' /\ OneStage'
    BY <1>1, <1>2, <1>3 DEF FileInv, Channels, OneStage, Asked, Told, Answered, Replied, Flowing
  <2>4. Received' /\ ReceivedWhole'
    BY <1>2, <1>4, <2>1 DEF FileInv, TypeOK, Received, ReceivedWhole
  <2>5. Stages' /\ Relayed'
    BY <1>1, <1>2, <1>3, <1>4, <2>1 DEF FileInv, Stages, Relayed, NoStage, Asked, Told, Answered, Replied, Flowing, Fresh
  <2>6. NoHole'
    BY <1>2, <1>4, <2>1 DEF FileInv, NoHole
  <2>7. WithinOffer'
    <3>1. ASSUME ~changed, NEW i \in 1 .. Len(down'[R])
          PROVE  down'[R][i].offset + down'[R][i].length <= offered
      BY <1>1, <3>1 DEF FileInv, WithinOffer
    <3> QED BY <1>2, <1>3, <2>1, <3>1 DEF FileInv, WithinOffer
  <2> QED BY <2>2, <2>3, <2>4, <2>5, <2>6, <2>7 DEF FileInv
<1>5. CASE ~recvSession
  <2>1. UNCHANGED <<disk, bytesReceived, recvSession, recvRow>>
    BY <1>5 DEF ReceiveData
  <2>2. TypeOK'
    BY <1>1, <1>2, <2>1 DEF FileInv, TypeOK
  <2>3. Channels' /\ OneStage' /\ Received' /\ ReceivedWhole'
    BY <1>1, <1>2, <1>3, <2>1 DEF FileInv, Channels, OneStage, Asked, Told, Answered, Replied, Flowing, Received, ReceivedWhole
  <2>4. Stages' /\ Relayed' /\ NoHole'
    BY <1>1, <1>2, <1>3, <1>5, <2>1 DEF FileInv, Stages, Relayed, NoStage, Asked, Told, Answered, Replied, Flowing, Fresh, NoHole
  <2>5. WithinOffer'
    <3>1. ASSUME ~changed, NEW i \in 1 .. Len(down'[R])
          PROVE  down'[R][i].offset + down'[R][i].length <= offered
      BY <1>1, <3>1 DEF FileInv, WithinOffer
    <3> QED BY <1>2, <1>3, <2>1, <3>1 DEF FileInv, WithinOffer
  <2> QED BY <2>2, <2>3, <2>4, <2>5 DEF FileInv
<1> QED BY <1>4, <1>5

\* A chunk that cannot be written ends the receiving.
LEMMA WriteFailsStep ==
  ASSUME FileInv, WriteFails
  PROVE  FileInv'
<1> USE DEF sender, Clients, S, R
<1>1. /\ ~Told /\ down[R] \in Seq(Chunks) /\ down[R] # <<>>
      /\ down'[R] = Tail(down[R]) /\ down'[S] = down[S]
      /\ down'[R] \in Seq(Chunks) /\ ~Told' /\ down' \in [Clients -> Seq(Message)]
      /\ \A i \in 1 .. Len(down'[R]) : \E j \in 1 .. Len(down[R]) : down'[R][i] = down[R][j]
  BY TakeChunk DEF WriteFails
<1>2. /\ UNCHANGED <<socket, alive, up, fileSession, sender, pendingOffer, buttons, created, bytesReceived, disk>>
      /\ recvSession' = FALSE /\ recvRow' = "failed"
  BY DEF WriteFails
<1>3. /\ Flowing /\ ~Asked /\ ~buttons /\ up[R] = <<>> /\ down[S] = <<>> /\ sendRow # "none" /\ created
      /\ ~pendingOffer
  BY <1>1 DEF FileInv, OneStage, Stages, Channels, NoStage, Flowing, Asked, Answered, Replied
<1>4. TypeOK'
  <2>1. recvRow' \in Rows
    BY <1>2 DEF Rows
  <2> QED BY <1>1, <1>2, <2>1 DEF FileInv, TypeOK
<1>5. Channels' /\ OneStage' /\ Received' /\ ReceivedWhole'
  BY <1>1, <1>2, <1>3 DEF FileInv, Channels, OneStage, Asked, Told, Answered, Replied, Flowing, Received, ReceivedWhole
<1>6. Stages' /\ Relayed' /\ NoHole'
  BY <1>1, <1>2, <1>3 DEF FileInv, Stages, Relayed, NoStage, Asked, Told, Answered, Replied, Flowing, Fresh, NoHole
<1>7. WithinOffer'
  <2>1. ASSUME ~changed, NEW i \in 1 .. Len(down'[R])
        PROVE  down'[R][i].offset + down'[R][i].length <= offered
    BY <1>1, <2>1 DEF FileInv, WithinOffer
  <2> QED BY <1>2, <1>3, <2>1 DEF FileInv, WithinOffer
<1> QED BY <1>4, <1>5, <1>6, <1>7 DEF FileInv

----------------------------------------------------------------------------
(* Steps of the server on the channels. *)

\* The offer becomes a session and is passed on, or comes back as "busy".
LEMMA RelayOfferStep ==
  ASSUME FileInv, Relay(S), Asked
  PROVE  FileInv'
<1> USE DEF sender, receiver, Clients, S, R
<1>1. /\ down[R] = <<>> /\ down[S] = <<>> /\ ~Told /\ ~buttons /\ up[R] = <<>> /\ ~Flowing /\ Fresh
      /\ sendRow # "none" /\ sendSession => socket[S] = "up"
  BY DEF FileInv, OneStage, Stages, Relayed, NoStage, Channels, Flowing, Told, Answered, Replied
<1>2. /\ UNCHANGED <<socket, alive, sender, receiver>> /\ alive[S]
      /\ up' = [up EXCEPT ![S] = Tail(@)]
      /\ handleFileOffer
  BY MessageTypes, OneMessage DEF Relay, Asked
<1>3. up'[S] = <<>> /\ up'[R] = <<>> /\ up' \in [Clients -> Seq(Message)]
  BY <1>1, <1>2, OneMessage, NoMessage DEF FileInv, TypeOK, Asked
<1>4. CASE alive[R]
  <2>1. /\ fileSession' = TRUE /\ down'[R] = <<Offer>> /\ down'[S] = <<>> /\ down' \in [Clients -> Seq(Message)]
    <3>1. Append(down[R], Offer) = <<Offer>> /\ <<Offer>> \in Seq(Message)
      BY <1>1, OneMessage, MessageTypes
    <3> QED BY <1>1, <1>2, <1>4, <3>1 DEF handleFileOffer, send, FileInv, TypeOK
  <2>2. TypeOK'
    BY <1>2, <1>3, <2>1 DEF FileInv, TypeOK
  <2>3. Channels' /\ OneStage' /\ Received' /\ ReceivedWhole'
    BY <1>1, <1>2, <1>3, <2>1, NoMessage DEF FileInv, Channels, OneStage, Asked, Told, Answered, Replied, Flowing, Received, ReceivedWhole
  <2>4. Stages' /\ Relayed' /\ NoHole'
    BY <1>1, <1>2, <1>3, <1>4, <2>1, NoMessage DEF FileInv, Stages, Relayed, NoStage, Asked, Told, Answered, Replied, Flowing, Fresh, NoHole
  <2>5. WithinOffer'
    BY <1>2, <1>3, <2>1, NoMessage DEF FileInv, WithinOffer, Told
  <2> QED BY <2>2, <2>3, <2>4, <2>5 DEF FileInv
<1>5. CASE ~alive[R]
  <2>1. /\ fileSession' = fileSession /\ down'[R] = <<>> /\ down'[S] = <<Answer("busy")>>
        /\ down' \in [Clients -> Seq(Message)] /\ Answer("busy") # Answer("accept")
    <3>1. Append(down[S], Answer("busy")) = <<Answer("busy")>> /\ <<Answer("busy")>> \in Seq(Message)
      BY <1>1, OneMessage, MessageTypes
    <3>2. Answer("busy") # Answer("accept")
      BY MessageTypes
    <3> QED BY <1>1, <1>2, <1>5, <3>1, <3>2 DEF handleFileOffer, send, FileInv, TypeOK
  <2>2. TypeOK'
    BY <1>2, <1>3, <2>1 DEF FileInv, TypeOK
  <2>3. Channels' /\ OneStage' /\ Received' /\ ReceivedWhole'
    BY <1>1, <1>2, <1>3, <2>1, NoMessage DEF FileInv, Channels, OneStage, Asked, Told, Answered, Replied, Flowing, Received, ReceivedWhole
  <2>4. Stages' /\ Relayed' /\ NoHole'
    BY <1>1, <1>2, <1>3, <1>5, <2>1, NoMessage, OneMessage DEF FileInv, Stages, Relayed, NoStage, Asked, Told, Answered, Replied, Flowing, Fresh, NoHole
  <2>5. WithinOffer'
    BY <1>2, <1>3, <2>1, NoMessage DEF FileInv, WithinOffer, Told
  <2> QED BY <2>2, <2>3, <2>4, <2>5 DEF FileInv
<1> QED BY <1>4, <1>5

\* An answer passes while the session stands; only a refusal ends the session.
LEMMA RelayAnswerStep ==
  ASSUME FileInv, Relay(R)
  PROVE  FileInv'
<1> USE DEF sender, receiver, Clients, S, R
<1>1. PICK r \in {"accept", "decline"} : up[R] = <<Answer(r)>>
  BY DEF Relay, FileInv, Channels
<1>2. /\ UNCHANGED <<socket, alive, sender, receiver>>
      /\ up' = [up EXCEPT ![R] = Tail(@)]
      /\ handleFileOfferResponse(r)
  <2>1. Head(up[R]) = Answer(r) /\ Answer(r).type = "answer" /\ Answer(r).result = r
    BY <1>1, MessageTypes, OneMessage
  <2> QED BY <2>1 DEF Relay
<1>3. /\ down[S] = <<>> /\ ~Asked /\ ~Told /\ ~buttons /\ ~Flowing /\ up[S] = <<>> /\ down[R] = <<>>
      /\ disk = {} /\ bytesReceived = 0 /\ sendRow # "none" /\ ~pendingOffer
  BY <1>1, NoMessage DEF FileInv, OneStage, Stages, NoStage, Asked, Told, Answered, Replied, Flowing
<1>4. up'[R] = <<>> /\ up'[S] = <<>> /\ up' \in [Clients -> Seq(Message)]
  BY <1>1, <1>2, <1>3, OneMessage, NoMessage DEF FileInv, TypeOK
<1>5. Answer("accept") # Answer("decline")
  BY MessageTypes
<1>6. CASE fileSession
  <2>1. /\ fileSession' = (r = "accept") /\ down'[S] = <<Answer(r)>> /\ down'[R] = <<>>
        /\ down' \in [Clients -> Seq(Message)]
    <3>1. Append(down[S], Answer(r)) = <<Answer(r)>> /\ <<Answer(r)>> \in Seq(Message)
      BY <1>3, OneMessage, MessageTypes
    <3> QED BY <1>2, <1>3, <1>6, <3>1 DEF handleFileOfferResponse, send, FileInv, TypeOK
  <2>2. TypeOK'
    BY <1>2, <1>4, <2>1 DEF FileInv, TypeOK
  <2>3. Channels' /\ OneStage' /\ Received' /\ ReceivedWhole'
    BY <1>2, <1>3, <1>4, <2>1, NoMessage DEF FileInv, Channels, OneStage, Asked, Told, Answered, Replied, Flowing, Received, ReceivedWhole
  <2>4. Stages'
    BY <1>1, <1>2, <1>3, <1>4, <1>5, <2>1, NoMessage, OneMessage DEF FileInv, Stages, NoStage, Asked, Told, Answered, Replied, Flowing, Fresh
  <2>5. Relayed'
    <3>1. recvSession => r = "accept"
      BY <1>1 DEF FileInv, Stages
    <3>2. alive[S] /\ alive[R]
      BY <1>6 DEF FileInv, Relayed
    <3>3. sendSession => socket[S] = "up"
      BY <1>1, NoMessage DEF FileInv, Relayed, NoStage, Answered
    <3> QED BY <1>2, <1>3, <1>4, <2>1, <3>1, <3>2, <3>3, NoMessage DEF Relayed, Told
  <2>6. NoHole' /\ WithinOffer'
    BY <1>2, <1>3, <1>4, <1>6, <2>1, NoMessage DEF FileInv, NoHole, WithinOffer, Told
  <2> QED BY <2>2, <2>3, <2>4, <2>5, <2>6 DEF FileInv
<1>7. CASE ~fileSession
  <2>1. fileSession' = fileSession /\ down' = down
    BY <1>2, <1>7 DEF handleFileOfferResponse
  <2>2. TypeOK'
    BY <1>2, <1>4, <2>1 DEF FileInv, TypeOK
  <2>3. Channels' /\ OneStage' /\ Received' /\ ReceivedWhole'
    BY <1>2, <1>3, <1>4, <2>1, NoMessage DEF FileInv, Channels, OneStage, Asked, Told, Answered, Replied, Flowing, Received, ReceivedWhole
  <2>4. Stages' /\ Relayed' /\ NoHole' /\ WithinOffer'
    BY <1>2, <1>3, <1>4, <1>7, <2>1, NoMessage DEF FileInv, Stages, Relayed, NoStage, Asked, Told, Answered, Replied, Flowing, Fresh, NoHole, WithinOffer
  <2> QED BY <2>2, <2>3, <2>4 DEF FileInv
<1> QED BY <1>6, <1>7

\* A chunk passes within the session, behind those before it, and is dropped without one.
LEMMA RelayDataStep ==
  ASSUME FileInv, Relay(S), ~Asked
  PROVE  FileInv'
<1> USE DEF sender, receiver, Clients, S, R
<1> DEFINE d == Head(up[S])
<1>1. /\ up[S] \in Seq(Chunks) /\ up[S] # <<>> /\ d \in Chunks /\ Tail(up[S]) \in Seq(Chunks)
      /\ d.type = "data" /\ d \in Message
  BY ChunkSequence, MessageTypes DEF Relay, FileInv, Channels, Asked
<1>2. /\ UNCHANGED <<socket, alive, sender, receiver>>
      /\ up' = [up EXCEPT ![S] = Tail(@)]
      /\ handleFileData(d)
  BY <1>1 DEF Relay
<1>3. /\ Flowing /\ ~Told /\ ~buttons /\ up[R] = <<>> /\ down[S] = <<>> /\ sendRow # "none" /\ created
      /\ ~pendingOffer /\ down[R] \in Seq(Chunks)
  BY <1>1 DEF FileInv, OneStage, Stages, Channels, NoStage, Flowing, Told, Answered, Replied
<1>4. /\ up'[S] = Tail(up[S]) /\ up'[R] = <<>> /\ up' \in [Clients -> Seq(Message)]
      /\ up'[S] \in Seq(Chunks) /\ ~Asked'
  BY <1>1, <1>2, <1>3, ChunkSequence, HeadTailProperties DEF FileInv, TypeOK, Asked
<1>5. fileSession' = fileSession /\ down'[S] = <<>> /\ down' \in [Clients -> Seq(Message)]
      /\ down'[R] = (IF fileSession THEN Append(down[R], d) ELSE down[R])
      /\ down'[R] \in Seq(Chunks) /\ ~Told'
  <2>1. Append(down[R], d) \in Seq(Chunks) /\ Append(down[R], d) \in Seq(Message)
    BY <1>1, <1>3, AppendProperties DEF FileInv, TypeOK
  <2> QED BY <1>2, <1>3, <2>1, ChunkSequence DEF handleFileData, send, FileInv, TypeOK, Told
<1>6. TypeOK'
  BY <1>2, <1>4, <1>5 DEF FileInv, TypeOK
<1>7. Channels' /\ OneStage' /\ Received' /\ ReceivedWhole'
  BY <1>2, <1>3, <1>4, <1>5 DEF FileInv, Channels, OneStage, Asked, Told, Answered, Replied, Flowing, Received, ReceivedWhole
<1>8. Stages'
  BY <1>2, <1>3, <1>4, <1>5, NoMessage DEF FileInv, Stages, Asked, Told, Answered, Replied, Flowing
<1>9. Relayed'
  BY <1>1, <1>2, <1>3, <1>4, <1>5 DEF FileInv, Relayed, NoStage, Flowing
<1>10. NoHole'
  <2> SUFFICES ASSUME recvSession PROVE NoHole'
    BY <1>2 DEF NoHole
  <2>1. CASE fileSession
    <3> DEFINE from == EndOf(down[R], bytesReceived)
    <3>1. Consecutive(up[S], from) /\ Consecutive(down[R], bytesReceived)
      BY <2>1 DEF FileInv, NoHole
    <3>2. /\ d.offset = from
          /\ Consecutive(up'[S], d.offset + d.length)
          /\ EndOf(up'[S], d.offset + d.length) = EndOf(up[S], from)
      BY <1>1, <1>4, <3>1, TakeFirst
    <3>3. /\ Consecutive(down'[R], bytesReceived)
          /\ EndOf(down'[R], bytesReceived) = d.offset + d.length
      BY <1>1, <1>3, <1>5, <2>1, <3>1, <3>2, PutLast
    <3> HIDE DEF d
    <3> QED BY <1>2, <1>5, <2>1, <3>2, <3>3 DEF FileInv, NoHole
  <2>2. CASE ~fileSession
    BY <1>2, <1>5, <2>2 DEF FileInv, NoHole
  <2> QED BY <2>1, <2>2
<1>11. WithinOffer'
  <2> SUFFICES ASSUME ~changed PROVE WithinOffer'
    BY <1>2 DEF WithinOffer
  <2>1. \A i \in 1 .. Len(up[S]) : up[S][i].offset + up[S][i].length <= offered
    BY DEF FileInv, WithinOffer
  <2>2. d.offset + d.length <= offered
    <3>1. up[S][1] = d /\ 1 \in 1 .. Len(up[S])
      BY <1>1, EmptySeq
    <3> QED BY <2>1, <3>1
  <2>3. ASSUME NEW i \in 1 .. Len(up'[S])
        PROVE  up'[S][i].offset + up'[S][i].length <= offered
    <3>1. i + 1 \in 1 .. Len(up[S]) /\ up'[S][i] = up[S][i + 1]
      BY <1>1, <1>4, HeadTailProperties, LenProperties
    <3> QED BY <2>1, <3>1
  <2>4. ASSUME NEW i \in 1 .. Len(down'[R])
        PROVE  down'[R][i].offset + down'[R][i].length <= offered
    <3>1. (i \in 1 .. Len(down[R]) /\ down'[R][i] = down[R][i]) \/ down'[R][i] = d
      BY <1>1, <1>3, <1>5, AppendProperties
    <3> QED BY <1>3, <2>2, <3>1 DEF FileInv, WithinOffer
  <2> QED BY <1>2, <2>3, <2>4 DEF FileInv, WithinOffer
<1> QED BY <1>6, <1>7, <1>8, <1>9, <1>10, <1>11 DEF FileInv

----------------------------------------------------------------------------
(* The theorems. *)

\* At the start nothing has begun.
LEMMA FileInvInit == Init => FileInv
<1> SUFFICES ASSUME Init PROVE FileInv
  OBVIOUS
<1> USE DEF Init, Clients, S, R
<1>1. TypeOK
  <2>1. sendRow \in Rows /\ recvRow \in Rows
    BY DEF Rows
  <2>2. file \in Missing .. MaxSize /\ {offered, bytesSent, bytesReceived} \subseteq 0 .. MaxSize
    BY FileTransferAssumption DEF Missing
  <2> QED BY <2>1, <2>2, NoMessage DEF TypeOK
<1>2. Channels /\ OneStage /\ Received /\ ReceivedWhole
  BY NoMessage DEF Channels, OneStage, Asked, Told, Answered, Replied, Flowing, Received, ReceivedWhole
<1>3. Stages /\ Relayed /\ NoHole /\ WithinOffer
  BY NoMessage DEF Stages, Relayed, NoStage, Asked, Told, Answered, Replied, Flowing, Fresh, NoHole, WithinOffer
<1> QED BY <1>1, <1>2, <1>3 DEF FileInv

\* Every step keeps the invariant.
LEMMA FileInvNext == FileInv /\ [Next]_vars => FileInv'
<1> SUFFICES ASSUME FileInv, [Next]_vars PROVE FileInv'
  OBVIOUS
<1>1. ASSUME NEW c \in Clients, Relay(c) PROVE FileInv'
  BY <1>1, RelayOfferStep, RelayAnswerStep, RelayDataStep DEF Clients
<1>2. ASSUME NEW c \in Clients, Leave(c) \/ Lost(c) \/ Connect(c) \/ ServerDrops(c) PROVE FileInv'
  BY <1>2, LeaveStep, LostStep, ConnectStep, ServerDropsStep
<1>3. CASE ReceiveOffer \/ ReceiveAnswer \/ ReceiveData \/ SendChunk \/ SendDone
  BY <1>3, ReceiveOfferStep, ReceiveAnswerStep, ReceiveDataStep, SendChunkStep, SendEndStep
<1>4. CASE ChangeFile \/ SendFails \/ WriteFails \/ Crash \/ AnswerCrashes
  BY <1>4, ChangeFileStep, SendEndStep, WriteFailsStep, AnswerCrashStep
<1>5. CASE Users
  BY <1>5, DialogStep, OfferFileStep, AnswerStep DEF Users
<1>6. CASE UNCHANGED vars
  <2> USE <1>6 DEF vars, network, sender, receiver
  <2>1. TypeOK' /\ Channels' /\ OneStage' /\ Received' /\ ReceivedWhole'
    BY DEF FileInv, TypeOK, Channels, OneStage, Asked, Told, Answered, Replied, Flowing, Received, ReceivedWhole
  <2>2. Stages' /\ Relayed' /\ NoHole' /\ WithinOffer'
    BY DEF FileInv, Stages, Relayed, NoStage, Asked, Told, Answered, Replied, Flowing, Fresh, NoHole, Consecutive,
           EndOf, WithinOffer
  <2> QED BY <2>1, <2>2 DEF FileInv
<1> QED BY <1>1, <1>2, <1>3, <1>4, <1>5, <1>6 DEF Next, Work, Faults

\* Whoever leaves, comes back, or is dropped, and wherever the transfer is, the invariant holds.
THEOREM FileInvariant == Spec => []FileInv
<1>1. FileInv /\ [Next]_vars => FileInv'
  BY FileInvNext
<1> QED BY FileInvInit, <1>1, PTL DEF Spec

\* TcpClient, ChatWindow, fileSessions_: every variable stays in its range; what is written lies
\* in the file, whatever its size and that of the chunks.
THEOREM FileTypes == Spec => []TypeOK
<1>1. FileInv => TypeOK
  BY DEF FileInv
<1> QED BY FileInvariant, <1>1, PTL

\* handleFileOfferResponse, cleanupFileSessionsForFd: while both ends hold their half and the
\* server both connections, the session that joins them stands, so no chunk is dropped.
THEOREM SessionJoinsEnds == Spec => []RelayOpen
<1>1. FileInv => RelayOpen
  BY DEF FileInv, Relayed, RelayOpen
<1> QED BY FileInvariant, <1>1, PTL

\* TcpClient::processMessage: nothing is sent, or called sent, unless the receiver has opened a
\* file for it.
THEOREM NothingSentUnasked == Spec => []SentIfAccepted
<1>1. FileInv => SentIfAccepted
  BY DEF FileInv, Stages, SentIfAccepted
<1> QED BY FileInvariant, <1>1, PTL

\* TcpClient::handleFileData: what the receiver calls received has no hole and no less than was
\* offered, and nothing more unless the file was changed.
THEOREM NothingMissing == Spec => []ReceivedWhole
<1>1. FileInv => ReceivedWhole
  BY DEF FileInv
<1> QED BY FileInvariant, <1>1, PTL

=============================================================================
