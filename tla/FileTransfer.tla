---------------------------- MODULE FileTransfer ----------------------------
(***************************************************************************)
(* One file on its way from one client to another through the server:      *)
(* TcpClient and the transfer table of ChatWindow at both ends, the file   *)
(* session of the server between them. Each connection is a pair of FIFO   *)
(* channels (SendPath and StreamParser say why); each end notices that it  *)
(* is gone in its own time. The clients may leave and come back: the       *)
(* transfer table survives, the sessions do not. A login under the same    *)
(* client id succeeds only when the server has reaped the old connection.  *)
(***************************************************************************)
EXTENDS Integers, Sequences, FiniteSets

CONSTANTS
  kFileChunkSize,  \* bytes in a chunk
  MaxSize          \* bound on the size of the file

ASSUME FileTransferAssumption == kFileChunkSize \in Nat \ {0} /\ MaxSize \in Nat

VARIABLES
  socket,       \* the client's QTcpSocket: "up", "closing" (disconnectFromHost), "down"
  alive,        \* the server holds the client's connection, logged in
  up, down,     \* messages on their way to the server, and from it
  fileSession,  \* the server's fileSessions_ has the transfer, with its two ends
  \* the sender
  task,         \* what its only thread is in: the event loop, the file dialog, startFileSend
  file,         \* size of the file now, or Missing
  offered,      \* the size it offered
  sendSession,  \* sendSessions_ has the transfer
  bytesSent,
  sendRow,      \* its row of the transfer table
  cancelButton, \* Cancel can be clicked
  \* the receiver
  pendingOffer, \* pendingOffers_ has the transfer
  recvSession,  \* recvSessions_ has it
  bytesReceived,
  buttons,      \* Accept and Decline can be clicked
  recvRow,
  created,      \* the file was opened for writing
  disk,         \* the places of the file that were written, each with the byte of that place
  \* history
  changed       \* the file is not what it was when it was offered

network == <<socket, alive, up, down, fileSession>>
sender  == <<task, file, offered, sendSession, bytesSent, sendRow, cancelButton, changed>>
receiver == <<pendingOffer, recvSession, bytesReceived, buttons, recvRow, created, disk>>
vars == <<network, sender, receiver>>

S == "sender"
R == "receiver"
Clients == {S, R}
Missing == -1

Offer == [type |-> "offer"]
Answer(result) == [type |-> "answer", result |-> result]
Data(offset, length) == [type |-> "data", offset |-> offset, length |-> length]

Init ==
  /\ socket = [c \in Clients |-> "up"] /\ alive = [c \in Clients |-> TRUE]
  /\ up = [c \in Clients |-> <<>>] /\ down = [c \in Clients |-> <<>>]
  /\ fileSession = FALSE
  /\ task = "loop" /\ file = Missing /\ offered = 0 /\ changed = FALSE
  /\ sendSession = FALSE /\ bytesSent = 0 /\ sendRow = "none" /\ cancelButton = FALSE
  /\ pendingOffer = FALSE /\ recvSession = FALSE /\ bytesReceived = 0
  /\ buttons = FALSE /\ recvRow = "none" /\ created = FALSE /\ disk = {}

----------------------------------------------------------------------------
(* Sending and losing. *)

\* TcpClient::sendData: nothing is sent unless the socket is connected.
sendData(c, message) ==
  up' = IF socket[c] = "up" THEN [up EXCEPT ![c] = Append(@, message)] ELSE up

\* TcpClient::clearFileSessions, at client c.
clearFileSessions(c) ==
  /\ sendSession' = (sendSession /\ c # S)
  /\ recvSession' = (recvSession /\ c # R)
  /\ pendingOffer' = (pendingOffer /\ c # R)

\* The user closes the window: disconnectFromServer.
Leave(c) ==
  /\ socket[c] = "up"
  /\ c = S => task = "loop"
  /\ socket' = [socket EXCEPT ![c] = "closing"]
  /\ clearFileSessions(c)
  /\ UNCHANGED <<alive, up, down, fileSession, task, file, offered, bytesSent, sendRow, cancelButton,
                 changed, bytesReceived, buttons, recvRow, created, disk>>

\* onDisconnected: the peer closed, the network failed, or closing is done. A failing write
\* inside flush() ends here too, in the midst of startFileSend.
Lost(c) ==
  /\ socket[c] # "down"
  /\ socket' = [socket EXCEPT ![c] = "down"]
  /\ down' = [down EXCEPT ![c] = <<>>]
  /\ clearFileSessions(c)
  /\ UNCHANGED <<alive, up, fileSession, task, file, offered, bytesSent, sendRow, cancelButton,
                 changed, bytesReceived, buttons, recvRow, created, disk>>

\* The client logs in again. What it sent after the server had dropped the old connection went
\* nowhere.
Connect(c) ==
  /\ socket[c] = "down" /\ ~alive[c]
  /\ c = S => task = "loop"
  /\ c = R => recvRow # "crashed"
  /\ socket' = [socket EXCEPT ![c] = "up"]
  /\ alive' = [alive EXCEPT ![c] = TRUE]
  /\ up' = [up EXCEPT ![c] = <<>>] /\ down' = [down EXCEPT ![c] = <<>>]
  /\ UNCHANGED <<fileSession, sender, receiver>>

----------------------------------------------------------------------------
(* The server. *)

\* handleClientDisconnect, for whatever reason: both ends take part in the session.
ServerDrops(c) ==
  /\ alive[c]
  /\ alive' = [alive EXCEPT ![c] = FALSE]
  /\ up' = [up EXCEPT ![c] = <<>>]
  /\ fileSession' = FALSE
  /\ UNCHANGED <<socket, down, sender, receiver>>

send(c, message) == down' = [down EXCEPT ![c] = Append(@, message)]

\* handleFileOffer: "Target offline", or a new session.
handleFileOffer ==
  IF alive[R] THEN send(R, Offer) /\ fileSession' = TRUE
              ELSE send(S, Answer("busy")) /\ UNCHANGED fileSession

\* A slip: every answer ends the session. Breaks RelayOpen.
handleFileOfferResponse_erases(result) ==
  IF fileSession THEN send(S, Answer(result)) /\ fileSession' = FALSE
                 ELSE UNCHANGED <<down, fileSession>>

\* handleFileOfferResponse: a refusal ends the session; an answer without one is ignored.
handleFileOfferResponse(result) ==
  IF fileSession THEN send(S, Answer(result)) /\ fileSession' = (result = "accept")
                 ELSE UNCHANGED <<down, fileSession>>

\* handleFileData: relayed within a session, else dropped.
handleFileData(data) ==
  /\ IF fileSession THEN send(R, data) ELSE UNCHANGED down
  /\ UNCHANGED fileSession

Relay(c) ==
  /\ alive[c] /\ up[c] # <<>>
  /\ up' = [up EXCEPT ![c] = Tail(@)]
  /\ LET message == Head(up[c]) IN
       CASE message.type = "offer"  -> handleFileOffer
         [] message.type = "answer" -> handleFileOfferResponse(message.result)
         [] message.type = "data"   -> handleFileData(message)
  /\ UNCHANGED <<socket, alive, sender, receiver>>

----------------------------------------------------------------------------
(* The sender. *)

\* onSelectFile asks whether the socket is connected, and then opens a dialog, which runs the
\* event loop.
SelectFile ==
  /\ task = "loop" /\ sendRow = "none" /\ socket[S] = "up"
  /\ task' = "dialog"
  /\ UNCHANGED <<network, file, offered, sendSession, bytesSent, sendRow, cancelButton, changed,
                 receiver>>

\* The dialog returns, with a file or without: sendFileOffer, and then addTransferRow.
CancelDialog ==
  /\ task = "dialog"
  /\ task' = "loop"
  /\ UNCHANGED <<network, file, offered, sendSession, bytesSent, sendRow, cancelButton, changed,
                 receiver>>

OfferFile ==
  /\ task = "dialog"
  /\ task' = "loop"
  /\ \E size \in 0 .. MaxSize : offered' = size /\ file' = size
  /\ sendSession' = TRUE
  /\ sendData(S, Offer)
  /\ sendRow' = "waiting" /\ cancelButton' = TRUE
  /\ UNCHANGED <<socket, alive, down, fileSession, bytesSent, changed, receiver>>

\* sendFileOffer does not find the file any more and says so; there is no row to say it in, and
\* the row made afterwards waits for an answer.
OfferVanished ==
  /\ task = "dialog"
  /\ task' = "loop"
  /\ sendRow' = "waiting" /\ cancelButton' = TRUE
  /\ UNCHANGED <<network, file, offered, sendSession, bytesSent, changed, receiver>>

\* The Cancel button of the row: nothing is cancelled but the text, and the next one replaces it.
CancelTransfer ==
  /\ task = "loop" /\ cancelButton /\ socket[S] # "closing"
  /\ cancelButton' = FALSE
  /\ sendRow' = "canceled"
  /\ UNCHANGED <<network, task, file, offered, sendSession, bytesSent, changed, receiver>>

\* Somebody changes, truncates or deletes the file. Deleting it leaves an open file as it is.
ChangeFile ==
  /\ sendSession
  /\ \E size \in (IF task = "sending" THEN 0 ELSE Missing) .. MaxSize : size # file /\ file' = size
  /\ changed' = TRUE
  /\ UNCHANGED <<network, task, offered, sendSession, bytesSent, sendRow, cancelButton, receiver>>

Arrives(c, type) ==
  /\ socket[c] # "down" /\ down[c] # <<>>
  /\ Head(down[c]).type = type
  /\ down' = [down EXCEPT ![c] = Tail(@)]

\* startFileSend begins: the file is opened. (It may fail to open although it is there.)
startFileSend ==
  \/ /\ sendSession /\ file # Missing
     /\ task' = "sending" /\ bytesSent' = 0 /\ sendRow' = "accepted"
     /\ UNCHANGED sendSession
  \/ /\ sendSession
     /\ sendSession' = FALSE /\ sendRow' = "failed"
     /\ UNCHANGED <<task, bytesSent>>
  \/ /\ ~sendSession
     /\ sendRow' = "accepted"
     /\ UNCHANGED <<task, sendSession, bytesSent>>

\* A slip: any answer starts the transfer. Breaks SentIfAccepted.
onAnswer_anyResult(result) == startFileSend

\* MSG_FILE_OFFER_RSP in processMessage, and ChatWindow::onFileOfferResponseReceived.
onAnswer(result) ==
  IF result = "accept" THEN startFileSend
  ELSE /\ sendRow' = IF sendSession THEN "failed" ELSE result
       /\ sendSession' = FALSE
       /\ UNCHANGED <<task, bytesSent>>

ReceiveAnswer ==
  /\ task = "loop"
  /\ Arrives(S, "answer")
  /\ onAnswer(Head(down[S]).result)
  /\ UNCHANGED <<socket, alive, up, fileSession, file, offered, cancelButton, changed,
                 receiver>>

\* A slip: the last chunk counts as a whole one. Breaks TypeOK.
smaller_whole(a, b) == a
smaller(a, b) == IF a < b THEN a ELSE b

\* One round of the loop of startFileSend. The thread does nothing else meanwhile, but a failing
\* write may have cleared the sessions (Lost): the loop goes on with a reference to an element
\* that is no more. If the memory is intact, the loop ends as ever.
SendChunk ==
  /\ task = "sending" /\ bytesSent < file
  /\ LET length == smaller(kFileChunkSize, file - bytesSent)
     IN  /\ sendData(S, Data(bytesSent, length))
         /\ bytesSent' = bytesSent + length
  /\ sendRow' = IF offered = 0 THEN sendRow ELSE "sending"
  /\ UNCHANGED <<socket, alive, down, fileSession, task, file, offered, sendSession, cancelButton,
                 changed, receiver>>

SendDone ==
  /\ task = "sending" /\ bytesSent >= file
  /\ task' = "loop" /\ sendSession' = FALSE /\ sendRow' = "sent"
  /\ UNCHANGED <<network, file, offered, bytesSent, cancelButton, changed, receiver>>

\* read() fails.
SendFails ==
  /\ task = "sending" /\ bytesSent < file
  /\ task' = "loop" /\ sendSession' = FALSE /\ sendRow' = "failed"
  /\ UNCHANGED <<network, file, offered, bytesSent, cancelButton, changed, receiver>>

\* The other outcome of the dangling reference: the process ends.
Crash ==
  /\ task = "sending" /\ ~sendSession
  /\ task' = "crashed"
  /\ UNCHANGED <<network, file, offered, sendSession, bytesSent, sendRow, cancelButton, changed,
                 receiver>>

----------------------------------------------------------------------------
(* The receiver. Its buttons are out of reach while its window is closing. *)

\* MSG_FILE_OFFER in processMessage, and ChatWindow::onFileOfferReceived.
ReceiveOffer ==
  /\ Arrives(R, "offer")
  /\ pendingOffer' = TRUE
  /\ recvRow' = "incoming" /\ buttons' = TRUE
  /\ UNCHANGED <<socket, alive, up, fileSession, sender, recvSession, bytesReceived, created, disk>>

\* The Accept button. The row says "Accepted" even when the offer has expired or the file
\* cannot be opened, and the answer is a refusal.
Accept ==
  /\ buttons /\ socket[R] # "closing"
  /\ buttons' = FALSE /\ pendingOffer' = FALSE /\ recvRow' = "accepted"
  /\ \/ /\ pendingOffer
        /\ recvSession' = TRUE /\ bytesReceived' = 0
        /\ created' = TRUE
        /\ sendData(R, Answer("accept"))
     \/ /\ UNCHANGED <<recvSession, bytesReceived, created>>
        /\ sendData(R, Answer("decline"))
  /\ UNCHANGED <<socket, alive, down, fileSession, sender, disk>>

Decline ==
  /\ buttons /\ socket[R] # "closing"
  /\ buttons' = FALSE /\ pendingOffer' = FALSE /\ recvRow' = "declined"
  /\ sendData(R, Answer("decline"))
  /\ UNCHANGED <<socket, alive, down, fileSession, sender, recvSession, bytesReceived, created,
                 disk>>

\* A write that fails inside flush() clears pendingOffers_ before sendFileOfferResponse erases the
\* entry it has an iterator to.  If the memory is intact, this is Accept or Decline, and Lost after
\* it; if not, the process ends.
AnswerCrashes ==
  /\ buttons /\ pendingOffer /\ socket[R] = "up"
  /\ socket' = [socket EXCEPT ![R] = "down"]
  /\ down' = [down EXCEPT ![R] = <<>>]
  /\ clearFileSessions(R)
  /\ buttons' = FALSE /\ recvRow' = "crashed"
  /\ created' \in {created, TRUE}
  /\ UNCHANGED <<alive, up, fileSession, task, file, offered, bytesSent, sendRow, cancelButton,
                 changed, bytesReceived, disk>>

\* Slips: complete a byte early (breaks ReceivedWhole), or only past the end (breaks Completes).
complete_early(n) == offered > 0 /\ n + 1 >= offered
complete_strict(n) == offered > 0 /\ n > offered
complete(n) == offered > 0 /\ n >= offered

\* TcpClient::handleFileData: seek to the offset if need be, write, and close the file once the
\* size offered is reached.
ReceiveData ==
  /\ Arrives(R, "data")
  /\ LET data == Head(down[R])
         end  == data.offset + data.length
     IN  IF recvSession
         THEN /\ disk' = disk \cup (data.offset + 1 .. end)
              /\ bytesReceived' = end
              /\ recvSession' = ~complete(end)
              /\ recvRow' = IF complete(end) THEN "received"
                            ELSE IF offered = 0 THEN recvRow ELSE "receiving"
         ELSE UNCHANGED <<disk, bytesReceived, recvSession, recvRow>>
  /\ UNCHANGED <<socket, alive, up, fileSession, sender, pendingOffer, buttons, created>>

\* seek() or write() fails.
WriteFails ==
  /\ Arrives(R, "data")
  /\ recvSession
  /\ recvSession' = FALSE /\ recvRow' = "failed"
  /\ UNCHANGED <<socket, alive, up, fileSession, sender, pendingOffer, bytesReceived, buttons,
                 created, disk>>

----------------------------------------------------------------------------
Work ==
  \/ \E c \in Clients : Relay(c)
  \/ ReceiveOffer \/ ReceiveAnswer \/ ReceiveData
  \/ SendChunk \/ SendDone

Faults ==
  \/ \E c \in Clients : Leave(c) \/ Lost(c) \/ Connect(c) \/ ServerDrops(c)
  \/ ChangeFile \/ SendFails \/ WriteFails \/ Crash \/ AnswerCrashes

Users == SelectFile \/ CancelDialog \/ OfferFile \/ OfferVanished \/ CancelTransfer \/ Accept \/ Decline

Next == Work \/ Faults \/ Users

Spec == Init /\ [][Next]_vars

\* Both event loops and the server's run, and messages arrive; users need do nothing.
FairSpec == Spec /\ WF_vars(Work)

----------------------------------------------------------------------------
(* Properties. *)

Message == {Offer} \cup {Answer(r) : r \in {"accept", "decline", "busy"}}
             \cup {Data(o, n) : o \in 0 .. MaxSize, n \in 1 .. kFileChunkSize}

Rows == {"none", "waiting", "accepted", "decline", "busy", "sending", "sent", "failed",
         "canceled", "incoming", "declined", "receiving", "received", "crashed"}

\* Every variable stays in its range.
TypeOK ==
  /\ socket \in [Clients -> {"up", "closing", "down"}] /\ alive \in [Clients -> BOOLEAN]
  /\ up \in [Clients -> Seq(Message)] /\ down \in [Clients -> Seq(Message)]
  /\ fileSession \in BOOLEAN /\ sendSession \in BOOLEAN /\ recvSession \in BOOLEAN
  /\ pendingOffer \in BOOLEAN /\ buttons \in BOOLEAN /\ created \in BOOLEAN
  /\ changed \in BOOLEAN /\ cancelButton \in BOOLEAN
  /\ task \in {"loop", "dialog", "sending", "crashed"}
  /\ sendRow \in Rows /\ recvRow \in Rows
  /\ file \in Missing .. MaxSize /\ offered \in 0 .. MaxSize
  /\ bytesSent \in 0 .. MaxSize /\ bytesReceived \in 0 .. MaxSize
  /\ disk \subseteq 1 .. MaxSize

\* TcpClient::handleFileData: what the receiver's table calls received has no hole and is no
\* shorter than what was offered, and it is the whole file, and nothing else, unless the file was
\* changed after the offer; whoever left and came back meanwhile.
ReceivedWhole ==
  recvRow = "received" =>
    /\ disk = 1 .. bytesReceived
    /\ bytesReceived >= offered
    /\ ~changed => bytesReceived = offered

\* TcpClient::processMessage: the sender sends, and calls the file sent, only if the receiver
\* opened a file for it; a refusal, an expired offer or an offline target never gets there.
SentIfAccepted == sendRow \in {"sending", "sent"} => created

\* handleFileOfferResponse, cleanupFileSessionsForFd: while both clients hold their half of an
\* accepted transfer and the server holds both connections, it has the session that joins them,
\* so that no chunk between them is dropped.
RelayOpen == sendSession /\ recvSession /\ alive[S] /\ alive[R] => fileSession

\* The transfer is accepted and both ends and what is between them stand.
Joined ==
  /\ sendSession /\ recvSession
  /\ \A c \in Clients : socket[c] = "up" /\ alive[c]

\* TcpClient::handleFileData, startFileSend: an accepted file that is not empty arrives, unless
\* it changed, a disk failed, or a connection did. Nothing more is promised: when the sender
\* has gone before, or the file is empty or was cut, the receiver waits for ever.
Completes ==
  Joined /\ offered > 0 ~>
    \/ recvRow \in {"received", "failed"} \/ sendRow = "failed" \/ changed
    \/ \E c \in Clients : socket[c] # "up" \/ ~alive[c]

=============================================================================
