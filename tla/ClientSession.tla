--------------------------- MODULE ClientSession ---------------------------
(***************************************************************************)
(* One client program: the login window, the chat window and TcpClient on  *)
(* its QTcpSocket. Everything runs in one thread, but not one thing at a   *)
(* time: QMessageBox runs the event loop until the user answers, so socket *)
(* events and the heartbeat timer come in the midst of whatever opened the *)
(* box. Only clicks on the windows have to wait, for the boxes are modal.  *)
(* stack holds what has begun and not ended, innermost first. Transfers    *)
(* of files are in FileTransfer.                                           *)
(***************************************************************************)
EXTENDS Naturals, SequencesExt

CONSTANT MaxQueue  \* bound on the messages under way in each direction and in Qt's buffer

ASSUME ClientSessionAssumption == MaxQueue \in Nat \ {0}

VARIABLES
  stack,
  socket,      \* QTcpSocket::state()
  timer,       \* heartbeatTimer_ runs
  qtBuffer,    \* messages QTcpSocket has read and nobody has fetched
  recvBuffer,  \* whole messages of recvBuffer_
  torn,        \* it ends in a part of a message of "this" or of an "old" connection, or of "none"
  button,      \* btn_connect is enabled
  loginShown,
  chatWindow,  \* chatWindow_: "none", "hidden", "shown"
  label,       \* the chat window's label_status
  up, down,    \* messages on their way to the server, and from it
  server       \* the server's end: "none", "open", "online" (logged in), "gone"

buffers == <<qtBuffer, recvBuffer, torn>>
windows == <<button, loginShown, chatWindow, label>>
network == <<up, down, server>>
vars == <<stack, socket, timer, buffers, windows, network>>

Dialogs == {"warning", "connectError", "connectionLost", "loginSuccessful", "loginFailed"}
Steps == {"read", "drop", "loginOnConnected", "chatOnConnected", "chatOnDisconnected", "logout",
          "disconnectFromHost", "enable", "windowClosed", "newChatWindow", "showChatWindow"}

Messages == {"login", "logout", "heartbeat", "list", "chat", "accept", "refuse"}

Init ==
  /\ stack = <<>>
  /\ socket = "unconnected" /\ timer = FALSE
  /\ qtBuffer = <<>> /\ recvBuffer = <<>> /\ torn = "none"
  /\ button = TRUE /\ loginShown = TRUE /\ chatWindow = "none" /\ label = "Disconnected"
  /\ up = <<>> /\ down = <<>> /\ server = "none"

----------------------------------------------------------------------------
(* The thread. *)

rest == Tail(stack)

\* The innermost thing begun is step, which now ends or calls something else.
At(step) == stack # <<>> /\ Head(stack) = step

\* An event loop runs: the program's, or a message box's.
InEventLoop == stack # <<>> => Head(stack) \in Dialogs

\* The windows react: no box is open.
Clickable == stack = <<>>

\* Some call of onReadyRead has not returned: QTcpSocket does not emit readyRead in it.
reading == \E i \in DOMAIN stack : stack[i] = "read"

\* disconnected(): TcpClient::onDisconnected, then LoginWindow::onDisconnected, which asks for
\* an answer if the window is visible, then ChatWindow::onDisconnected.
Disconnected(next) ==
  /\ socket' = "unconnected"
  /\ timer' = FALSE
  /\ button' = (button \/ ~loginShown)
  /\ stack' = (IF loginShown THEN <<"connectionLost">> ELSE <<>>) \o <<"chatOnDisconnected">> \o next
  /\ torn' = IF torn = "this" THEN "old" ELSE torn
  /\ up' = <<>> /\ down' = <<>> /\ server' = "none"
  /\ UNCHANGED <<qtBuffer, recvBuffer>>

\* TcpClient::sendData: skipped without a connection; flush() may find that the peer is gone,
\* and then the socket is disconnected before sendData returns.
Send(message, next) ==
  \/ /\ socket # "connected"
     /\ stack' = next
     /\ UNCHANGED <<socket, timer, buffers, button, network>>
  \/ /\ socket = "connected"
     /\ up' = Append(up, message)
     /\ stack' = next
     /\ UNCHANGED <<socket, timer, buffers, button, down, server>>
  \/ /\ socket = "connected" /\ server = "gone"
     /\ Disconnected(next)

----------------------------------------------------------------------------
(* LoginWindow: connecting. *)

\* onConnectClicked, with bad input, or with good input; QTcpSocket reports OperationError when
\* it is not unconnected.
ConnectClicked ==
  /\ Clickable /\ loginShown /\ button
  /\ \/ stack' = <<"warning">> /\ UNCHANGED <<socket, qtBuffer, button>>
     \/ /\ button' = FALSE
        /\ IF socket = "unconnected"
           THEN socket' = "connecting" /\ qtBuffer' = <<>> /\ UNCHANGED stack
           ELSE stack' = <<"connectError">> /\ UNCHANGED <<socket, qtBuffer>>
  /\ UNCHANGED <<timer, recvBuffer, torn, loginShown, chatWindow, label, network>>

\* TcpClient::onError and LoginWindow::onConnectError.
ConnectFails ==
  /\ InEventLoop /\ socket = "connecting"
  /\ socket' = "unconnected"
  /\ stack' = <<"connectError">> \o stack
  /\ UNCHANGED <<timer, buffers, windows, network>>

\* A slip: what the last connection left in recvBuffer_ stays. Breaks NothingUnheard.
Connected_keepsBuffer ==
  /\ InEventLoop /\ socket = "connecting"
  /\ socket' = "connected" /\ server' = "open"
  /\ timer' = TRUE
  /\ stack' = <<"loginOnConnected", "chatOnConnected">> \o stack
  /\ UNCHANGED <<buffers, windows, up, down>>

\* A slip: heartbeats start with the chat window's constructor. Breaks Heard.
Connected_noTimer ==
  /\ InEventLoop /\ socket = "connecting"
  /\ socket' = "connected" /\ server' = "open"
  /\ recvBuffer' = <<>> /\ torn' = "none"
  /\ stack' = <<"loginOnConnected", "chatOnConnected">> \o stack
  /\ UNCHANGED <<timer, qtBuffer, windows, up, down>>

\* connected(): TcpClient::onConnected, then the slots of the two windows.
Connected ==
  /\ InEventLoop /\ socket = "connecting"
  /\ socket' = "connected" /\ server' = "open"
  /\ recvBuffer' = <<>> /\ torn' = "none"
  /\ timer' = TRUE
  /\ stack' = <<"loginOnConnected", "chatOnConnected">> \o stack
  /\ UNCHANGED <<qtBuffer, windows, up, down>>

\* A slip: only the first connection logs in. Breaks ConnectEnds.
LoginOnConnected_firstOnly ==
  /\ At("loginOnConnected")
  /\ IF chatWindow = "none"
     THEN Send("login", rest)
     ELSE stack' = rest /\ UNCHANGED <<socket, timer, buffers, button, network>>
  /\ UNCHANGED <<loginShown, chatWindow, label>>

\* LoginWindow::onConnected
LoginOnConnected ==
  /\ At("loginOnConnected")
  /\ Send("login", rest)
  /\ UNCHANGED <<loginShown, chatWindow, label>>

\* ChatWindow::onConnected, once the window exists.
ChatOnConnected ==
  /\ At("chatOnConnected")
  /\ IF chatWindow = "none"
     THEN stack' = rest /\ UNCHANGED <<socket, timer, buffers, button, label, network>>
     ELSE label' = "Connected" /\ Send("list", rest)
  /\ UNCHANGED <<loginShown, chatWindow>>

----------------------------------------------------------------------------
(* Losing the connection. *)

\* The server has closed or reset it (RemoteHostClosedError says nothing to the user), or
\* everything is written and disconnectFromHost completes.
RemoteCloses ==
  /\ InEventLoop
  /\ socket = "closing" \/ (socket = "connected" /\ server = "gone")
  /\ Disconnected(stack)
  /\ UNCHANGED <<loginShown, chatWindow, label>>

\* Any other error: connectError is emitted first, and QTcpSocket disconnects after it.
NetworkFails ==
  /\ InEventLoop /\ socket = "connected"
  /\ \A i \in DOMAIN stack : stack[i] # "drop"
  /\ stack' = <<"connectError", "drop">> \o stack
  /\ UNCHANGED <<socket, timer, buffers, windows, network>>

Drop ==
  /\ At("drop")
  /\ IF socket = "unconnected"
     THEN stack' = rest /\ UNCHANGED <<socket, timer, buffers, button, network>>
     ELSE Disconnected(rest)
  /\ UNCHANGED <<loginShown, chatWindow, label>>

\* ChatWindow::onDisconnected
ChatOnDisconnected ==
  /\ At("chatOnDisconnected")
  /\ label' = "Disconnected"
  /\ stack' = rest
  /\ UNCHANGED <<socket, timer, buffers, button, loginShown, chatWindow, network>>

----------------------------------------------------------------------------
(* Reading. *)

\* Bytes arrive: whole messages, and perhaps a part of the next. readyRead is emitted unless it
\* is being emitted; then they wait in Qt's buffer until more arrive after that. A heartbeat's
\* answer has no effect but this one. What follows a part of an old message cannot be framed.
DataArrives ==
  /\ InEventLoop /\ socket \in {"connected", "closing"}
  /\ \E n \in 0 .. Len(down), more \in BOOLEAN :
       LET bytes == qtBuffer \o RemoveFirst(SubSeq(down, 1, n), "heartbeat") IN
       /\ n > 0 \/ (more /\ torn # "this")
       /\ more => n < Len(down)
       /\ down' = SubSeq(down, n + 1, Len(down))
       /\ IF reading
          THEN /\ n > 0
               /\ Len(bytes) <= MaxQueue
               /\ qtBuffer' = bytes
               /\ UNCHANGED <<stack, recvBuffer, torn>>
          ELSE /\ stack' = <<"read">> \o stack
               /\ qtBuffer' = <<>>
               /\ recvBuffer' = IF torn = "old" THEN <<>> ELSE bytes
               /\ torn' = IF more THEN "this" ELSE "none"
  /\ UNCHANGED <<socket, timer, windows, up, server>>

\* A box opens inside processMessage.
Opens(dialog) == <<dialog>> \o stack

\* A slip: one message per readyRead. Breaks TypeOK.
ReadMessage_once ==
  /\ At("read") /\ recvBuffer # <<>>
  /\ recvBuffer' = Tail(recvBuffer)
  /\ stack' = CASE Head(recvBuffer) = "accept" -> <<"loginSuccessful">> \o rest
               [] Head(recvBuffer) = "refuse" -> <<"loginFailed">> \o rest
               [] OTHER -> rest
  /\ UNCHANGED <<socket, timer, qtBuffer, torn, windows, network>>

\* One round of the loop of onReadyRead: processMessage, and the slots of what it emits.
ReadMessage ==
  /\ At("read") /\ recvBuffer # <<>>
  /\ recvBuffer' = Tail(recvBuffer)
  /\ stack' = CASE Head(recvBuffer) = "accept" -> Opens("loginSuccessful")
               [] Head(recvBuffer) = "refuse" -> Opens("loginFailed")
               [] OTHER -> stack
  /\ UNCHANGED <<socket, timer, qtBuffer, torn, windows, network>>

ReadReturns ==
  /\ At("read") /\ recvBuffer = <<>>
  /\ stack' = rest
  /\ UNCHANGED <<socket, timer, buffers, windows, network>>

----------------------------------------------------------------------------
(* The user answers a box, and its caller goes on. *)

CloseWarning ==
  /\ At("warning")
  /\ stack' = rest
  /\ UNCHANGED <<socket, timer, buffers, windows, network>>

\* A slip: the button comes back after an error only. Breaks NotStuck.
CloseError_lostKeepsButton ==
  /\ At("connectError") \/ At("connectionLost")
  /\ stack' = rest
  /\ button' = (button \/ At("connectError"))
  /\ UNCHANGED <<socket, timer, buffers, loginShown, chatWindow, label, network>>

\* The ends of onConnectError and of onDisconnected.
CloseError ==
  /\ At("connectError") \/ At("connectionLost")
  /\ stack' = rest
  /\ button' = TRUE
  /\ UNCHANGED <<socket, timer, buffers, loginShown, chatWindow, label, network>>

\* onLoginResponse, refused: disconnectFromServer, and the button.
CloseLoginFailed ==
  /\ At("loginFailed")
  /\ stack' = <<"logout", "disconnectFromHost", "enable">> \o rest
  /\ timer' = FALSE
  /\ UNCHANGED <<socket, buffers, windows, network>>

Logout ==
  /\ At("logout")
  /\ Send("logout", rest)
  /\ UNCHANGED <<loginShown, chatWindow, label>>

\* disconnectFromHost is done at once, or when everything is written.
DisconnectFromHost ==
  /\ At("disconnectFromHost")
  /\ \/ /\ socket = "unconnected" /\ stack' = rest
        /\ UNCHANGED <<socket, timer, buffers, button, network>>
     \/ /\ socket # "unconnected" /\ Disconnected(rest)
     \/ /\ socket # "unconnected" /\ socket' = "closing" /\ stack' = rest
        /\ UNCHANGED <<timer, buffers, button, network>>
  /\ UNCHANGED <<loginShown, chatWindow, label>>

Enable ==
  /\ At("enable")
  /\ stack' = rest
  /\ button' = TRUE
  /\ UNCHANGED <<socket, timer, buffers, loginShown, chatWindow, label, network>>

\* onLoginResponse, accepted: the chat window is made once and kept.
CloseLoginSuccessful ==
  /\ At("loginSuccessful")
  /\ stack' = (IF chatWindow = "none" THEN <<"newChatWindow">> ELSE <<>>) \o <<"showChatWindow">> \o rest
  /\ UNCHANGED <<socket, timer, buffers, windows, network>>

\* A slip: the window connects its slots last, and misses a loss found by its request.
\* Breaks LabelHonest.
NewChatWindow_connectsLast ==
  /\ At("newChatWindow")
  /\ chatWindow' = "hidden"
  /\ label' = IF socket = "connected" THEN "Connected" ELSE "Disconnected"
  /\ \/ Send("list", rest) /\ socket' = socket
     \/ /\ socket = "connected" /\ server = "gone"
        /\ socket' = "unconnected" /\ timer' = FALSE /\ server' = "none"
        /\ up' = <<>> /\ down' = <<>>
        /\ stack' = <<"connectionLost">> \o rest
        /\ UNCHANGED <<buffers, button>>
  /\ UNCHANGED loginShown

\* ChatWindow::ChatWindow
NewChatWindow ==
  /\ At("newChatWindow")
  /\ chatWindow' = "hidden"
  /\ label' = IF socket = "connected" THEN "Connected" ELSE "Disconnected"
  /\ Send("list", rest)
  /\ UNCHANGED loginShown

ShowChatWindow ==
  /\ At("showChatWindow")
  /\ stack' = rest
  /\ chatWindow' = "shown" /\ loginShown' = FALSE
  /\ UNCHANGED <<socket, timer, buffers, button, label, network>>

----------------------------------------------------------------------------
(* ChatWindow and the heartbeat timer. *)

\* onSendClicked; onSelectFile opens its boxes in the same way.
SendClicked ==
  /\ Clickable /\ chatWindow = "shown"
  /\ IF socket = "connected"
     THEN Len(up) < MaxQueue /\ Send("chat", stack)
     ELSE stack' = <<"warning">> /\ UNCHANGED <<socket, timer, buffers, button, network>>
  /\ UNCHANGED <<loginShown, chatWindow, label>>

\* closeEvent: disconnectFromServer, windowClosed, and the window goes.
CloseChatWindow ==
  /\ Clickable /\ chatWindow = "shown"
  /\ stack' = <<"logout", "disconnectFromHost", "windowClosed">>
  /\ timer' = FALSE
  /\ UNCHANGED <<socket, buffers, windows, network>>

WindowClosed ==
  /\ At("windowClosed")
  /\ stack' = rest
  /\ loginShown' = TRUE /\ button' = TRUE /\ chatWindow' = "hidden"
  /\ UNCHANGED <<socket, timer, buffers, label, network>>

\* Every five seconds, in a box too; one heartbeat at a time is under way.
HeartbeatTimeout ==
  /\ InEventLoop /\ timer
  /\ \A i \in DOMAIN up : up[i] # "heartbeat"
  /\ \A i \in DOMAIN down : down[i] # "heartbeat"
  /\ Send("heartbeat", stack)
  /\ UNCHANGED <<loginShown, chatWindow, label>>

----------------------------------------------------------------------------
(* The server, as Server.tla has it, seen from this connection. *)

client == <<stack, socket, timer, buffers, windows>>

\* Server::handleMessage; a chat message goes to others.
ServerReads ==
  /\ server \in {"open", "online"} /\ up # <<>>
  /\ up' = Tail(up)
  /\ LET online == server = "online" IN
     CASE Head(up) = "login" ->
            \/ down' = down \o <<"accept", "list">> /\ server' = "online"
            \/ down' = Append(down, "refuse") /\ UNCHANGED server
       [] Head(up) = "logout" -> server' = "gone" /\ UNCHANGED down
       [] Head(up) = "heartbeat" -> down' = Append(down, "heartbeat") /\ UNCHANGED server
       [] Head(up) = "list" ->
            down' = (IF online THEN Append(down, "list") ELSE down) /\ UNCHANGED server
       [] OTHER -> UNCHANGED <<down, server>>
  /\ UNCHANGED client

\* Others chat, come and go; only who is logged in hears of it.
ServerSends ==
  /\ server = "online" /\ Len(down) < MaxQueue
  /\ \E m \in {"chat", "list"} : down' = Append(down, m)
  /\ UNCHANGED <<client, up, server>>

\* A timeout, a failed send, or the end of the server.
ServerDrops ==
  /\ server \in {"open", "online"}
  /\ server' = "gone"
  /\ UNCHANGED <<client, up, down>>

----------------------------------------------------------------------------
User == ConnectClicked \/ SendClicked \/ CloseChatWindow

Answer == CloseWarning \/ CloseError \/ CloseLoginFailed \/ CloseLoginSuccessful

Thread ==
  \/ LoginOnConnected \/ ChatOnConnected \/ ChatOnDisconnected \/ Drop
  \/ ReadMessage \/ ReadReturns \/ Logout \/ DisconnectFromHost \/ Enable
  \/ NewChatWindow \/ ShowChatWindow \/ WindowClosed

Next ==
  \/ User \/ Answer \/ Thread
  \/ Connected \/ ConnectFails \/ RemoteCloses \/ NetworkFails \/ DataArrives \/ HeartbeatTimeout
  \/ ServerReads \/ ServerSends \/ ServerDrops

Spec == Init /\ [][Next]_vars

\* Slots return, Qt reports what happens on the socket, the timer fires, the server reads what
\* it is sent, and the user answers each box some day. Nobody has to click on a window.
FairSpec ==
  /\ Spec
  /\ WF_vars(Thread) /\ SF_vars(Answer)
  /\ SF_vars(Connected \/ ConnectFails) /\ SF_vars(RemoteCloses)
  /\ SF_vars(DataArrives) /\ SF_vars(HeartbeatTimeout)
  /\ WF_vars(ServerReads)

----------------------------------------------------------------------------
(* Properties. *)

\* Every variable stays in its range; recvBuffer_ holds whole messages only while onReadyRead
\* is at work.
TypeOK ==
  /\ recvBuffer # <<>> => reading
  /\ stack \in Seq(Dialogs \cup Steps)
  /\ socket \in {"unconnected", "connecting", "connected", "closing"}
  /\ timer \in BOOLEAN /\ button \in BOOLEAN /\ loginShown \in BOOLEAN
  /\ {qtBuffer, recvBuffer, up, down} \subseteq Seq(Messages)
  /\ torn \in {"none", "this", "old"}
  /\ chatWindow \in {"none", "hidden", "shown"} /\ label \in {"Connected", "Disconnected"}
  /\ server \in {"none", "open", "online", "gone"}

\* Between two events exactly one window is open, with a way on: the chat window its close button,
\* which leads to the other, and the login window the button Connect. That is there whenever the
\* connection is gone, and only then, or while it is being closed: a click is refused by QTcpSocket
\* then and gives the button back (onConnectError).
NotStuck ==
  Clickable =>
    /\ loginShown <=> chatWindow # "shown"
    /\ loginShown /\ socket = "unconnected" => button
    /\ loginShown /\ button => socket \in {"unconnected", "closing"}

\* An open chat window says Connected if and only if its socket is, whatever failed, in
\* whichever slot, behind whichever box; and what is typed there is not dropped by the server
\* for want of a login (handleChatMessage), unless it is closing the connection.
LabelHonest ==
  Clickable /\ chatWindow = "shown" =>
    /\ label = "Connected" <=> socket = "connected"
    /\ socket = "connected" => server \in {"online", "gone"}

\* processMessage emits no chat message before there is a chat window to show it, although the
\* server sends them from the moment it accepts the login and the user may take long to answer.
NothingUnheard ==
  [][At("read") /\ recvBuffer # <<>> /\ recvBuffer' = Tail(recvBuffer) /\ Head(recvBuffer) = "chat"
       => chatWindow # "none"]_vars

\* A click on Connect ends: the chat window opens, or the button can be clicked again.
ConnectEnds == loginShown /\ ~button ~> button \/ chatWindow = "shown"

\* Messages that came while a box was open inside onReadyRead are processed, if only when the
\* next heartbeat is answered, or the connection is lost first.
Heard == qtBuffer # <<>> ~> qtBuffer = <<>> \/ socket # "connected"

=============================================================================
