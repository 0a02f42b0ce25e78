------------------------------- MODULE Server -------------------------------
(***************************************************************************)
(* The running IM server: server/src/server.cpp with the reactor           *)
(* (reactor.cpp) and the client table (client_manager.cpp).                *)
(*                                                                         *)
(* Two threads share the server.  The main thread runs Server::run: reap   *)
(* the queued disconnects, wait for epoll events, dispatch them to the     *)
(* handlers, reap again.  The heartbeat thread wakes up every few seconds, *)
(* lists the silent connections and queues their descriptors.  The peers   *)
(* and the kernel are the environment: peers connect, shut down, reset and *)
(* fall silent; accept() hands out the lowest free descriptor.             *)
(*                                                                         *)
(* A connection is named by its peer, and a descriptor names a connection  *)
(* only for as long as sock[fd] says so: the code's tables are indexed by  *)
(* descriptor, and most of what can go wrong in them is a descriptor that  *)
(* outlives its connection.  Bytes, sequence numbers and texts are left    *)
(* out; SendOutcomes says when a send may fail.                            *)
(***************************************************************************)
EXTENDS ClientManager

CONSTANTS
  Peers,              \* remote hosts; each has at most one connection at a time
  FileIds,            \* identifiers of offered files
  ListenFd,           \* the listening descriptor
  kMaxOnlineClients,  \* how many clients may be logged in
  Traffic             \* what the peers do in this instance: kinds of messages, resets, silence

ASSUME ServerAssumption ==
  /\ ListenFd \in Nat \ Fds
  /\ None \notin Peers
  /\ kMaxOnlineClients \in Nat
  /\ \A s \in [senderFd: Fds, receiverFd: Fds, sender: Peers, receiver: Peers] : s # None

VARIABLES
  \* the kernel and the peers
  sock,               \* the peer each open descriptor is connected to
  remote,             \* what each peer did to its end of its connection
  backlog,            \* peers waiting in the accept queue
  listenEdge,         \* the edge-triggered listening socket has an unreported event
  \* the server object
  handlers,           \* Reactor::handlers_: the handler events are dispatched to
  clientHandlers,     \* Server::clientHandlers_: the ClientHandler objects that live
  closing,            \* the handlers whose closing_ is set
  clients,            \* ClientManager::clients_
  recvBufs,           \* ProtocolParser::recvBuffers_: whose incomplete message is kept
  fileSessions,       \* Server::fileSessions_
  pendingDisconnects, \* Server::pendingDisconnects_; sorted and made unique when used
  running,            \* Server::running_
  \* where the two threads are
  mainPc, victims, events, cur, hbPc, hbList,
  \* history, read by no action
  justified,          \* open descriptors whose present connection gave a cause to close it
  queuedBefore,       \* open descriptors accepted in this iteration while they were queued
  listedBefore,       \* open descriptors accepted while the heartbeat thread had them listed
  stranded,           \* an accept() that failed left peers in the queue; nobody came since
  userLists           \* the user list last sent on each connection

kernelVars  == <<sock, remote, backlog, listenEdge, stranded>>
handlerVars == <<handlers, clientHandlers, queuedBefore, listedBefore>>
closeVars   == <<closing, pendingDisconnects, justified>>
dataVars    == <<clients, recvBufs, fileSessions, userLists>>
hbVars      == <<hbPc, hbList>>
loopVars    == <<mainPc, victims, events, cur>>
vars == <<kernelVars, handlerVars, closeVars, dataVars, hbVars, loopVars, running>>

----------------------------------------------------------------------------
FileSession == [senderFd: Fds, receiverFd: Fds, sender: Peers, receiver: Peers]

Event == (Fds \X {"in", "hup"}) \cup {<<ListenFd, "in">>}

Reaping == {"reapTop", "reapBottom"}

Init ==
  /\ sock = [fd \in Fds |-> None]
  /\ remote = [p \in Peers |-> "closed"]
  /\ backlog = {}
  /\ listenEdge = FALSE
  /\ handlers = [fd \in Fds |-> None]
  /\ clientHandlers = [fd \in Fds |-> None]
  /\ closing = {}
  /\ clients = [fd \in Fds |-> None]
  /\ recvBufs = [fd \in Fds |-> None]
  /\ fileSessions = [f \in FileIds |-> None]
  /\ pendingDisconnects = {}
  /\ running = TRUE
  /\ mainPc = "top"
  /\ victims = {}
  /\ events = {}
  /\ cur = None
  /\ hbPc = "sleep"
  /\ hbList = {}
  /\ justified = {}
  /\ queuedBefore = {}
  /\ listedBefore = {}
  /\ stranded = FALSE
  /\ userLists = [fd \in Fds |-> {}]

----------------------------------------------------------------------------
(* What the handlers are built from.  A definition named <other>_<mistake> is a mistake one   *)
(* could make in writing <other>; the specification does not use it.  The README says which   *)
(* property each of them breaks.                                                              *)

Online == getOnlineClients(clients)

\* The body of a MSG_USER_LIST_RSP.
UserList(t) == {<<t[fd].clientId, t[fd].nickname>> : fd \in getOnlineClients(t)}

\* recv() on fd ends the connection: the peer shut its end down or reset it.
Gone(fd) == sock[fd] # None /\ remote[sock[fd]] \in {"fin", "reset"}

\* send() on fd may report an error: the peer reset the connection, or the descriptor is
\* not open.  (With bytes still queued in outbuf_ nothing is sent and nothing fails, so it
\* need not.)
Broken(fd) == sock[fd] = None \/ remote[sock[fd]] = "reset"

\* The sets of targets on which sendResponse may fail when one packet, or a row of
\* packets, goes to all of T.  A closing_ handler always refuses; a missing one is skipped.
SendOutcomes(T) ==
  LET present == {fd \in T : clientHandlers[fd] # None}
  IN  {F \in SUBSET present : /\ closing \cap present \subseteq F
                              /\ \A fd \in F : fd \in closing \/ Broken(fd)}

\* requestClose and the queueDisconnect after it, on each handler of F.
RequestClose(F) ==
  /\ closing' = closing \cup F
  /\ pendingDisconnects' = pendingDisconnects \cup F
  /\ justified' = justified \cup F

\* The user list in list has been sent to the connections of T.
Announce(T, list) == [fd \in Fds |-> IF fd \in T THEN list ELSE userLists[fd]]

\* The sessions left when those the connections of S take part in are erased.
sessionsWithout(S) ==
  [f \in FileIds |->
     IF fileSessions[f] # None /\ S \cap {fileSessions[f].senderFd, fileSessions[f].receiverFd} # {}
     THEN None ELSE fileSessions[f]]

cleanupFileSessionsForFd_senderOnly(fd) ==
  [f \in FileIds |->
     IF fileSessions[f] # None /\ fd = fileSessions[f].senderFd THEN None ELSE fileSessions[f]]
cleanupFileSessionsForFd(fd) == sessionsWithout({fd})

\* Reactor::removeHandler and ProtocolParser::removeClient.
removeHandler_forgotten(fd) == handlers
removeHandler(fd) == [handlers EXCEPT ![fd] = None]

removeBuffer_forgotten(fd) == recvBufs
removeBuffer(fd) == [recvBufs EXCEPT ![fd] = None]

hangUp(fd) == IF sock[fd] = None THEN remote ELSE [remote EXCEPT ![sock[fd]] = "closed"]

\* The recipients of broadcastUserList after fd has gone: nobody during shutdown.
audience(fd) == IF running THEN Online \ {fd} ELSE {}

\* The whole of handleClientDisconnect.  The descriptor may be stale: the code does not ask.
handleClientDisconnect(fd) ==
  /\ handlers' = removeHandler(fd)
  /\ clientHandlers' = [clientHandlers EXCEPT ![fd] = None]
  /\ clients' = removeClient(clients, fd)
  /\ recvBufs' = removeBuffer(fd)
  /\ fileSessions' = cleanupFileSessionsForFd(fd)
  /\ sock' = [sock EXCEPT ![fd] = None]
  /\ remote' = hangUp(fd)
  /\ queuedBefore' = queuedBefore \ {fd}
  /\ listedBefore' = listedBefore \ {fd}
  /\ \E F \in SendOutcomes(audience(fd)) :
       /\ closing' = (closing \ {fd}) \cup F
       /\ pendingDisconnects' = pendingDisconnects \cup F
       /\ justified' = (justified \ {fd}) \cup F
       /\ userLists' = [Announce(audience(fd) \ F, UserList(clients')) EXCEPT ![fd] = {}]

----------------------------------------------------------------------------
(* The environment: peers, signals; failing system calls are with the code that makes them. *)

\* connect(): the peer enters the accept queue and the listening socket becomes ready.
PeerConnect(p) ==
  /\ mainPc # "done"
  /\ remote[p] = "closed"
  /\ remote' = [remote EXCEPT ![p] = "open"]
  /\ backlog' = backlog \cup {p}
  /\ listenEdge' = TRUE
  /\ stranded' = FALSE
  /\ UNCHANGED <<sock, handlerVars, closeVars, dataVars, hbVars, loopVars, running>>

\* The peer closes or shuts down its end; a reset also makes the server's sends fail.
PeerLeave(p, how) ==
  /\ how = "reset" => "reset" \in Traffic
  /\ remote[p] \in {"open", "fin"} \ {how}
  /\ remote' = [remote EXCEPT ![p] = how]
  /\ UNCHANGED <<sock, backlog, listenEdge, stranded, handlerVars, closeVars, dataVars, hbVars,
                 loopVars, running>>

\* More than kHeartbeatTimeoutSec have passed since the last heartbeat on fd.
TimePasses(fd) ==
  /\ "silence" \in Traffic
  /\ clients[fd] # None
  /\ ~clients[fd].silent
  /\ clients' = [clients EXCEPT ![fd].silent = TRUE]
  /\ UNCHANGED <<kernelVars, handlerVars, closeVars, recvBufs, fileSessions, userLists,
                 hbVars, loopVars, running>>

\* The signal handler of main.cpp, or any other call of Server::stop.
Stop ==
  /\ running
  /\ running' = FALSE
  /\ UNCHANGED <<kernelVars, handlerVars, closeVars, dataVars, hbVars, loopVars>>

----------------------------------------------------------------------------
(* The main thread: the loop of Server::run and Reactor::poll. *)

\* processPendingDisconnects takes the queue in one swap; next is where the loop is then.
TakePending(next) ==
  /\ victims' = pendingDisconnects
  /\ pendingDisconnects' = {}
  /\ mainPc' = next
  /\ UNCHANGED <<kernelVars, handlers, clientHandlers, listedBefore, closing, justified, dataVars,
                 hbVars, cur, running>>

LoopTop ==
  /\ mainPc = "top"
  /\ running
  /\ TakePending("reapTop")
  /\ queuedBefore' = {}
  /\ UNCHANGED events

\* One iteration of the loop over the sorted descriptors taken from the queue.
Reap ==
  /\ mainPc \in Reaping
  /\ \E fd \in victims :
       /\ \A other \in victims : fd <= other
       /\ victims' = victims \ {fd}
       /\ handleClientDisconnect(fd)
  /\ UNCHANGED <<backlog, listenEdge, stranded, hbVars, mainPc, events, cur, running>>

\* The queue is emptied after the batch instead of being swapped before it.
ReapDone_clearsQueue ==
  /\ mainPc \in Reaping
  /\ victims = {}
  /\ mainPc' = IF mainPc = "reapTop" THEN "wait" ELSE "top"
  /\ pendingDisconnects' = {}
  /\ UNCHANGED <<kernelVars, handlerVars, closing, justified, dataVars, hbVars, victims, events,
                 cur, running>>

ReapDone ==
  /\ mainPc \in Reaping
  /\ victims = {}
  /\ mainPc' = IF mainPc = "reapTop" THEN "wait" ELSE "top"
  /\ UNCHANGED <<kernelVars, handlerVars, closeVars, dataVars, hbVars, victims, events, cur,
                 running>>

\* epoll_wait returns: every connection that ended, any of the others (they sent something),
\* and the listening socket once per arrival; or nothing, after a second.
EpollWait ==
  /\ mainPc = "wait"
  /\ \E ready \in SUBSET {fd \in Fds : sock[fd] # None /\ ~Gone(fd)} :
       events' = {<<fd, "in">> : fd \in ready}
                   \cup {<<fd, "hup">> : fd \in {g \in Fds : Gone(g)}}
                   \cup (IF listenEdge THEN {<<ListenFd, "in">>} ELSE {})
  /\ listenEdge' = FALSE
  /\ mainPc' = "poll"
  /\ UNCHANGED <<sock, remote, backlog, stranded, handlerVars, closeVars, dataVars, hbVars,
                 victims, cur, running>>

\* epoll_wait fails for another reason than a signal: the loop is left.
EpollFails ==
  /\ mainPc = "wait"
  /\ mainPc' = "join"
  /\ running' = FALSE
  /\ UNCHANGED <<kernelVars, handlerVars, closeVars, dataVars, hbVars, victims, events, cur>>

Dispatch(e) ==
  /\ mainPc = "poll"
  /\ e \in events
  /\ events' = events \ {e}

\* ListenHandler::handleRead starts to accept.
DispatchListen ==
  /\ Dispatch(<<ListenFd, "in">>)
  /\ mainPc' = "accept"
  /\ UNCHANGED <<kernelVars, handlerVars, closeVars, dataVars, hbVars, victims, cur, running>>

\* A handler that only notes the error.
DispatchError_ignores(fd) ==
  /\ Dispatch(<<fd, "hup">>)
  /\ UNCHANGED <<kernelVars, handlerVars, closeVars, dataVars, hbVars, mainPc, victims, cur,
                 running>>

\* ClientHandler::handleError: EPOLLHUP, EPOLLERR and EPOLLRDHUP end the connection unread.
DispatchError(fd) ==
  /\ Dispatch(<<fd, "hup">>)
  /\ RequestClose(IF handlers[fd] = None \/ fd \in closing THEN {} ELSE {fd})
  /\ UNCHANGED <<kernelVars, handlerVars, dataVars, hbVars, mainPc, victims, cur, running>>

\* ClientHandler::handleRead starts to receive, unless closing_ is set.
DispatchRead(fd) ==
  /\ Dispatch(<<fd, "in">>)
  /\ IF handlers[fd] = None \/ fd \in closing
     THEN UNCHANGED <<mainPc, cur>>
     ELSE mainPc' = "read" /\ cur' = fd
  /\ UNCHANGED <<kernelVars, handlerVars, closeVars, dataVars, hbVars, victims, running>>

\* Disconnects are processed at the top of the loop only.
PollDone_noReap ==
  /\ mainPc = "poll"
  /\ events = {}
  /\ mainPc' = "top"
  /\ UNCHANGED <<kernelVars, handlerVars, closeVars, dataVars, hbVars, victims, events, cur,
                 running>>

\* The batch is done; the second processPendingDisconnects of the iteration.
PollDone ==
  /\ mainPc = "poll"
  /\ events = {}
  /\ TakePending("reapBottom")
  /\ UNCHANGED <<queuedBefore, events>>

----------------------------------------------------------------------------
(* ListenHandler::handleRead and Server::registerClient. *)

\* accept() returns the lowest free descriptor.
LowestFree(fd) == sock[fd] = None /\ \A other \in Fds : other < fd => sock[other] # None

\* emplace keeps an entry that is already there.
emplaceHandler(fd, p) ==
  IF clientHandlers[fd] = None THEN [clientHandlers EXCEPT ![fd] = p] ELSE clientHandlers

Accept(p, fd) ==
  /\ mainPc = "accept"
  /\ p \in backlog
  /\ LowestFree(fd)
  /\ backlog' = backlog \ {p}
  /\ sock' = [sock EXCEPT ![fd] = p]
  /\ handlers' = [handlers EXCEPT ![fd] = p]
  /\ clientHandlers' = emplaceHandler(fd, p)
  /\ clients' = addClient(clients, fd)
  /\ queuedBefore' = IF fd \in pendingDisconnects THEN queuedBefore \cup {fd} ELSE queuedBefore
  /\ listedBefore' = IF fd \in hbList THEN listedBefore \cup {fd} ELSE listedBefore
  /\ UNCHANGED <<remote, listenEdge, stranded, closeVars, recvBufs, fileSessions, userLists,
                 hbVars, loopVars, running>>

\* fcntl or epoll_ctl fails: the new descriptor is closed and the loop goes on.
RegisterFails(p) ==
  /\ mainPc = "accept"
  /\ p \in backlog
  /\ \E fd \in Fds : LowestFree(fd)
  /\ backlog' = backlog \ {p}
  /\ remote' = [remote EXCEPT ![p] = "closed"]
  /\ UNCHANGED <<sock, listenEdge, stranded, handlerVars, closeVars, dataVars, hbVars, loopVars,
                 running>>

\* accept() returns EAGAIN, or fails because no descriptor is free.
noDescriptor == \A fd \in Fds : sock[fd] # None

acceptEnds_afterOne == TRUE
acceptEnds == backlog = {} \/ noDescriptor

AcceptDone ==
  /\ mainPc = "accept"
  /\ acceptEnds
  /\ mainPc' = "poll"
  /\ stranded' = (noDescriptor /\ backlog # {})
  /\ UNCHANGED <<sock, remote, backlog, listenEdge, handlerVars, closeVars, dataVars, hbVars,
                 victims, events, cur, running>>

\* accept() fails for any other reason (no memory, the system's limit on open files, an
\* error of the connection itself, which is then gone): the loop ends here as well, and the
\* peers still in the queue wait for the next edge.
AcceptFails ==
  /\ mainPc = "accept"
  /\ mainPc' = "poll"
  /\ \E lost \in {{}} \cup {{p} : p \in backlog} :
       /\ backlog' = backlog \ lost
       /\ remote' = [p \in Peers |-> IF p \in lost THEN "closed" ELSE remote[p]]
  /\ stranded' = (backlog' # {})
  /\ UNCHANGED <<sock, listenEdge, handlerVars, closeVars, dataVars, hbVars, victims, events, cur,
                 running>>

----------------------------------------------------------------------------
(* ClientHandler::handleRead on cur: messages, in any number and order, until recv() ends    *)
(* the loop.  The loop does not look at closing_ again, so a message may still be handled    *)
(* after a failed send or a logout.                                                          *)

\* The next complete message of connection cur is of this kind.
Receive(kind) ==
  /\ mainPc = "read"
  /\ kind \in Traffic
  /\ recvBufs' = [recvBufs EXCEPT ![cur] = None]
  /\ UNCHANGED <<kernelVars, handlerVars, hbVars, loopVars, running>>

\* The packet is queued on every connection of T, except where that fails.
SendTo(T) == \E F \in SendOutcomes(T) : RequestClose(F)

\* The chat and file handlers serve logged-in connections only.
Known(fd) == clients[fd] # None /\ clients[fd].isOnline

\* recv() returned the first bytes of a message: parseData keeps them for the next call.
PartialMessage ==
  /\ mainPc = "read"
  /\ "partial" \in Traffic
  /\ recvBufs' = [recvBufs EXCEPT ![cur] = sock[cur]]
  /\ UNCHANGED <<kernelVars, handlerVars, closeVars, clients, fileSessions, userLists, hbVars,
                 loopVars, running>>

\* MSG_HEARTBEAT_REQ
Heartbeat ==
  /\ Receive("heartbeat")
  /\ clients' = updateHeartbeat(clients, cur)
  /\ SendTo({cur})
  /\ UNCHANGED <<fileSessions, userLists>>

\* Nicknames may clash.
canLogin_anyNickname(fd, id, nick) ==
  /\ id # Empty /\ nick # Empty
  /\ ~isClientIdOnline(clients, id, fd)
  /\ getOnlineCount(clients) < kMaxOnlineClients
  /\ clients[fd] # None

\* The checks of MSG_LOGIN_REQ, in the order of the code.
canLogin(fd, id, nick) ==
  /\ id # Empty /\ nick # Empty
  /\ ~isClientIdOnline(clients, id, fd)
  /\ ~isNicknameOnline(clients, nick, fd)
  /\ getOnlineCount(clients) < kMaxOnlineClients
  /\ clients[fd] # None

\* The new user list goes to the client that logs in only.
LoginAccepted_noBroadcast(id, nick) ==
  /\ Receive("login")
  /\ canLogin(cur, id, nick)
  /\ clients' = setClientIdentity(clients, cur, id, nick)
  /\ \E F \in SendOutcomes({cur}) :
       /\ RequestClose(F)
       /\ userLists' = Announce({cur} \ F, UserList(clients'))
  /\ UNCHANGED fileSessions

LoginAccepted(id, nick) ==
  /\ Receive("login")
  /\ canLogin(cur, id, nick)
  /\ clients' = setClientIdentity(clients, cur, id, nick)
  /\ \E F \in SendOutcomes({cur} \cup getOnlineClients(clients')) :
       /\ RequestClose(F)
       /\ userLists' = Announce(getOnlineClients(clients') \ F, UserList(clients'))
  /\ UNCHANGED fileSessions

LoginRefused(id, nick) ==
  /\ Receive("login")
  /\ ~canLogin(cur, id, nick)
  /\ SendTo({cur})
  /\ UNCHANGED <<clients, fileSessions, userLists>>

\* The connection is torn down inside the handler.
Logout_immediate ==
  /\ mainPc = "read"
  /\ "logout" \in Traffic
  /\ handleClientDisconnect(cur)
  /\ UNCHANGED <<backlog, listenEdge, stranded, hbVars, loopVars, running>>

\* MSG_LOGOUT_REQ: queueDisconnect only; closing_ stays unset.
Logout ==
  /\ Receive("logout")
  /\ pendingDisconnects' = pendingDisconnects \cup {cur}
  /\ justified' = justified \cup {cur}
  /\ UNCHANGED <<closing, clients, fileSessions, userLists>>

\* MSG_CHAT_MSG to everybody else, and to the connection a client id names.
ChatGroup ==
  /\ Receive("chat")
  /\ Known(cur)
  /\ SendTo(Online \ {cur})
  /\ UNCHANGED <<clients, fileSessions, userLists>>

ChatPrivate(toId) ==
  /\ Receive("chat")
  /\ Known(cur)
  /\ SendTo(getFdByClientId(clients, toId))
  /\ UNCHANGED <<clients, fileSessions, userLists>>

\* MSG_USER_LIST_REQ
UserListRequest ==
  /\ Receive("userlist")
  /\ Known(cur)
  /\ \E F \in SendOutcomes({cur}) :
       /\ RequestClose(F)
       /\ userLists' = Announce({cur} \ F, UserList(clients))
  /\ UNCHANGED <<clients, fileSessions>>

\* MSG_FILE_OFFER to a client that is not there, or to none: the sender gets the refusal.
FileOfferRefused(toId) ==
  /\ Receive("file")
  /\ Known(cur)
  /\ getFdByClientId(clients, toId) = {}
  /\ SendTo({cur})
  /\ UNCHANGED <<clients, fileSessions, userLists>>

\* A target that is not logged in is recorded as descriptor -1.
FileOffer_noTarget(f, toId) ==
  /\ Receive("file")
  /\ Known(cur)
  /\ fileSessions' =
       [fileSessions EXCEPT ![f] = [senderFd |-> cur, receiverFd |-> -1,
                                    sender |-> sock[cur], receiver |-> None]]
  /\ UNCHANGED <<closeVars, clients, userLists>>

\* The session is recorded whether or not the offer could be sent, over an older one of that id.
FileOffer(f, toId) ==
  /\ Receive("file")
  /\ Known(cur)
  /\ \E target \in getFdByClientId(clients, toId) :
       /\ SendTo({target})
       /\ fileSessions' =
            [fileSessions EXCEPT ![f] = [senderFd |-> cur, receiverFd |-> target,
                                         sender |-> sock[cur], receiver |-> sock[target]]]
  /\ UNCHANGED <<clients, userLists>>

\* MSG_FILE_OFFER_RSP from the receiver of the session; a refusal ends it.
FileOfferResponse(f, accept) ==
  /\ Receive("file")
  /\ fileSessions[f] # None
  /\ fileSessions[f].receiverFd = cur
  /\ fileSessions' = IF accept THEN fileSessions ELSE [fileSessions EXCEPT ![f] = None]
  /\ SendTo({fileSessions[f].senderFd})
  /\ UNCHANGED <<clients, userLists>>

\* The other end of a session, seen from fd.
counterpart(s, fd) == IF fd = s.senderFd THEN s.receiverFd ELSE s.senderFd

\* MSG_FILE_DATA and MSG_FILE_DATA_ACK are relayed to the other end of the session.
FileData(f) ==
  /\ Receive("file")
  /\ fileSessions[f] # None
  /\ cur \in {fileSessions[f].senderFd, fileSessions[f].receiverFd}
  /\ SendTo({counterpart(fileSessions[f], cur)})
  /\ UNCHANGED <<clients, fileSessions, userLists>>

\* recv() returns EAGAIN, or the end of the connection: 0, or an error.
ReadDone ==
  /\ mainPc = "read"
  /\ mainPc' = "poll"
  /\ cur' = None
  /\ RequestClose(IF Gone(cur) /\ cur \notin closing THEN {cur} ELSE {})
  /\ UNCHANGED <<kernelVars, handlerVars, dataVars, hbVars, victims, events, running>>

----------------------------------------------------------------------------
(* The heartbeat thread. *)

\* sleep_for returns; unless the server stops, checkTimeout lists the silent connections.
HbCheck ==
  /\ hbPc = "sleep"
  /\ IF running
     THEN /\ hbPc' = "push"
          /\ hbList' = checkTimeout(clients)
          /\ justified' = justified \cup hbList'
     ELSE hbPc' = "exited" /\ UNCHANGED <<hbList, justified>>
  /\ UNCHANGED <<kernelVars, handlerVars, closing, pendingDisconnects, dataVars, loopVars, running>>

\* queueDisconnect on a descriptor of the list; the table may have changed since.
HbPush(fd) ==
  /\ hbPc = "push"
  /\ fd \in hbList
  /\ hbList' = hbList \ {fd}
  /\ pendingDisconnects' = pendingDisconnects \cup {fd}
  /\ UNCHANGED <<kernelVars, handlerVars, closing, justified, dataVars, loopVars, hbPc, running>>

\* The list is exhausted; while (running_).
HbLoop ==
  /\ hbPc = "push"
  /\ hbList = {}
  /\ hbPc' = IF running THEN "sleep" ELSE "exited"
  /\ UNCHANGED <<kernelVars, handlerVars, closeVars, dataVars, loopVars, hbList, running>>

----------------------------------------------------------------------------
(* The end of Server::run. *)

LoopExit ==
  /\ mainPc = "top"
  /\ ~running
  /\ mainPc' = "join"
  /\ UNCHANGED <<kernelVars, handlerVars, closeVars, dataVars, hbVars, victims, events, cur, running>>

everyConnection_loggedIn == getOnlineClients(clients)
everyConnection == getAllFds(clients)

\* join() has returned: cleanupAllClients, and the listening socket and the reactor go.
Cleanup ==
  /\ mainPc = "join"
  /\ hbPc = "exited"
  /\ LET fds == everyConnection
         emptied(table) == [fd \in Fds |-> IF fd \in fds THEN None ELSE table[fd]]
     IN  /\ sock' = emptied(sock)
         /\ clients' = emptied(clients)
         /\ recvBufs' = emptied(recvBufs)
         /\ userLists' = [fd \in Fds |-> IF fd \in fds THEN {} ELSE userLists[fd]]
         /\ fileSessions' = sessionsWithout(fds)
         /\ remote' = [p \in Peers |-> IF p \in backlog \/ \E fd \in fds : sock[fd] = p
                                       THEN "closed" ELSE remote[p]]
         /\ justified' = justified \ fds
         /\ queuedBefore' = queuedBefore \ fds
         /\ listedBefore' = listedBefore \ fds
  /\ handlers' = [fd \in Fds |-> None]
  /\ clientHandlers' = [fd \in Fds |-> None]
  /\ closing' = {}
  /\ backlog' = {}
  /\ listenEdge' = FALSE
  /\ stranded' = FALSE
  /\ mainPc' = "done"
  /\ UNCHANGED <<pendingDisconnects, hbVars, victims, events, cur, running>>

\* run() has returned.
Terminated == mainPc = "done" /\ UNCHANGED vars

----------------------------------------------------------------------------
Environment ==
  \/ \E p \in Peers : PeerConnect(p) \/ \E how \in {"fin", "reset"} : PeerLeave(p, how)
  \/ \E fd \in Fds : TimePasses(fd)
  \/ Stop
  \/ EpollFails \/ AcceptFails \/ \E p \in Peers : RegisterFails(p)

\* What the peers send while cur is being read.
Message ==
  \/ PartialMessage
  \/ Heartbeat
  \/ \E id \in ClientIds \cup {Empty}, nick \in Nicknames \cup {Empty} :
       LoginAccepted(id, nick) \/ LoginRefused(id, nick)
  \/ Logout
  \/ ChatGroup
  \/ \E toId \in ClientIds \cup {Empty} : ChatPrivate(toId) \/ FileOfferRefused(toId)
  \/ UserListRequest
  \/ \E f \in FileIds :
       \/ \E toId \in ClientIds : FileOffer(f, toId)
       \/ \E accept \in BOOLEAN : FileOfferResponse(f, accept)
       \/ FileData(f)

\* The steps the main thread takes on its own.
MainThread ==
  \/ LoopTop \/ Reap \/ ReapDone \/ EpollWait \/ DispatchListen \/ PollDone
  \/ \E fd \in Fds : DispatchError(fd) \/ DispatchRead(fd)
  \/ \E p \in Peers, fd \in Fds : Accept(p, fd)
  \/ AcceptDone \/ ReadDone \/ LoopExit \/ Cleanup

HeartbeatThread == HbCheck \/ HbLoop \/ \E fd \in Fds : HbPush(fd)

Next == Environment \/ Message \/ MainThread \/ HeartbeatThread \/ Terminated

Spec == Init /\ [][Next]_vars

\* The scheduler runs both threads, epoll_wait and sleep_for return after their timeouts, no
\* peer fills its connection so fast that the read loop never ends, and one accept loop does
\* not take new connections it cannot register for ever.  Nothing is assumed of the failures
\* themselves: accept() may fail whenever it is called.
Fairness == WF_vars(MainThread) /\ WF_vars(HeartbeatThread)

FairSpec == Spec /\ Fairness

----------------------------------------------------------------------------
(* Safety. *)

\* Every variable keeps the shape the C++ declarations give it.
TypeOK ==
  /\ sock \in [Fds -> Peers \cup {None}]
  /\ remote \in [Peers -> {"closed", "open", "fin", "reset"}]
  /\ backlog \subseteq Peers
  /\ listenEdge \in BOOLEAN
  /\ handlers \in [Fds -> Peers \cup {None}]
  /\ clientHandlers \in [Fds -> Peers \cup {None}]
  /\ closing \subseteq Fds
  /\ clients \in ClientTable
  /\ recvBufs \in [Fds -> Peers \cup {None}]
  /\ fileSessions \in [FileIds -> FileSession \cup {None}]
  /\ pendingDisconnects \subseteq Fds
  /\ running \in BOOLEAN
  /\ mainPc \in {"top", "wait", "poll", "accept", "read", "join", "done"} \cup Reaping
  /\ victims \subseteq Fds
  /\ events \subseteq Event
  /\ cur \in Fds \cup {None}
  /\ hbPc \in {"sleep", "push", "exited"}
  /\ hbList \subseteq Fds
  /\ justified \subseteq Fds
  /\ queuedBefore \subseteq Fds
  /\ listedBefore \subseteq Fds
  /\ stranded \in BOOLEAN
  /\ userLists \in [Fds -> SUBSET ((ClientIds \cup {Empty}) \X (Nicknames \cup {Empty}))]

\* handleClientDisconnect, registerClient: the reactor, clientHandlers_, the client table and
\* the kernel agree on which connection each descriptor is, so that the reactor never calls a
\* freed handler and no packet is queued on somebody else's connection.
TablesAgree ==
  \A fd \in Fds : /\ handlers[fd] = sock[fd]
                  /\ clientHandlers[fd] = sock[fd]
                  /\ clients[fd] = None <=> sock[fd] = None
                  /\ fd \in closing => sock[fd] # None

\* ProtocolParser::removeClient: the bytes kept for a descriptor are its own connection's, so
\* a message is never put together from the bytes of two clients.
BufferOwner == \A fd \in Fds : recvBufs[fd] \in {None, sock[fd]}

\* cleanupFileSessionsForFd: both ends of a file session are the connections that agreed on
\* it, so that file data and answers are never relayed to a client that took over the
\* descriptor.
SessionEndpoints ==
  \A f \in FileIds : fileSessions[f] # None =>
    /\ sock[fileSessions[f].senderFd] = fileSessions[f].sender
    /\ sock[fileSessions[f].receiverFd] = fileSessions[f].receiver

\* MSG_LOGIN_REQ: two logged-in connections differ in client id and in nickname, although a
\* connection may log in again, after a logout too, and although the check and the update
\* are separate critical sections; and no more than kMaxOnlineClients are logged in.
UniqueIdentity ==
  /\ \A a, b \in Online : a # b => /\ clients[a].clientId # clients[b].clientId
                                   /\ clients[a].nickname # clients[b].nickname
  /\ \A fd \in Online : clients[fd].clientId # Empty /\ clients[fd].nickname # Empty
  /\ getOnlineCount(clients) <= kMaxOnlineClients

\* requestClose, queueDisconnect, processPendingDisconnects, heartbeatLoop: a cause to close a
\* connection is never forgotten, wherever the two threads are: until the descriptor is closed
\* it is queued, taken from the queue, or in the heartbeat thread's hands.  A connection whose
\* closing_ is set reads and sends nothing any more, so losing it would leave it open for ever.
NoLostDisconnect ==
  /\ justified \subseteq pendingDisconnects \cup victims \cup hbList
  /\ closing \subseteq justified

\* broadcastUserList: while the server runs, the list every logged-in client was sent last is
\* the list of the clients logged in now, unless its connection is about to be closed.
UserListConverged ==
  running => \A fd \in Online \ closing : userLists[fd] = UserList(clients)

\* The room as its members see it. A connection is a person: whoever is accepted on the descriptor
\* of one that has gone is somebody else and inherits nothing. LoginAccepted, handleClientDisconnect
\* and cleanupAllClients change who is in it as one step each, with their announcements, although
\* those fail one by one and more disconnects are queued underneath.
member(p) == {fd \in Online : sock[fd] = p}
TheRoom == INSTANCE Room WITH
  People <- Peers, Limit <- kMaxOnlineClients, open <- running,
  members <- [p \in Peers |-> {<<clients[fd].clientId, clients[fd].nickname>> : fd \in member(p)}],
  lists <- [p \in Peers |-> UNION {userLists[fd] : fd \in member(p)}],
  leaving <- {sock[fd] : fd \in closing}
RoomKept == TheRoom!Spec

\* queueDisconnect instead of handleClientDisconnect in the handlers: while the reactor works
\* on a batch of events no handler, and no receive buffer parseData holds a reference to, goes
\* away.
NoFreeWhileDispatching ==
  [][(mainPc \in {"poll", "read", "accept"}) =>
       \A fd \in Fds : sock[fd] # None => clientHandlers'[fd] = clientHandlers[fd]]_vars

\* What one would expect: a connection the running server closes has ended, failed, logged
\* out or been found silent.  The code does not keep it (run ServerReuse).
closes(fd) == sock[fd] # None /\ sock'[fd] = None
NoInnocentClosed == [][running => \A fd \in Fds : closes(fd) => fd \in justified]_vars

\* processPendingDisconnects, heartbeatLoop: what the code does keep.  A connection that gave
\* no cause is closed only if it took over its descriptor while the heartbeat thread had that
\* on its list, or in the very iteration that accepted it, if the descriptor had been queued a
\* second time: by a broadcast that failed on one of the batch, or by the heartbeat thread.
\* Whoever has been through one iteration is safe from everything but that thread's list.
EstablishedKept ==
  [][running => \A fd \in Fds : closes(fd) => fd \in justified \cup queuedBefore \cup listedBefore]_vars

\* Where the two threads keep descriptors: cur is open while it is read, victims belongs to
\* the reaping loops, hbList to the heartbeat thread's pushes.  No run checks this one: it is
\* the part of the inductive invariant that concerns the program counters.
ThreadState ==
  /\ mainPc = "read" => cur \in Fds /\ sock[cur] # None
  /\ victims # {} => mainPc \in Reaping
  /\ hbList # {} => hbPc = "push"

----------------------------------------------------------------------------
(* Liveness. *)

\* handleError, handleRead: a peer that has left is taken off the tables, whichever way it left
\* and whatever the server was doing.
GoneReaped ==
  \A p \in Peers : remote[p] \in {"fin", "reset"} /\ p \notin backlog ~> remote[p] = "closed"

\* ListenHandler::handleRead accepts until EAGAIN although the listening socket is
\* edge-triggered: every peer leaves the accept queue, unless an accept() fails (line 72).
\* Then the queue is stranded, but only until the next peer arrives: from there on everyone in
\* it, the newcomer and those left behind, has the same promise again.
BacklogServed == \A p \in Peers : p \in backlog ~> p \notin backlog \/ stranded

\* stop(): run() returns, with every descriptor closed.
StopReturns == ~running ~> mainPc = "done" /\ \A fd \in Fds : sock[fd] = None

=============================================================================
