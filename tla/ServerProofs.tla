---------------------------- MODULE ServerProofs ----------------------------
(***************************************************************************)
(* Theorems about Server, for every set of descriptors, peers, client ids, *)
(* nicknames and files, and for every limit on the logged-in clients.      *)
(***************************************************************************)
EXTENDS Server, FiniteSetTheorems, TLAPS

----------------------------------------------------------------------------
(* The operators the handlers are built from. *)

\* The updates of the client table give a client table.
LEMMA TableUpdates ==
  ASSUME NEW t \in ClientTable, NEW fd \in Fds
  PROVE  /\ addClient(t, fd) \in ClientTable
         /\ removeClient(t, fd) \in ClientTable
         /\ updateHeartbeat(t, fd) \in ClientTable
         /\ t[fd] # None => [t EXCEPT ![fd].silent = TRUE] \in ClientTable
         /\ \A id \in ClientIds, nick \in Nicknames :
              t[fd] # None => setClientIdentity(t, fd, id, nick) \in ClientTable
BY DEF ClientTable, ClientInfo, addClient, FreshInfo, removeClient, updateHeartbeat,
       setClientIdentity

\* A user list is a set of pairs of a client id and a nickname.
LEMMA UserListType ==
  ASSUME NEW t \in ClientTable
  PROVE  UserList(t) \in SUBSET ((ClientIds \cup {Empty}) \X (Nicknames \cup {Empty}))
BY DEF UserList, getOnlineClients, getAllFds, ClientTable, ClientInfo

\* Sends fail on targets only.
LEMMA SendOutcomesType ==
  ASSUME NEW T \in SUBSET Fds, NEW F \in SendOutcomes(T)
  PROVE  F \subseteq T /\ F \subseteq Fds
BY DEF SendOutcomes

\* Announcing keeps the type of userLists.
LEMMA AnnounceType ==
  ASSUME TypeOK, NEW T,
         NEW list \in SUBSET ((ClientIds \cup {Empty}) \X (Nicknames \cup {Empty}))
  PROVE  Announce(T, list) \in [Fds -> SUBSET ((ClientIds \cup {Empty}) \X (Nicknames \cup {Empty}))]
BY DEF TypeOK, Announce

\* Erasing sessions keeps the type of fileSessions.
LEMMA SessionsType ==
  ASSUME TypeOK, NEW S
  PROVE  sessionsWithout(S) \in [FileIds -> FileSession \cup {None}]
BY DEF TypeOK, sessionsWithout

----------------------------------------------------------------------------
(* Type correctness. *)

\* The variables handleClientDisconnect assigns keep their types.
LEMMA DisconnectType ==
  ASSUME TypeOK, NEW fd \in Fds, handleClientDisconnect(fd)
  PROVE  /\ sock' \in [Fds -> Peers \cup {None}]
         /\ remote' \in [Peers -> {"closed", "open", "fin", "reset"}]
         /\ handlers' \in [Fds -> Peers \cup {None}]
         /\ clientHandlers' \in [Fds -> Peers \cup {None}]
         /\ clients' \in ClientTable
         /\ recvBufs' \in [Fds -> Peers \cup {None}]
         /\ fileSessions' \in [FileIds -> FileSession \cup {None}]
         /\ closing' \subseteq Fds
         /\ pendingDisconnects' \subseteq Fds
         /\ justified' \subseteq Fds
         /\ queuedBefore' \subseteq Fds
         /\ listedBefore' \subseteq Fds
         /\ userLists' \in [Fds -> SUBSET ((ClientIds \cup {Empty}) \X (Nicknames \cup {Empty}))]
<1>1. clients' \in ClientTable
  BY TableUpdates DEF TypeOK, handleClientDisconnect
<1>2. fileSessions' \in [FileIds -> FileSession \cup {None}]
  BY SessionsType DEF handleClientDisconnect, cleanupFileSessionsForFd
<1>3. remote' \in [Peers -> {"closed", "open", "fin", "reset"}]
  BY DEF TypeOK, handleClientDisconnect, hangUp
<1>4. audience(fd) \in SUBSET Fds
  BY DEF audience, Online, getOnlineClients, getAllFds
<1>5. PICK F \in SendOutcomes(audience(fd)) :
        /\ closing' = (closing \ {fd}) \cup F
        /\ pendingDisconnects' = pendingDisconnects \cup F
        /\ justified' = (justified \ {fd}) \cup F
        /\ userLists' = [Announce(audience(fd) \ F, UserList(clients')) EXCEPT ![fd] = {}]
  BY DEF handleClientDisconnect
<1>6. F \subseteq Fds
  BY <1>4, SendOutcomesType
<1>7. userLists' \in [Fds -> SUBSET ((ClientIds \cup {Empty}) \X (Nicknames \cup {Empty}))]
  <2>1. Announce(audience(fd) \ F, UserList(clients'))
           \in [Fds -> SUBSET ((ClientIds \cup {Empty}) \X (Nicknames \cup {Empty}))]
    BY <1>1, UserListType, AnnounceType
  <2> QED BY <1>5, <2>1
<1>8. /\ sock' \in [Fds -> Peers \cup {None}]
      /\ handlers' \in [Fds -> Peers \cup {None}]
      /\ clientHandlers' \in [Fds -> Peers \cup {None}]
      /\ recvBufs' \in [Fds -> Peers \cup {None}]
      /\ queuedBefore' \subseteq Fds
      /\ listedBefore' \subseteq Fds
  BY DEF TypeOK, handleClientDisconnect, removeHandler, removeBuffer
<1> QED BY <1>1, <1>2, <1>3, <1>5, <1>6, <1>7, <1>8 DEF TypeOK

\* requestClose and failing sends keep the types of the three sets they extend.
LEMMA CloseType ==
  ASSUME TypeOK,
         \/ \E F \in SUBSET Fds : RequestClose(F)
         \/ \E T \in SUBSET Fds : SendTo(T)
  PROVE  closing' \subseteq Fds /\ pendingDisconnects' \subseteq Fds /\ justified' \subseteq Fds
<1>1. ASSUME NEW F \in SUBSET Fds, RequestClose(F)
      PROVE  closing' \subseteq Fds /\ pendingDisconnects' \subseteq Fds /\ justified' \subseteq Fds
  BY <1>1 DEF TypeOK, RequestClose
<1>2. ASSUME NEW T \in SUBSET Fds, SendTo(T)
      PROVE  \E F \in SUBSET Fds : RequestClose(F)
  BY <1>2, SendOutcomesType DEF SendTo
<1> QED BY <1>1, <1>2

\* What the invariants below all rest on.
Base == TypeOK /\ TablesAgree /\ ThreadState

\* Sends fail, and so set closing_, on connections that are there.
LEMMA FailingPresent ==
  ASSUME NEW T, NEW F \in SendOutcomes(T)
  PROVE  \A fd \in F : clientHandlers[fd] # None
BY DEF SendOutcomes

\* A message handled by the server keeps the types.
LEMMA MessageType ==
  ASSUME Base, Message
  PROVE  TypeOK'
<1> USE DEF TypeOK, ThreadState, Base
<1>1. CASE PartialMessage
  BY <1>1 DEF PartialMessage, kernelVars, handlerVars, closeVars, hbVars, loopVars
<1>2. CASE Heartbeat
  BY <1>2, CloseType, TableUpdates
     DEF Heartbeat, Receive, kernelVars, handlerVars, hbVars, loopVars
<1>3. ASSUME NEW id \in ClientIds \cup {Empty}, NEW nick \in Nicknames \cup {Empty},
             LoginAccepted(id, nick)
      PROVE  TypeOK'
  <2>1. cur \in Fds /\ canLogin(cur, id, nick)
    BY <1>3 DEF LoginAccepted, Receive
  <2>2. clients' \in ClientTable
    BY <1>3, <2>1, TableUpdates DEF LoginAccepted, canLogin
  <2>3. PICK F \in SendOutcomes({cur} \cup getOnlineClients(clients')) :
          /\ RequestClose(F)
          /\ userLists' = Announce(getOnlineClients(clients') \ F, UserList(clients'))
    BY <1>3 DEF LoginAccepted
  <2>4. {cur} \cup getOnlineClients(clients') \in SUBSET Fds
    BY <2>1 DEF getOnlineClients, getAllFds
  <2>5. F \in SUBSET Fds
    BY <2>4, SendOutcomesType
  <2>6. userLists' \in [Fds -> SUBSET ((ClientIds \cup {Empty}) \X (Nicknames \cup {Empty}))]
    BY <2>2, <2>3, UserListType, AnnounceType
  <2> QED
    BY <1>3, <2>1, <2>2, <2>3, <2>5, <2>6, CloseType
       DEF LoginAccepted, Receive, kernelVars, handlerVars, hbVars, loopVars
<1>4. ASSUME NEW id \in ClientIds \cup {Empty}, NEW nick \in Nicknames \cup {Empty},
             LoginRefused(id, nick)
      PROVE  TypeOK'
  BY <1>4, CloseType DEF LoginRefused, Receive, kernelVars, handlerVars, hbVars, loopVars
<1>5. CASE Logout
  BY <1>5 DEF Logout, Receive, kernelVars, handlerVars, hbVars, loopVars
<1>6. CASE ChatGroup
  <2>1. Online \ {cur} \in SUBSET Fds
    BY DEF Online, getOnlineClients, getAllFds
  <2> QED BY <1>6, <2>1, CloseType DEF ChatGroup, Receive, kernelVars, handlerVars, hbVars, loopVars
<1>7. ASSUME NEW toId \in ClientIds \cup {Empty}, ChatPrivate(toId)
      PROVE  TypeOK'
  <2>1. getFdByClientId(clients, toId) \in SUBSET Fds
    BY DEF getFdByClientId, getOnlineClients, getAllFds
  <2> QED BY <1>7, <2>1, CloseType DEF ChatPrivate, Receive, kernelVars, handlerVars, hbVars, loopVars
<1>8. CASE UserListRequest
  <2>1. PICK F \in SendOutcomes({cur}) :
          RequestClose(F) /\ userLists' = Announce({cur} \ F, UserList(clients))
    BY <1>8 DEF UserListRequest
  <2>2. F \in SUBSET Fds
    BY <1>8, SendOutcomesType DEF UserListRequest, Receive
  <2>3. userLists' \in [Fds -> SUBSET ((ClientIds \cup {Empty}) \X (Nicknames \cup {Empty}))]
    BY <2>1, UserListType, AnnounceType
  <2> QED
    BY <1>8, <2>1, <2>2, <2>3, CloseType
       DEF UserListRequest, Receive, kernelVars, handlerVars, hbVars, loopVars
<1>9. ASSUME NEW toId \in ClientIds \cup {Empty}, FileOfferRefused(toId)
      PROVE  TypeOK'
  BY <1>9, CloseType DEF FileOfferRefused, Receive, kernelVars, handlerVars, hbVars, loopVars
<1>10. ASSUME NEW f \in FileIds, NEW toId \in ClientIds, FileOffer(f, toId)
       PROVE  TypeOK'
  <2>1. PICK target \in getFdByClientId(clients, toId) :
          /\ SendTo({target})
          /\ fileSessions' =
               [fileSessions EXCEPT ![f] = [senderFd |-> cur, receiverFd |-> target,
                                            sender |-> sock[cur], receiver |-> sock[target]]]
    BY <1>10 DEF FileOffer
  <2>2. target \in Fds /\ clients[target] # None
    BY DEF getFdByClientId, getOnlineClients, getAllFds
  <2>3. cur \in Fds /\ sock[cur] \in Peers /\ sock[target] \in Peers
    BY <1>10, <2>2 DEF FileOffer, Receive, TablesAgree
  <2>4. fileSessions' \in [FileIds -> FileSession \cup {None}]
    BY <2>1, <2>2, <2>3 DEF FileSession
  <2> QED
    BY <1>10, <2>1, <2>2, <2>4, CloseType
       DEF FileOffer, Receive, kernelVars, handlerVars, hbVars, loopVars
<1>11. ASSUME NEW f \in FileIds, NEW accept \in BOOLEAN, FileOfferResponse(f, accept)
       PROVE  TypeOK'
  <2>1. fileSessions[f].senderFd \in Fds
    BY <1>11 DEF FileOfferResponse, FileSession
  <2> QED
    BY <1>11, <2>1, CloseType
       DEF FileOfferResponse, Receive, kernelVars, handlerVars, hbVars, loopVars
<1>12. ASSUME NEW f \in FileIds, FileData(f)
       PROVE  TypeOK'
  <2>1. counterpart(fileSessions[f], cur) \in Fds
    BY <1>12 DEF FileData, FileSession, counterpart
  <2> QED
    BY <1>12, <2>1, CloseType DEF FileData, Receive, kernelVars, handlerVars, hbVars, loopVars
<1> QED
  BY <1>1, <1>2, <1>3, <1>4, <1>5, <1>6, <1>7, <1>8, <1>9, <1>10, <1>11, <1>12 DEF Message

\* A step of a peer, of the clock or of a failing system call keeps the types.
LEMMA EnvironmentType ==
  ASSUME Base, Environment
  PROVE  TypeOK'
<1> USE DEF TypeOK, Base, kernelVars, handlerVars, closeVars, dataVars, hbVars, loopVars
<1>1. ASSUME NEW p \in Peers, PeerConnect(p)
      PROVE  TypeOK'
  BY <1>1 DEF PeerConnect
<1>2. ASSUME NEW p \in Peers, NEW how \in {"fin", "reset"}, PeerLeave(p, how)
      PROVE  TypeOK'
  BY <1>2 DEF PeerLeave
<1>3. ASSUME NEW fd \in Fds, TimePasses(fd)
      PROVE  TypeOK'
  <2>1. clients' \in ClientTable
    BY <1>3, TableUpdates DEF TimePasses
  <2> QED BY <1>3, <2>1 DEF TimePasses
<1>4. CASE Stop
  BY <1>4 DEF Stop
<1>5. CASE EpollFails
  BY <1>5 DEF EpollFails
<1>6. ASSUME NEW p \in Peers, RegisterFails(p)
      PROVE  TypeOK'
  BY <1>6 DEF RegisterFails
<1>7. CASE AcceptFails
  BY <1>7 DEF AcceptFails
<1> QED
  BY <1>1, <1>2, <1>3, <1>4, <1>5, <1>6, <1>7 DEF Environment

\* A step the main thread takes on its own keeps the types.
LEMMA MainThreadType ==
  ASSUME Base, MainThread
  PROVE  TypeOK'
<1> USE DEF TypeOK, Base, kernelVars, handlerVars, closeVars, dataVars, hbVars, loopVars
<1>1. CASE LoopTop
  BY <1>1 DEF LoopTop, TakePending, Reaping
<1>2. CASE Reap
  <2>1. PICK fd \in victims : handleClientDisconnect(fd) /\ victims' = victims \ {fd}
    BY <1>2 DEF Reap
  <2> QED BY <1>2, <2>1, DisconnectType DEF Reap
<1>3. CASE ReapDone
  BY <1>3 DEF ReapDone
<1>4. CASE EpollWait
  <2>1. events' \subseteq Event
    BY <1>4 DEF EpollWait, Event
  <2> QED BY <1>4, <2>1 DEF EpollWait
<1>5. CASE DispatchListen
  BY <1>5 DEF DispatchListen, Dispatch
<1>6. CASE PollDone
  BY <1>6 DEF PollDone, TakePending, Reaping
<1>7. ASSUME NEW fd \in Fds, DispatchError(fd)
      PROVE  TypeOK'
  BY <1>7, CloseType DEF DispatchError, Dispatch
<1>8. ASSUME NEW fd \in Fds, DispatchRead(fd)
      PROVE  TypeOK'
  BY <1>8 DEF DispatchRead, Dispatch
<1>9. ASSUME NEW p \in Peers, NEW fd \in Fds, Accept(p, fd)
      PROVE  TypeOK'
  <2>1. clients' \in ClientTable
    BY <1>9, TableUpdates DEF Accept
  <2> QED BY <1>9, <2>1 DEF Accept, emplaceHandler
<1>10. CASE AcceptDone
  BY <1>10 DEF AcceptDone
<1>11. CASE ReadDone
  <2>1. cur \in Fds
    BY <1>11 DEF ReadDone, ThreadState
  <2> QED BY <1>11, <2>1, CloseType DEF ReadDone
<1>12. CASE LoopExit
  BY <1>12 DEF LoopExit
<1>13. CASE Cleanup
  <2>1. fileSessions' \in [FileIds -> FileSession \cup {None}]
    BY <1>13, SessionsType DEF Cleanup
  <2>2. clients' \in ClientTable
    BY <1>13 DEF Cleanup, ClientTable
  <2>3. /\ remote' \in [Peers -> {"closed", "open", "fin", "reset"}]
        /\ sock' \in [Fds -> Peers \cup {None}]
        /\ recvBufs' \in [Fds -> Peers \cup {None}]
        /\ userLists' \in [Fds -> SUBSET ((ClientIds \cup {Empty}) \X (Nicknames \cup {Empty}))]
    BY <1>13 DEF Cleanup
  <2> QED BY <1>13, <2>1, <2>2, <2>3 DEF Cleanup
<1> QED
  BY <1>1, <1>2, <1>3, <1>4, <1>5, <1>6, <1>7, <1>8, <1>9, <1>10, <1>11, <1>12, <1>13
     DEF MainThread

\* A step of the heartbeat thread keeps the types.
LEMMA HeartbeatThreadType ==
  ASSUME Base, HeartbeatThread
  PROVE  TypeOK'
<1> USE DEF TypeOK, Base, kernelVars, handlerVars, closeVars, dataVars, hbVars, loopVars
<1>1. CASE HbCheck
  BY <1>1 DEF HbCheck, checkTimeout, getAllFds
<1>2. CASE HbLoop
  BY <1>2 DEF HbLoop
<1>3. ASSUME NEW fd \in Fds, HbPush(fd)
      PROVE  TypeOK'
  BY <1>3 DEF HbPush
<1> QED
  BY <1>1, <1>2, <1>3 DEF HeartbeatThread

----------------------------------------------------------------------------
(* The tables agree, and the threads hold descriptors only where they may. *)

\* Closing more connections that are there leaves the tables in agreement.
LEMMA CloseTables ==
  ASSUME Base,
         UNCHANGED <<sock, handlers, clientHandlers>>,
         \A fd \in Fds : clients'[fd] = None <=> clients[fd] = None,
         NEW F, \A fd \in F : clientHandlers[fd] # None, closing' = closing \cup F
  PROVE  TablesAgree'
BY DEF Base, TablesAgree

\* A handled message changes no descriptor: it opens and closes no table entry, and sets
\* closing_ on present connections only.
LEMMA MessageFrame ==
  ASSUME Base, Message
  PROVE  /\ UNCHANGED <<kernelVars, handlerVars, hbVars, loopVars, running>>
         /\ \A fd \in Fds : clients'[fd] = None <=> clients[fd] = None
         /\ \E F \in SUBSET Fds : /\ \A fd \in F : clientHandlers[fd] # None
                                 /\ closing' = closing \cup F
                                 /\ \E G \in SUBSET Fds :
                                      /\ F \subseteq G
                                      /\ pendingDisconnects' = pendingDisconnects \cup G
                                      /\ justified' = justified \cup G
<1> DEFINE Outcome ==
      \E F \in SUBSET Fds : /\ \A fd \in F : clientHandlers[fd] # None
                           /\ closing' = closing \cup F
                           /\ \E G \in SUBSET Fds :
                                /\ F \subseteq G
                                /\ pendingDisconnects' = pendingDisconnects \cup G
                                /\ justified' = justified \cup G
           Frame == UNCHANGED <<kernelVars, handlerVars, hbVars, loopVars, running>>
           SameEntries == \A fd \in Fds : clients'[fd] = None <=> clients[fd] = None
<1>0. ASSUME NEW G \in SUBSET Fds, closing' = closing,
             pendingDisconnects' = pendingDisconnects \cup G, justified' = justified \cup G
      PROVE  Outcome
  <2> WITNESS {} \in SUBSET Fds
  <2>1. closing' = closing \cup {}
    BY <1>0
  <2>2. \E H \in SUBSET Fds : /\ {} \subseteq H
                            /\ pendingDisconnects' = pendingDisconnects \cup H
                            /\ justified' = justified \cup H
    <3> WITNESS G \in SUBSET Fds
    <3> QED BY <1>0
  <2> QED BY <2>1, <2>2
<1>1. ASSUME NEW T \in SUBSET Fds, NEW F \in SendOutcomes(T), RequestClose(F)
      PROVE  Outcome
  BY <1>1, FailingPresent, SendOutcomesType DEF RequestClose
<1>2. ASSUME NEW T \in SUBSET Fds, SendTo(T)
      PROVE  Outcome
  BY <1>1, <1>2 DEF SendTo
<1>3. mainPc = "read" => cur \in Fds
  BY DEF Base, ThreadState
<1>4. ASSUME NEW id, getFdByClientId(clients, id) \notin SUBSET Fds
      PROVE  FALSE
  BY <1>4 DEF getFdByClientId, getOnlineClients, getAllFds
<1>5. CASE PartialMessage
  <2>1. pendingDisconnects' = pendingDisconnects \cup {} /\ justified' = justified \cup {}
    BY <1>5 DEF PartialMessage, closeVars
  <2>2. Outcome
    BY <1>0, <1>5, <2>1 DEF PartialMessage, closeVars
  <2> QED BY <1>5, <2>2 DEF PartialMessage
<1>6. CASE Heartbeat
  <2>1. SameEntries
    BY <1>3, <1>6, NoneAssumption
       DEF Heartbeat, Receive, updateHeartbeat, Base, TypeOK, ClientTable, ClientInfo
  <2> QED BY <1>2, <1>3, <1>6, <2>1 DEF Heartbeat, Receive
<1>7. ASSUME NEW id \in ClientIds \cup {Empty}, NEW nick \in Nicknames \cup {Empty},
             LoginAccepted(id, nick)
      PROVE  Frame /\ SameEntries /\ Outcome
  <2>1. cur \in Fds /\ clients[cur] # None
    BY <1>3, <1>7 DEF LoginAccepted, Receive, canLogin
  <2>2. clients' = setClientIdentity(clients, cur, id, nick)
    BY <1>7 DEF LoginAccepted
  <2>3. clients'[cur] # None
    <3>1. clients[cur] \in ClientInfo
      BY <2>1 DEF Base, TypeOK, ClientTable
    <3>2. clients'[cur] = [clients[cur] EXCEPT !.clientId = id, !.nickname = nick, !.isOnline = TRUE]
      BY <2>1, <2>2 DEF setClientIdentity, Base, TypeOK, ClientTable
    <3>3. clients'[cur] \in ClientInfo
      BY <3>1, <3>2 DEF ClientInfo
    <3> QED BY <3>3, NoneAssumption
  <2>4. SameEntries
    BY <2>1, <2>2, <2>3 DEF setClientIdentity, Base, TypeOK, ClientTable
  <2>5. {cur} \cup getOnlineClients(clients') \in SUBSET Fds
    BY <2>1 DEF getOnlineClients, getAllFds
  <2>6. Outcome
    BY <1>1, <1>7, <2>5 DEF LoginAccepted
  <2> QED BY <1>7, <2>4, <2>6 DEF LoginAccepted, Receive
<1>8. ASSUME NEW id \in ClientIds \cup {Empty}, NEW nick \in Nicknames \cup {Empty},
             LoginRefused(id, nick)
      PROVE  Frame /\ SameEntries /\ Outcome
  BY <1>2, <1>3, <1>8 DEF LoginRefused, Receive
<1>9. CASE Logout
  <2>1. Outcome
    BY <1>0, <1>3, <1>9 DEF Logout, Receive
  <2> QED BY <1>9, <2>1 DEF Logout, Receive
<1>10. CASE ChatGroup
  <2>1. Online \ {cur} \in SUBSET Fds
    BY DEF Online, getOnlineClients, getAllFds
  <2> QED BY <1>2, <1>10, <2>1 DEF ChatGroup, Receive
<1>11. ASSUME NEW toId \in ClientIds \cup {Empty}, ChatPrivate(toId)
       PROVE  Frame /\ SameEntries /\ Outcome
  BY <1>2, <1>4, <1>11 DEF ChatPrivate, Receive
<1>12. CASE UserListRequest
  BY <1>1, <1>3, <1>12 DEF UserListRequest, Receive
<1>13. ASSUME NEW toId \in ClientIds \cup {Empty}, FileOfferRefused(toId)
       PROVE  Frame /\ SameEntries /\ Outcome
  BY <1>2, <1>3, <1>13 DEF FileOfferRefused, Receive
<1>14. ASSUME NEW f \in FileIds, NEW toId \in ClientIds, FileOffer(f, toId)
       PROVE  Frame /\ SameEntries /\ Outcome
  <2>1. PICK target \in getFdByClientId(clients, toId) : SendTo({target})
    BY <1>14 DEF FileOffer
  <2> QED BY <1>2, <1>4, <1>14, <2>1 DEF FileOffer, Receive
<1>15. ASSUME NEW f \in FileIds, NEW accept \in BOOLEAN, FileOfferResponse(f, accept)
       PROVE  Frame /\ SameEntries /\ Outcome
  <2>1. fileSessions[f].senderFd \in Fds
    BY <1>15 DEF FileOfferResponse, FileSession, Base, TypeOK
  <2> QED BY <1>2, <1>15, <2>1 DEF FileOfferResponse, Receive
<1>16. ASSUME NEW f \in FileIds, FileData(f)
       PROVE  Frame /\ SameEntries /\ Outcome
  <2>1. counterpart(fileSessions[f], cur) \in Fds
    BY <1>16 DEF FileData, FileSession, counterpart, Base, TypeOK
  <2> QED BY <1>2, <1>16, <2>1 DEF FileData, Receive
<1> QED
  BY <1>5, <1>6, <1>7, <1>8, <1>9, <1>10, <1>11, <1>12, <1>13, <1>14, <1>15, <1>16 DEF Message

\* What handleClientDisconnect does to the sets of descriptors: the connection goes, and
\* broadcasting may find others that fail.
LEMMA DisconnectFrame ==
  ASSUME Base, NEW fd \in Fds, handleClientDisconnect(fd)
  PROVE  /\ sock' = [sock EXCEPT ![fd] = None]
         /\ handlers' = [handlers EXCEPT ![fd] = None]
         /\ clientHandlers' = [clientHandlers EXCEPT ![fd] = None]
         /\ clients' = [clients EXCEPT ![fd] = None]
         /\ recvBufs' = [recvBufs EXCEPT ![fd] = None]
         /\ \E F \in SUBSET (Fds \ {fd}) :
              /\ \A g \in F : clientHandlers[g] # None
              /\ closing' = (closing \ {fd}) \cup F
              /\ pendingDisconnects' = pendingDisconnects \cup F
              /\ justified' = (justified \ {fd}) \cup F
<1>1. audience(fd) \in SUBSET (Fds \ {fd})
  BY DEF audience, Online, getOnlineClients, getAllFds
<1>2. PICK F \in SendOutcomes(audience(fd)) :
        /\ closing' = (closing \ {fd}) \cup F
        /\ pendingDisconnects' = pendingDisconnects \cup F
        /\ justified' = (justified \ {fd}) \cup F
  BY DEF handleClientDisconnect
<1>3. F \subseteq audience(fd) /\ \A g \in F : clientHandlers[g] # None
  BY DEF SendOutcomes
<1> QED
  BY <1>1, <1>2, <1>3 DEF handleClientDisconnect, removeHandler, removeClient, removeBuffer

\* Every step keeps the tables in agreement.
LEMMA TablesStep ==
  ASSUME Base, [Next]_vars
  PROVE  TablesAgree'
<1> USE DEF kernelVars, handlerVars, closeVars, dataVars, hbVars, loopVars
<1>1. ASSUME UNCHANGED <<sock, handlers, clientHandlers, clients, closing>>
      PROVE  TablesAgree'
  BY <1>1 DEF Base, TablesAgree
<1>2. CASE Message
  BY <1>2, MessageFrame, CloseTables
<1>3. ASSUME NEW fd \in Fds, TimePasses(fd)
      PROVE  TablesAgree'
  <2>1. clients' \in ClientTable /\ clients' = [clients EXCEPT ![fd].silent = TRUE]
    BY <1>3, TableUpdates DEF TimePasses, Base, TypeOK
  <2>2. clients'[fd] # None
    <3>1. clients[fd] \in ClientInfo /\ clients'[fd] = [clients[fd] EXCEPT !.silent = TRUE]
      BY <1>3, <2>1 DEF TimePasses, Base, TypeOK, ClientTable
    <3>2. clients'[fd] \in ClientInfo
      BY <3>1 DEF ClientInfo
    <3> QED BY <3>2, NoneAssumption
  <2>3. \A g \in Fds : clients'[g] = None <=> clients[g] = None
    BY <1>3, <2>1, <2>2 DEF TimePasses, Base, TypeOK, ClientTable
  <2> QED BY <1>3, <2>3 DEF TimePasses, Base, TablesAgree
<1>4. CASE Reap
  <2>1. PICK fd \in victims : handleClientDisconnect(fd)
    BY <1>4 DEF Reap
  <2>2. fd \in Fds
    BY DEF Base, TypeOK
  <2> QED BY <2>1, <2>2, DisconnectFrame DEF Base, TypeOK, TablesAgree, ClientTable
<1>5. ASSUME NEW fd \in Fds, DispatchError(fd)
      PROVE  TablesAgree'
  BY <1>5 DEF DispatchError, Dispatch, RequestClose, Base, TablesAgree
<1>6. ASSUME NEW p \in Peers, NEW fd \in Fds, Accept(p, fd)
      PROVE  TablesAgree'
  <2>1. FreshInfo # None
    <3>1. FreshInfo \in ClientInfo
      BY DEF FreshInfo, ClientInfo
    <3> QED BY <3>1, NoneAssumption
  <2>2. clientHandlers' = [clientHandlers EXCEPT ![fd] = p]
    BY <1>6 DEF Accept, LowestFree, emplaceHandler, Base, TablesAgree
  <2> QED
    BY <1>6, <2>1, <2>2, ServerAssumption DEF Accept, addClient, Base, TypeOK, ClientTable, TablesAgree
<1>7. CASE ReadDone
  <2>1. cur \in Fds /\ sock[cur] # None
    BY <1>7 DEF ReadDone, Base, ThreadState
  <2> QED BY <1>7, <2>1 DEF ReadDone, RequestClose, Base, TablesAgree
<1>8. CASE Cleanup
  <2>1. \A fd \in Fds : sock'[fd] = None /\ clients'[fd] = None
    BY <1>8 DEF Cleanup, everyConnection, getAllFds, Base, TablesAgree
  <2> QED BY <1>8, <2>1 DEF Cleanup, TablesAgree
<1>9. CASE Environment
  BY <1>1, <1>3, <1>9
     DEF Environment, PeerConnect, PeerLeave, Stop, EpollFails, AcceptFails, RegisterFails
<1>10. CASE MainThread
  BY <1>1, <1>4, <1>5, <1>6, <1>7, <1>8, <1>10
     DEF MainThread, LoopTop, TakePending, ReapDone, EpollWait, DispatchListen, DispatchRead,
         PollDone, AcceptDone, LoopExit
<1>11. CASE HeartbeatThread
  BY <1>1, <1>11 DEF HeartbeatThread, HbCheck, HbLoop, HbPush
<1>12. CASE Terminated \/ UNCHANGED vars
  BY <1>1, <1>12 DEF Terminated, vars
<1> QED
  BY <1>2, <1>9, <1>10, <1>11, <1>12 DEF Next

\* Every step keeps the descriptors of the threads where they belong.
LEMMA ThreadStep ==
  ASSUME Base, [Next]_vars
  PROVE  ThreadState'
<1> USE DEF kernelVars, handlerVars, closeVars, dataVars, hbVars, loopVars, Base, ThreadState
<1>1. ASSUME UNCHANGED <<sock, loopVars, hbVars>>
      PROVE  ThreadState'
  BY <1>1
<1>2. CASE Message
  BY <1>1, <1>2, MessageFrame
<1>3. CASE Environment
  BY <1>3
     DEF Environment, PeerConnect, PeerLeave, TimePasses, Stop, EpollFails, AcceptFails,
         RegisterFails, Reaping
<1>4. CASE HeartbeatThread
  BY <1>4 DEF HeartbeatThread, HbCheck, HbLoop, HbPush
<1>5. CASE LoopTop \/ PollDone
  BY <1>5 DEF LoopTop, PollDone, TakePending, Reaping
<1>6. CASE Reap
  BY <1>6 DEF Reap, Reaping
<1>7. CASE ReapDone
  BY <1>7 DEF ReapDone, Reaping
<1>8. CASE EpollWait \/ DispatchListen \/ AcceptDone \/ LoopExit \/ Cleanup
  BY <1>8 DEF EpollWait, DispatchListen, Dispatch, AcceptDone, LoopExit, Cleanup, Reaping
<1>9. ASSUME NEW fd \in Fds, DispatchError(fd) \/ DispatchRead(fd)
      PROVE  ThreadState'
  BY <1>9 DEF DispatchError, DispatchRead, Dispatch, TablesAgree, Reaping
<1>10. ASSUME NEW p \in Peers, NEW fd \in Fds, Accept(p, fd)
       PROVE  ThreadState'
  BY <1>10 DEF Accept, Reaping
<1>11. CASE ReadDone
  BY <1>11 DEF ReadDone, Reaping
<1>12. CASE Terminated \/ UNCHANGED vars
  BY <1>1, <1>12 DEF Terminated, vars
<1>13. CASE MainThread
  BY <1>5, <1>6, <1>7, <1>8, <1>9, <1>10, <1>11, <1>13 DEF MainThread
<1> QED
  BY <1>2, <1>3, <1>4, <1>12, <1>13 DEF Next

----------------------------------------------------------------------------
(* The theorems. *)

\* A server that has just been built.
LEMMA BaseInit == Init => Base
<1> SUFFICES ASSUME Init PROVE Base
  OBVIOUS
<1> USE DEF Init
<1>1. TypeOK
  BY DEF TypeOK, ClientTable
<1>2. TablesAgree
  BY DEF TablesAgree
<1>3. ThreadState
  BY DEF ThreadState
<1> QED BY <1>1, <1>2, <1>3 DEF Base

\* One step at a time.
LEMMA BaseStep == Base /\ [Next]_vars => Base'
<1> SUFFICES ASSUME Base, [Next]_vars PROVE Base'
  OBVIOUS
<1>1. TypeOK'
  <2>1. CASE Terminated \/ UNCHANGED vars
    BY <2>1 DEF Base, TypeOK, Terminated, vars, kernelVars, handlerVars, closeVars, dataVars,
                hbVars, loopVars
  <2> QED
    BY <2>1, EnvironmentType, MessageType, MainThreadType, HeartbeatThreadType DEF Next
<1> QED BY <1>1, TablesStep, ThreadStep DEF Base

\* The inductive invariant: types, tables and threads need each other.  A file session is well
\* typed because its target, being logged in, has an open descriptor, which TablesAgree says;
\* the tables agree after a read loop because ThreadState says it reads an open descriptor.
THEOREM BaseInvariant == Spec => []Base
<1> QED BY BaseInit, BaseStep, PTL DEF Spec

\* Every variable of the server keeps its declared shape.
THEOREM TypeCorrect == Spec => []TypeOK
<1>1. Base => TypeOK
  BY DEF Base
<1> QED BY <1>1, BaseInvariant, PTL

\* handleClientDisconnect and registerClient keep the reactor, the handler table, the client
\* table and the kernel in agreement, for any number of descriptors and peers.
THEOREM TablesAlwaysAgree == Spec => []TablesAgree
<1>1. Base => TablesAgree
  BY DEF Base
<1> QED BY <1>1, BaseInvariant, PTL

----------------------------------------------------------------------------
(* No cause to close a connection is lost. *)

\* No step forgets a connection that is to be closed.
LEMMA LostStep ==
  ASSUME Base, NoLostDisconnect, [Next]_vars
  PROVE  NoLostDisconnect'
<1> USE DEF kernelVars, handlerVars, closeVars, dataVars, hbVars, loopVars, NoLostDisconnect
<1>1. ASSUME UNCHANGED <<closing, justified, pendingDisconnects, victims, hbList>>
      PROVE  NoLostDisconnect'
  BY <1>1
<1>2. CASE Message
  BY <1>2, MessageFrame
<1>3. CASE Environment
  BY <1>1, <1>3
     DEF Environment, PeerConnect, PeerLeave, TimePasses, Stop, EpollFails, AcceptFails,
         RegisterFails
<1>4. CASE HeartbeatThread
  BY <1>4 DEF HeartbeatThread, HbCheck, HbLoop, HbPush, Base, ThreadState
\* The swap moves the queue into victims, which is empty outside the reaping loops.
<1>5. CASE LoopTop \/ PollDone
  BY <1>5 DEF LoopTop, PollDone, TakePending, Base, ThreadState, Reaping
<1>6. CASE Reap
  <2>1. PICK fd \in victims : handleClientDisconnect(fd) /\ victims' = victims \ {fd}
    BY <1>6 DEF Reap
  <2>2. fd \in Fds
    BY DEF Base, TypeOK
  <2>3. PICK F \in SUBSET (Fds \ {fd}) :
          /\ closing' = (closing \ {fd}) \cup F
          /\ pendingDisconnects' = pendingDisconnects \cup F
          /\ justified' = (justified \ {fd}) \cup F
    BY <2>1, <2>2, DisconnectFrame
  <2> QED BY <1>6, <2>1, <2>3 DEF Reap
<1>7. ASSUME NEW fd \in Fds, DispatchError(fd)
      PROVE  NoLostDisconnect'
  BY <1>7 DEF DispatchError, Dispatch, RequestClose
<1>8. CASE ReadDone
  BY <1>8 DEF ReadDone, RequestClose
<1>9. CASE Cleanup
  BY <1>9 DEF Cleanup
<1>10. CASE MainThread
  BY <1>1, <1>5, <1>6, <1>7, <1>8, <1>9, <1>10
     DEF MainThread, ReapDone, EpollWait, DispatchListen, DispatchRead, Accept, AcceptDone, LoopExit
<1>11. CASE Terminated \/ UNCHANGED vars
  BY <1>1, <1>11 DEF Terminated, vars
<1> QED
  BY <1>2, <1>3, <1>4, <1>10, <1>11 DEF Next

\* requestClose, queueDisconnect, heartbeatLoop, processPendingDisconnects: whatever the two
\* threads interleave, a connection that gave a cause to be closed stays queued, taken from the
\* queue or listed by the heartbeat thread until its descriptor is closed.
THEOREM NothingLost == Spec => []NoLostDisconnect
<1>1. Init => NoLostDisconnect
  BY DEF Init, NoLostDisconnect
<1>2. Base /\ NoLostDisconnect /\ [Next]_vars => NoLostDisconnect'
  BY LostStep
<1> QED BY <1>1, <1>2, BaseInvariant, PTL DEF Spec

----------------------------------------------------------------------------
(* Who is closed without a cause. *)

\* Every descriptor that is queued, taken from the queue or listed stands for a connection that
\* gave a cause, or one that was accepted over the entry, or none.  What the queue has when the
\* loop begins a new iteration comes from the bottom of the last one, where nobody is accepted:
\* so nothing accepted over a queued descriptor is left by then.
EntriesExplained ==
  /\ \A fd \in hbList : sock[fd] # None => fd \in justified \cup listedBefore
  /\ \A fd \in pendingDisconnects \cup victims :
       sock[fd] # None => fd \in justified \cup queuedBefore \cup listedBefore
  /\ mainPc \in {"top", "reapBottom"} =>
       \A fd \in pendingDisconnects : sock[fd] # None => fd \in justified \cup listedBefore
  /\ mainPc \in {"join", "done"} => ~running

\* Every step leaves the entries explained.
LEMMA EntriesStep ==
  ASSUME Base, EntriesExplained, [Next]_vars
  PROVE  EntriesExplained'
<1> USE DEF kernelVars, handlerVars, closeVars, dataVars, hbVars, loopVars, EntriesExplained
<1>1. ASSUME UNCHANGED <<sock, justified, queuedBefore, listedBefore, pendingDisconnects, victims,
                         hbList>>,
             mainPc' = mainPc \/ mainPc' \notin {"top", "reapBottom", "join", "done"},
             running' = running
      PROVE  EntriesExplained'
  BY <1>1
<1>2. CASE Message
  <2>1. PICK G \in SUBSET Fds : /\ pendingDisconnects' = pendingDisconnects \cup G
                               /\ justified' = justified \cup G
    BY <1>2, MessageFrame
  <2>2. UNCHANGED <<sock, queuedBefore, listedBefore, hbList, victims, mainPc, running>>
    BY <1>2, MessageFrame
  <2> QED BY <2>1, <2>2
<1>3. CASE Environment
  BY <1>1, <1>3
     DEF Environment, PeerConnect, PeerLeave, TimePasses, Stop, EpollFails, AcceptFails,
         RegisterFails
<1>4. CASE HeartbeatThread
  BY <1>4 DEF HeartbeatThread, HbCheck, HbLoop, HbPush
<1>5. CASE LoopTop \/ PollDone
  BY <1>5 DEF LoopTop, PollDone, TakePending, Base, ThreadState, Reaping
<1>6. CASE Reap
  <2>1. PICK fd \in victims : handleClientDisconnect(fd) /\ victims' = victims \ {fd}
    BY <1>6 DEF Reap
  <2>2. fd \in Fds
    BY DEF Base, TypeOK
  <2>3. PICK F \in SUBSET (Fds \ {fd}) :
          /\ pendingDisconnects' = pendingDisconnects \cup F
          /\ justified' = (justified \ {fd}) \cup F
    BY <2>1, <2>2, DisconnectFrame
  <2>4. /\ sock' = [sock EXCEPT ![fd] = None]
        /\ queuedBefore' = queuedBefore \ {fd}
        /\ listedBefore' = listedBefore \ {fd}
    BY <2>1 DEF handleClientDisconnect
  <2>5. sock \in [Fds -> Peers \cup {None}] /\ victims \subseteq Fds
        /\ pendingDisconnects \subseteq Fds /\ hbList \subseteq Fds
    BY DEF Base, TypeOK
  <2>6. UNCHANGED <<hbList, mainPc, running>>
    BY <1>6 DEF Reap
  <2> QED BY <2>1, <2>2, <2>3, <2>4, <2>5, <2>6
<1>7. ASSUME NEW fd \in Fds, DispatchError(fd)
      PROVE  EntriesExplained'
  BY <1>7 DEF DispatchError, Dispatch, RequestClose
\* The new connection takes over what the queue or the heartbeat thread has of its descriptor.
<1>8. ASSUME NEW p \in Peers, NEW fd \in Fds, Accept(p, fd)
      PROVE  EntriesExplained'
  <2>1. victims = {}
    BY <1>8 DEF Accept, Base, ThreadState, Reaping
  <2>2. sock \in [Fds -> Peers \cup {None}] /\ pendingDisconnects \subseteq Fds /\ hbList \subseteq Fds
    BY DEF Base, TypeOK
  <2> QED BY <1>8, <2>1, <2>2 DEF Accept
<1>9. CASE ReadDone
  BY <1>9 DEF ReadDone, RequestClose
<1>10. CASE Cleanup
  <2>1. \A fd \in Fds : sock'[fd] = None
    BY <1>10 DEF Cleanup, everyConnection, getAllFds, Base, TablesAgree
  <2> QED BY <1>10, <2>1 DEF Cleanup, Base, TypeOK
<1>11. CASE ReapDone
  BY <1>11 DEF ReapDone, Reaping
<1>12. CASE LoopExit
  BY <1>12 DEF LoopExit
<1>13. CASE MainThread
  BY <1>1, <1>5, <1>6, <1>7, <1>8, <1>9, <1>10, <1>11, <1>12, <1>13
     DEF MainThread, EpollWait, DispatchListen, DispatchRead, Dispatch, AcceptDone
<1>14. CASE Terminated \/ UNCHANGED vars
  BY <1>14 DEF Terminated, vars
<1> QED
  BY <1>2, <1>3, <1>4, <1>13, <1>14 DEF Next

\* processPendingDisconnects and heartbeatLoop: for any number of descriptors, the running
\* server closes a connection that gave no cause only over an entry its descriptor had when it
\* was accepted, and over an entry of the queue only in the iteration that accepted it.
THEOREM EstablishedStay == Spec => EstablishedKept
<1> DEFINE Kept == running => \A fd \in Fds :
                     closes(fd) => fd \in justified \cup queuedBefore \cup listedBefore
<1>1. Init => EntriesExplained
  BY DEF Init, EntriesExplained
<1>2. Base /\ EntriesExplained /\ [Next]_vars => EntriesExplained'
  BY EntriesStep
<1>3. ASSUME Base, EntriesExplained, Next PROVE Kept
  <2> USE DEF kernelVars, handlerVars, closeVars, dataVars, hbVars, loopVars, closes
  <2>1. CASE UNCHANGED sock
    BY <2>1
  <2>2. CASE Reap
    <3>1. PICK fd \in victims : handleClientDisconnect(fd)
      BY <2>2 DEF Reap
    <3>2. \A g \in Fds : closes(g) => g = fd
      BY <3>1 DEF handleClientDisconnect, Base, TypeOK
    <3> QED BY <1>3, <3>1, <3>2 DEF EntriesExplained
  <2>3. ASSUME NEW p \in Peers, NEW fd \in Fds, Accept(p, fd)
        PROVE  \A g \in Fds : ~closes(g)
    BY <2>3, ServerAssumption, <1>3 DEF Accept, Base, TypeOK
  <2>4. CASE Cleanup
    BY <1>3, <2>4 DEF Cleanup, EntriesExplained
  <2>5. CASE Message
    BY <1>3, <2>1, <2>5, MessageFrame
  <2>6. CASE Environment
    BY <2>1, <2>6
       DEF Environment, PeerConnect, PeerLeave, TimePasses, Stop, EpollFails, AcceptFails,
           RegisterFails
  <2>7. CASE HeartbeatThread
    BY <2>1, <2>7 DEF HeartbeatThread, HbCheck, HbLoop, HbPush
  <2>8. CASE MainThread
    BY <2>1, <2>2, <2>3, <2>4, <2>8
       DEF MainThread, LoopTop, PollDone, TakePending, ReapDone, EpollWait, DispatchListen,
           DispatchError, DispatchRead, AcceptDone, ReadDone, LoopExit
  <2>9. CASE Terminated
    BY <2>1, <2>9 DEF Terminated, vars
  <2> QED BY <1>3, <2>5, <2>6, <2>7, <2>8, <2>9 DEF Next
<1>4. Base /\ EntriesExplained /\ [Next]_vars => [Kept]_vars
  BY <1>3
<1> QED BY <1>1, <1>2, <1>4, BaseInvariant, PTL DEF Spec, EstablishedKept

----------------------------------------------------------------------------
(* The accept queue. *)

\* ListenHandler::handleRead on an edge-triggered socket: whoever waits in the accept queue is
\* about to be looked at (the edge is unreported, or reported and not yet handled, or the accept
\* loop is running), or else an accept() failed after the last arrival.
NobodyUnseen ==
  backlog # {} => listenEdge \/ <<ListenFd, "in">> \in events \/ mainPc = "accept" \/ stranded

\* Events are dispatched before the loop goes on: epoll_wait never overwrites a batch.
EventsInBatch == events # {} => mainPc \in {"poll", "accept", "read"}

\* No step loses the last sign of a waiting peer.
LEMMA UnseenStep ==
  ASSUME TypeOK, NobodyUnseen, EventsInBatch, [Next]_vars
  PROVE  NobodyUnseen' /\ EventsInBatch'
<1> USE DEF kernelVars, handlerVars, closeVars, dataVars, hbVars, loopVars, NobodyUnseen, EventsInBatch
<1>1. ASSUME UNCHANGED <<backlog, listenEdge, stranded, events, mainPc>>
      PROVE  NobodyUnseen' /\ EventsInBatch'
  BY <1>1
<1>2. CASE Message
  BY <1>1, <1>2
     DEF Message, PartialMessage, Heartbeat, LoginAccepted, LoginRefused, Logout, ChatGroup,
         ChatPrivate, UserListRequest, FileOfferRefused, FileOffer, FileOfferResponse, FileData,
         Receive
<1>3. CASE Environment
  BY <1>1, <1>3
     DEF Environment, PeerConnect, PeerLeave, TimePasses, Stop, EpollFails, AcceptFails,
         RegisterFails
<1>4. CASE HeartbeatThread
  BY <1>1, <1>4 DEF HeartbeatThread, HbCheck, HbLoop, HbPush
<1>5. CASE LoopTop \/ PollDone
  BY <1>5 DEF LoopTop, PollDone, TakePending
<1>6. CASE Reap \/ ReapDone \/ LoopExit \/ Cleanup
  BY <1>6 DEF Reap, ReapDone, LoopExit, Cleanup, Reaping
<1>7. CASE EpollWait
  BY <1>7 DEF EpollWait
<1>8. CASE DispatchListen
  BY <1>8 DEF DispatchListen, Dispatch
\* The events of connections are not the listening socket's.
<1>9. ASSUME NEW fd \in Fds, DispatchError(fd) \/ DispatchRead(fd)
      PROVE  NobodyUnseen' /\ EventsInBatch'
  BY <1>9, ServerAssumption DEF DispatchError, DispatchRead, Dispatch
<1>10. ASSUME NEW p \in Peers, NEW fd \in Fds, Accept(p, fd)
       PROVE  NobodyUnseen' /\ EventsInBatch'
  BY <1>10 DEF Accept
<1>11. CASE AcceptDone
  BY <1>11 DEF AcceptDone, acceptEnds
<1>12. CASE ReadDone
  BY <1>12 DEF ReadDone
<1>13. CASE MainThread
  BY <1>5, <1>6, <1>7, <1>8, <1>9, <1>10, <1>11, <1>12, <1>13 DEF MainThread
<1>14. CASE Terminated \/ UNCHANGED vars
  BY <1>1, <1>14 DEF Terminated, vars
<1> QED
  BY <1>2, <1>3, <1>4, <1>13, <1>14 DEF Next

\* ListenHandler::handleRead: the queue is never left behind by anything but an accept() that
\* fails, whatever arrives while the loop runs, and never once somebody arrived after that.
THEOREM QueueSeen == Spec => []NobodyUnseen
<1>1. Init => NobodyUnseen /\ EventsInBatch
  BY DEF Init, NobodyUnseen, EventsInBatch
<1>2. TypeOK /\ NobodyUnseen /\ EventsInBatch /\ [Next]_vars => (NobodyUnseen /\ EventsInBatch)'
  BY UnseenStep
<1> QED BY <1>1, <1>2, TypeCorrect, PTL DEF Spec

----------------------------------------------------------------------------
(* Handlers outlive the batch of events they are called for. *)

\* Reactor::poll calls handlers it found by descriptor; every handler lives on to the end of
\* the batch, because the handlers queue disconnects instead of making them, and because a new
\* connection never takes a slot that is in use.
THEOREM HandlersOutliveDispatch == Spec => NoFreeWhileDispatching
<1> DEFINE Kept == (mainPc \in {"poll", "read", "accept"}) =>
                     \A fd \in Fds : sock[fd] # None => clientHandlers'[fd] = clientHandlers[fd]
<1>1. ASSUME Base, Next PROVE Kept
  <2> USE DEF kernelVars, handlerVars, closeVars, dataVars, hbVars, loopVars
  <2>1. CASE Message
    BY <1>1, <2>1, MessageFrame
  <2>2. CASE Environment
    BY <2>2
       DEF Environment, PeerConnect, PeerLeave, TimePasses, Stop, EpollFails, AcceptFails,
           RegisterFails
  <2>3. CASE HeartbeatThread
    BY <2>3 DEF HeartbeatThread, HbCheck, HbLoop, HbPush
  <2>4. CASE Terminated
    BY <2>4 DEF Terminated, vars
  <2>5. ASSUME NEW p \in Peers, NEW fd \in Fds, Accept(p, fd)
        PROVE  Kept
    BY <1>1, <2>5 DEF Accept, LowestFree, emplaceHandler, Base, TypeOK, TablesAgree
  <2>6. CASE MainThread
    BY <2>5, <2>6
       DEF MainThread, LoopTop, PollDone, TakePending, Reap, Reaping, ReapDone, EpollWait,
           DispatchListen, DispatchError, DispatchRead, AcceptDone, ReadDone, LoopExit, Cleanup
  <2> QED BY <1>1, <2>1, <2>2, <2>3, <2>4, <2>6 DEF Next
<1>2. Base /\ [Next]_vars => [Kept]_vars
  BY <1>1
<1> QED BY <1>2, BaseInvariant, PTL DEF Spec, NoFreeWhileDispatching

----------------------------------------------------------------------------
(* What is kept under a descriptor belongs to its connection. *)

\* The fields of a session that exist.
LEMMA SessionFields ==
  ASSUME Base, NEW f \in FileIds, fileSessions[f] # None
  PROVE  /\ fileSessions[f].senderFd \in Fds /\ fileSessions[f].receiverFd \in Fds
         /\ fileSessions[f].sender \in Peers /\ fileSessions[f].receiver \in Peers
BY DEF Base, TypeOK, FileSession

\* When the connections of S go, and no session of theirs is left, the others keep their ends.
LEMMA EndpointsSurvive ==
  ASSUME Base, SessionEndpoints, NEW S \in SUBSET Fds,
         fileSessions' = sessionsWithout(S),
         \A fd \in Fds \ S : sock'[fd] = sock[fd]
  PROVE  SessionEndpoints'
BY SessionFields DEF SessionEndpoints, sessionsWithout

\* No step leaves a file session with an end that is gone.
LEMMA EndpointsStep ==
  ASSUME Base, SessionEndpoints, [Next]_vars
  PROVE  SessionEndpoints'
<1> USE DEF kernelVars, handlerVars, closeVars, dataVars, hbVars, loopVars
<1>1. ASSUME UNCHANGED <<sock, fileSessions>>
      PROVE  SessionEndpoints'
  BY <1>1 DEF SessionEndpoints
<1>2. CASE Message
  <2>1. UNCHANGED sock
    BY <1>2, MessageFrame
  <2>2. ASSUME NEW f \in FileIds, NEW toId \in ClientIds, FileOffer(f, toId)
        PROVE  SessionEndpoints'
    BY <2>1, <2>2 DEF FileOffer, SessionEndpoints, Base, TypeOK
  <2>3. ASSUME NEW f \in FileIds, NEW accept \in BOOLEAN, FileOfferResponse(f, accept)
        PROVE  SessionEndpoints'
    BY <2>1, <2>3 DEF FileOfferResponse, SessionEndpoints, Base, TypeOK
  <2> QED
    BY <1>1, <1>2, <2>1, <2>2, <2>3
       DEF Message, PartialMessage, Heartbeat, LoginAccepted, LoginRefused, Logout, ChatGroup,
           ChatPrivate, FileOfferRefused, UserListRequest, FileData
<1>3. CASE Reap
  <2>1. PICK fd \in Fds : handleClientDisconnect(fd)
    BY <1>3 DEF Reap, Base, TypeOK
  <2>2. fileSessions' = sessionsWithout({fd})
    BY <2>1 DEF handleClientDisconnect, cleanupFileSessionsForFd
  <2>3. \A g \in Fds \ {fd} : sock'[g] = sock[g]
    BY <2>1 DEF handleClientDisconnect, Base, TypeOK
  <2> QED BY <2>2, <2>3, EndpointsSurvive
\* A new connection takes a free descriptor, which no session names.
<1>4. ASSUME NEW p \in Peers, NEW fd \in Fds, Accept(p, fd)
      PROVE  SessionEndpoints'
  <2>1. sock[fd] = None /\ sock' = [sock EXCEPT ![fd] = p] /\ UNCHANGED fileSessions
    BY <1>4 DEF Accept, LowestFree
  <2>2. ASSUME NEW f \in FileIds, fileSessions[f] # None
        PROVE  fileSessions[f].senderFd # fd /\ fileSessions[f].receiverFd # fd
    BY <2>1, <2>2, SessionFields, ServerAssumption DEF SessionEndpoints
  <2> QED BY <2>1, <2>2, SessionFields DEF SessionEndpoints, Base, TypeOK
<1>5. CASE Cleanup
  <2>1. everyConnection \in SUBSET Fds
    BY DEF everyConnection, getAllFds
  <2>2. \A fd \in Fds \ everyConnection : sock'[fd] = sock[fd]
    BY <1>5 DEF Cleanup
  <2>3. fileSessions' = sessionsWithout(everyConnection)
    BY <1>5 DEF Cleanup
  <2> QED BY <2>1, <2>2, <2>3, EndpointsSurvive
<1>6. CASE Environment
  BY <1>1, <1>6
     DEF Environment, PeerConnect, PeerLeave, TimePasses, Stop, EpollFails, AcceptFails,
         RegisterFails
<1>7. CASE MainThread
  BY <1>1, <1>3, <1>4, <1>5, <1>7
     DEF MainThread, LoopTop, PollDone, TakePending, ReapDone, EpollWait, DispatchListen,
         DispatchError, DispatchRead, AcceptDone, ReadDone, LoopExit
<1>8. CASE HeartbeatThread
  BY <1>1, <1>8 DEF HeartbeatThread, HbCheck, HbLoop, HbPush
<1>9. CASE Terminated \/ UNCHANGED vars
  BY <1>1, <1>9 DEF Terminated, vars
<1> QED BY <1>2, <1>6, <1>7, <1>8, <1>9 DEF Next

\* cleanupFileSessionsForFd: file data and answers are relayed between the two connections of
\* the offer only, however descriptors are reused and whichever files are offered again.
THEOREM RelayEndpoints == Spec => []SessionEndpoints
<1>1. Init => SessionEndpoints
  BY DEF Init, SessionEndpoints
<1>2. Base /\ SessionEndpoints /\ [Next]_vars => SessionEndpoints'
  BY EndpointsStep
<1> QED BY <1>1, <1>2, BaseInvariant, PTL DEF Spec

\* No step leaves bytes of one connection to another.
LEMMA BufferStep ==
  ASSUME Base, BufferOwner, [Next]_vars
  PROVE  BufferOwner'
<1> USE DEF kernelVars, handlerVars, closeVars, dataVars, hbVars, loopVars
<1>1. ASSUME UNCHANGED <<sock, recvBufs>>
      PROVE  BufferOwner'
  BY <1>1 DEF BufferOwner
<1>2. CASE Message
  <2>1. UNCHANGED sock
    BY <1>2, MessageFrame
  <2>2. \/ recvBufs' = [recvBufs EXCEPT ![cur] = None]
        \/ recvBufs' = [recvBufs EXCEPT ![cur] = sock[cur]]
    BY <1>2
       DEF Message, PartialMessage, Heartbeat, LoginAccepted, LoginRefused, Logout, ChatGroup,
           ChatPrivate, FileOfferRefused, UserListRequest, FileData, FileOffer,
           FileOfferResponse, Receive
  <2> QED BY <2>1, <2>2 DEF BufferOwner, Base, TypeOK
<1>3. CASE Reap
  <2>1. PICK fd \in Fds : handleClientDisconnect(fd)
    BY <1>3 DEF Reap, Base, TypeOK
  <2> QED BY <2>1, DisconnectFrame DEF BufferOwner, Base, TypeOK
<1>4. ASSUME NEW p \in Peers, NEW fd \in Fds, Accept(p, fd)
      PROVE  BufferOwner'
  BY <1>4 DEF Accept, LowestFree, BufferOwner, Base, TypeOK
<1>5. CASE Cleanup
  BY <1>5 DEF Cleanup, BufferOwner
<1>6. CASE Environment
  BY <1>1, <1>6
     DEF Environment, PeerConnect, PeerLeave, TimePasses, Stop, EpollFails, AcceptFails,
         RegisterFails
<1>7. CASE MainThread
  BY <1>1, <1>3, <1>4, <1>5, <1>7
     DEF MainThread, LoopTop, PollDone, TakePending, ReapDone, EpollWait, DispatchListen,
         DispatchError, DispatchRead, AcceptDone, ReadDone, LoopExit
<1>8. CASE HeartbeatThread
  BY <1>1, <1>8 DEF HeartbeatThread, HbCheck, HbLoop, HbPush
<1>9. CASE Terminated \/ UNCHANGED vars
  BY <1>1, <1>9 DEF Terminated, vars
<1> QED BY <1>2, <1>6, <1>7, <1>8, <1>9 DEF Next

\* ProtocolParser::removeClient: the bytes kept under a descriptor were received on the
\* connection it names now.
THEOREM BuffersOwned == Spec => []BufferOwner
<1>1. Init => BufferOwner
  BY DEF Init, BufferOwner
<1>2. Base /\ BufferOwner /\ [Next]_vars => BufferOwner'
  BY BufferStep
<1> QED BY <1>1, <1>2, BaseInvariant, PTL DEF Spec

----------------------------------------------------------------------------
(* Who is logged in. *)

\* The logged-in clients of one table are logged in, as the same, in the other.
Within(t, u) ==
  /\ getOnlineClients(t) \subseteq getOnlineClients(u)
  /\ \A fd \in getOnlineClients(t) : /\ t[fd].clientId = u[fd].clientId
                                    /\ t[fd].nickname = u[fd].nickname

\* Steps that log nobody in or out.
SameMembers == Within(clients', clients) /\ Within(clients, clients')

\* The clients that are online can be counted.
LEMMA OnlineFinite ==
  ASSUME NEW t
  PROVE  IsFiniteSet(getOnlineClients(t)) /\ getOnlineCount(t) \in Nat
<1>1. getOnlineClients(t) \in SUBSET Fds
  BY DEF getOnlineClients, getAllFds
<1> QED BY <1>1, FdsAssumption, FS_Subset, FS_CardinalityType DEF getOnlineCount

\* Only one's silence changes.
LEMMA SilenceKeepsMembers ==
  ASSUME Base, NEW fd \in Fds, clients[fd] # None, NEW b \in BOOLEAN,
         clients' = [clients EXCEPT ![fd].silent = b]
  PROVE  SameMembers
<1>1. clients[fd] \in ClientInfo /\ clients'[fd] = [clients[fd] EXCEPT !.silent = b]
  BY DEF Base, TypeOK, ClientTable
<1>2. clients'[fd] \in ClientInfo
  BY <1>1 DEF ClientInfo
<1>3. /\ clients'[fd] # None
      /\ clients'[fd].isOnline = clients[fd].isOnline
      /\ clients'[fd].clientId = clients[fd].clientId
      /\ clients'[fd].nickname = clients[fd].nickname
  BY <1>1, <1>2, NoneAssumption DEF ClientInfo
<1>4. \A g \in Fds \ {fd} : clients'[g] = clients[g]
  BY DEF Base, TypeOK, ClientTable
<1> QED BY <1>3, <1>4 DEF SameMembers, Within, getOnlineClients, getAllFds

\* The steps that change who is logged in: a login, a disconnect and the cleanup.
LEMMA MembersFrame ==
  ASSUME Base, [Next]_vars
  PROVE  \/ SameMembers
         \/ \E id \in ClientIds \cup {Empty}, nick \in Nicknames \cup {Empty} :
              LoginAccepted(id, nick)
         \/ Reap
         \/ Cleanup
<1> USE DEF kernelVars, handlerVars, closeVars, dataVars, hbVars, loopVars
<1>1. ASSUME UNCHANGED clients PROVE SameMembers
  BY <1>1 DEF SameMembers, Within
<1>2. ASSUME NEW fd \in Fds, TimePasses(fd) PROVE SameMembers
  BY <1>2, SilenceKeepsMembers DEF TimePasses
<1>3. CASE Heartbeat
  <2>1. cur \in Fds
    BY <1>3 DEF Heartbeat, Receive, Base, ThreadState
  <2> QED BY <1>1, <1>3, <2>1, SilenceKeepsMembers DEF Heartbeat, updateHeartbeat
<1>4. ASSUME NEW p \in Peers, NEW fd \in Fds, Accept(p, fd) PROVE SameMembers
  <2>1. clients[fd] = None
    BY <1>4 DEF Accept, LowestFree, Base, TablesAgree
  <2>2. clients' = [clients EXCEPT ![fd] = FreshInfo] /\ ~FreshInfo.isOnline
    BY <1>4 DEF Accept, addClient, FreshInfo
  <2> QED
    BY <2>1, <2>2 DEF SameMembers, Within, getOnlineClients, getAllFds, Base, TypeOK, ClientTable
<1>5. CASE Message
  BY <1>1, <1>3, <1>5
     DEF Message, PartialMessage, LoginRefused, Logout, ChatGroup, ChatPrivate, FileOfferRefused,
         UserListRequest, FileData, FileOffer, FileOfferResponse
<1>6. CASE Environment
  BY <1>1, <1>2, <1>6
     DEF Environment, PeerConnect, PeerLeave, Stop, EpollFails, AcceptFails, RegisterFails
<1>7. CASE MainThread
  BY <1>1, <1>4, <1>7
     DEF MainThread, LoopTop, PollDone, TakePending, ReapDone, EpollWait, DispatchListen,
         DispatchError, DispatchRead, AcceptDone, ReadDone, LoopExit
<1>8. CASE HeartbeatThread
  BY <1>1, <1>8 DEF HeartbeatThread, HbCheck, HbLoop, HbPush
<1>9. CASE Terminated \/ UNCHANGED vars
  BY <1>1, <1>9 DEF Terminated, vars
<1> QED BY <1>5, <1>6, <1>7, <1>8, <1>9 DEF Next

\* Losing members, or none, keeps identities unique.
LEMMA FewerUnique ==
  ASSUME UniqueIdentity, Within(clients', clients)
  PROVE  UniqueIdentity'
<1>1. getOnlineCount(clients') <= getOnlineCount(clients)
  BY OnlineFinite, FS_Subset DEF Within, getOnlineCount
<1>2. getOnlineCount(clients') <= kMaxOnlineClients
  BY <1>1, OnlineFinite, ServerAssumption DEF UniqueIdentity
<1> QED BY <1>2 DEF UniqueIdentity, Within, Online

\* A disconnected client is no member any more.
LEMMA RemovalWithin ==
  ASSUME Base, NEW S, \A fd \in Fds : clients'[fd] = IF fd \in S THEN None ELSE clients[fd]
  PROVE  Within(clients', clients)
BY DEF Within, getOnlineClients, getAllFds

\* A login that handleMessage accepts brings in no name or id twice.
LEMMA LoginUnique ==
  ASSUME Base, UniqueIdentity,
         NEW id \in ClientIds \cup {Empty}, NEW nick \in Nicknames \cup {Empty},
         LoginAccepted(id, nick)
  PROVE  UniqueIdentity'
<1>1. /\ cur \in Fds /\ canLogin(cur, id, nick)
      /\ clients' = setClientIdentity(clients, cur, id, nick)
  BY DEF LoginAccepted, Receive, Base, ThreadState
<1>2. clients[cur] \in ClientInfo
  BY <1>1 DEF canLogin, Base, TypeOK, ClientTable
<1>3. clients'[cur] = [clients[cur] EXCEPT !.clientId = id, !.nickname = nick, !.isOnline = TRUE]
  BY <1>1 DEF setClientIdentity, Base, TypeOK, ClientTable
<1>4. clients'[cur].clientId = id /\ clients'[cur].nickname = nick
  BY <1>2, <1>3 DEF ClientInfo
<1>5. \A fd \in Fds \ {cur} : clients'[fd] = clients[fd]
  BY <1>1 DEF setClientIdentity, Base, TypeOK, ClientTable
<1>6. Online' \subseteq Online \cup {cur} /\ \A fd \in Online' \ {cur} : fd \in Online /\ fd \in Fds
  BY <1>5 DEF Online, getOnlineClients, getAllFds
<1>7. \A fd \in Online \ {cur} : clients[fd].clientId # id /\ clients[fd].nickname # nick
  BY <1>1 DEF canLogin, isClientIdOnline, isNicknameOnline, Online
<1>8. getOnlineCount(clients') <= kMaxOnlineClients
  <2>1. getOnlineCount(clients) < kMaxOnlineClients
    BY <1>1 DEF canLogin
  <2>2. /\ IsFiniteSet(Online \cup {cur})
        /\ Cardinality(Online \cup {cur}) <= getOnlineCount(clients) + 1
    BY OnlineFinite, FS_AddElement DEF Online, getOnlineCount
  <2>3. getOnlineCount(clients') <= Cardinality(Online \cup {cur})
    BY <1>6, <2>2, FS_Subset DEF Online, getOnlineCount
  <2>4. Cardinality(Online \cup {cur}) \in Nat
    BY <2>2, FS_CardinalityType
  <2> QED BY <2>1, <2>2, <2>3, <2>4, OnlineFinite, ServerAssumption
<1> QED
  BY <1>1, <1>4, <1>5, <1>6, <1>7, <1>8 DEF UniqueIdentity, canLogin

\* MSG_LOGIN_REQ: for every number of connections and every limit, the logged-in clients differ
\* in client id and nickname and are no more than the limit.
THEOREM IdentitiesUnique == Spec => []UniqueIdentity
<1>1. Init => UniqueIdentity
  <2> SUFFICES ASSUME Init PROVE UniqueIdentity
    OBVIOUS
  <2>1. Online = {}
    BY DEF Init, Online, getOnlineClients, getAllFds
  <2>2. getOnlineCount(clients) = 0
    BY <2>1, FS_EmptySet DEF Online, getOnlineCount
  <2> QED BY <2>1, <2>2, ServerAssumption DEF UniqueIdentity
<1>2. ASSUME Base, UniqueIdentity, [Next]_vars PROVE UniqueIdentity'
  <2>1. CASE SameMembers
    BY <1>2, <2>1, FewerUnique DEF SameMembers
  <2>2. CASE Reap
    <3>1. PICK fd \in Fds : handleClientDisconnect(fd)
      BY <1>2, <2>2 DEF Reap, Base, TypeOK
    <3>2. \A g \in Fds : clients'[g] = IF g \in {fd} THEN None ELSE clients[g]
      BY <1>2, <3>1, DisconnectFrame DEF Base, TypeOK, ClientTable
    <3> QED BY <1>2, <3>2, RemovalWithin, FewerUnique
  <2>3. CASE Cleanup
    <3>1. \A g \in Fds : clients'[g] = IF g \in everyConnection THEN None ELSE clients[g]
      BY <2>3 DEF Cleanup
    <3> QED BY <1>2, <3>1, RemovalWithin, FewerUnique
  <2> QED BY <1>2, <2>1, <2>2, <2>3, MembersFrame, LoginUnique
<1> QED BY <1>1, <1>2, BaseInvariant, PTL DEF Spec

----------------------------------------------------------------------------
(* What the clients are told. *)

\* The same members make the same list.
LEMMA SameList ==
  ASSUME SameMembers
  PROVE  Online' = Online /\ UserList(clients') = UserList(clients)
BY DEF SameMembers, Within, Online, UserList

\* Nothing is announced, except perhaps the present list.
LEMMA ListsKept ==
  ASSUME Base, UserListConverged, SameMembers, closing \subseteq closing', running' => running,
         \/ UNCHANGED userLists
         \/ \E T \in SUBSET Fds : userLists' = Announce(T, UserList(clients))
  PROVE  UserListConverged'
<1>1. \A fd \in Online : fd \in Fds
  BY DEF Online, getOnlineClients, getAllFds
<1> QED BY <1>1, SameList DEF UserListConverged, Announce

\* No step leaves a client that stays with a user list that is out of date.
LEMMA ListsStep ==
  ASSUME Base, UserListConverged, [Next]_vars
  PROVE  UserListConverged'
<1> USE DEF kernelVars, handlerVars, closeVars, dataVars, hbVars, loopVars
<1>1. ASSUME NEW id \in ClientIds \cup {Empty}, NEW nick \in Nicknames \cup {Empty},
             LoginAccepted(id, nick)
      PROVE  UserListConverged'
  <2>1. PICK F \in SendOutcomes({cur} \cup getOnlineClients(clients')) :
          /\ RequestClose(F)
          /\ userLists' = Announce(getOnlineClients(clients') \ F, UserList(clients'))
    BY <1>1 DEF LoginAccepted
  <2>2. \A fd \in Online' : fd \in Fds
    BY DEF Online, getOnlineClients, getAllFds
  <2> QED BY <2>1, <2>2 DEF RequestClose, Announce, UserListConverged, Online
<1>2. CASE Reap
  <2>1. PICK fd \in Fds : handleClientDisconnect(fd) /\ UNCHANGED running
    BY <1>2 DEF Reap, Base, TypeOK
  <2>2. PICK F \in SendOutcomes(audience(fd)) :
          /\ closing' = (closing \ {fd}) \cup F
          /\ userLists' = [Announce(audience(fd) \ F, UserList(clients')) EXCEPT ![fd] = {}]
    BY <2>1 DEF handleClientDisconnect
  <2>3. Online' = Online \ {fd} /\ Online' \subseteq Fds
    BY <2>1, DisconnectFrame DEF Online, getOnlineClients, getAllFds, Base, TypeOK, ClientTable
  <2>4. ASSUME running', NEW g \in Online' \ closing'
        PROVE  userLists'[g] = UserList(clients')
    <3>1. g \in audience(fd) \ F /\ g # fd /\ g \in Fds
      BY <2>1, <2>2, <2>3, <2>4 DEF audience
    <3> QED BY <2>2, <3>1 DEF Announce
  <2> QED BY <2>4 DEF UserListConverged
<1>3. CASE Cleanup
  <2>1. Online' = {}
    BY <1>3 DEF Cleanup, everyConnection, Online, getOnlineClients, getAllFds
  <2> QED BY <2>1 DEF UserListConverged
<1>4. CASE SameMembers /\ Message
  <2>1. closing \subseteq closing' /\ UNCHANGED running
    BY <1>4, MessageFrame
  <2>2. CASE UserListRequest
    <3>1. PICK F \in SendOutcomes({cur}) : userLists' = Announce({cur} \ F, UserList(clients))
      BY <2>2 DEF UserListRequest
    <3>2. {cur} \ F \in SUBSET Fds
      BY <2>2 DEF UserListRequest, Receive, Base, ThreadState
    <3> QED BY <1>4, <2>1, <3>1, <3>2, ListsKept
  <2>3. \/ UNCHANGED userLists
        \/ UserListRequest
        \/ \E id \in ClientIds \cup {Empty}, nick \in Nicknames \cup {Empty} :
             LoginAccepted(id, nick)
    BY <1>4
       DEF Message, PartialMessage, Heartbeat, LoginRefused, Logout, ChatGroup, ChatPrivate,
           FileOfferRefused, FileData, FileOffer, FileOfferResponse
  <2> QED BY <1>1, <1>4, <2>1, <2>2, <2>3, ListsKept
<1>5. CASE SameMembers /\ Environment
  <2>1. closing \subseteq closing' /\ (running' => running) /\ UNCHANGED userLists
    BY <1>5
       DEF Environment, PeerConnect, PeerLeave, TimePasses, Stop, EpollFails, AcceptFails,
           RegisterFails
  <2> QED BY <1>5, <2>1, ListsKept
<1>6. CASE SameMembers /\ MainThread
  <2>1. \/ Reap \/ Cleanup
        \/ closing \subseteq closing' /\ UNCHANGED <<running, userLists>>
    BY <1>6
       DEF MainThread, LoopTop, PollDone, TakePending, ReapDone, EpollWait, DispatchListen,
           DispatchError, RequestClose, DispatchRead, Accept, AcceptDone, ReadDone, LoopExit
  <2> QED BY <1>2, <1>3, <1>6, <2>1, ListsKept
<1>7. CASE SameMembers /\ (HeartbeatThread \/ Terminated \/ UNCHANGED vars)
  <2>1. UNCHANGED <<closing, running, userLists>>
    BY <1>7 DEF HeartbeatThread, HbCheck, HbLoop, HbPush, Terminated, vars
  <2> QED BY <1>7, <2>1, ListsKept
<1> QED
  BY <1>1, <1>2, <1>3, <1>4, <1>5, <1>6, <1>7, MembersFrame DEF Next

\* broadcastUserList: while the server runs, every logged-in client that is not about to be
\* closed has been sent the list of exactly the clients logged in now, whichever sends failed.
THEOREM ListsConverged == Spec => []UserListConverged
<1>1. Init => UserListConverged
  BY DEF Init, UserListConverged, Online, getOnlineClients, getAllFds
<1>2. Base /\ UserListConverged /\ [Next]_vars => UserListConverged'
  BY ListsStep
<1> QED BY <1>1, <1>2, BaseInvariant, PTL DEF Spec

=============================================================================
