------------------------------ MODULE RoomProofs ------------------------------
(***************************************************************************)
(* Server implements Room, for every set of descriptors, peers and names   *)
(* and every limit: whatever the two threads and the peers interleave, the *)
(* users see people come in, be told who is there, and leave.              *)
(***************************************************************************)
EXTENDS ServerProofs

----------------------------------------------------------------------------
(* A descriptor for every connection, and one only. *)

\* Room speaks of people where the server's tables speak of descriptors.  A peer is never on two
\* descriptors, because it must be closed before it connects again, and is accepted once.
Connections ==
  /\ \A a, b \in Fds : sock[a] # None /\ sock[a] = sock[b] => a = b
  /\ \A fd \in Fds : sock[fd] # None => sock[fd] \notin backlog /\ remote[sock[fd]] # "closed"
  /\ \A p \in backlog : remote[p] # "closed"

\* Only those logged in have been sent a list; the loop is left only after stop().
Audience ==
  /\ \A fd \in Fds : userLists[fd] # {} => fd \in Online
  /\ mainPc \in {"join", "done"} => ~running

RoomBase == Base /\ Connections /\ Audience

\* No step, whatever handler takes it, puts a peer on two descriptors.
LEMMA ConnectionsStep ==
  ASSUME Base, Connections, [Next]_vars
  PROVE  Connections'
<1> USE DEF kernelVars, handlerVars, closeVars, dataVars, hbVars, loopVars
<1>1. ASSUME UNCHANGED <<sock, remote, backlog>>
      PROVE  Connections'
  BY <1>1 DEF Connections
<1>2. CASE Message
  BY <1>1, <1>2, MessageFrame
<1>3. ASSUME NEW p \in Peers, PeerConnect(p)
      PROVE  Connections'
  BY <1>3 DEF PeerConnect, Connections, Base, TypeOK
<1>4. ASSUME NEW p \in Peers, NEW how \in {"fin", "reset"}, PeerLeave(p, how)
      PROVE  Connections'
  BY <1>4 DEF PeerLeave, Connections, Base, TypeOK
<1>5. ASSUME NEW p \in Peers, RegisterFails(p)
      PROVE  Connections'
  BY <1>5 DEF RegisterFails, Connections, Base, TypeOK
\* The peer a failing accept() drops leaves the queue and was on no descriptor.
<1>6. CASE AcceptFails
  BY <1>6, ServerAssumption DEF AcceptFails, Connections, Base, TypeOK
<1>7. CASE Environment
  BY <1>1, <1>3, <1>4, <1>5, <1>6, <1>7 DEF Environment, TimePasses, Stop, EpollFails
\* Closing a descriptor closes the peer that was on it, and no other descriptor is that peer's.
<1>8. CASE Reap
  <2>1. PICK fd \in Fds : handleClientDisconnect(fd) /\ UNCHANGED backlog
    BY <1>8 DEF Reap, Base, TypeOK
  <2>2. sock' = [sock EXCEPT ![fd] = None] /\ remote' = hangUp(fd)
    BY <2>1 DEF handleClientDisconnect
  <2>3. \A g \in Fds : sock'[g] = IF g = fd THEN None ELSE sock[g]
    BY <2>2 DEF Base, TypeOK
  <2>4. \A p \in Peers : p # sock[fd] => remote'[p] = remote[p]
    BY <2>2 DEF hangUp, Base, TypeOK
  <2>5. \A p \in backlog : p # sock[fd]
    BY ServerAssumption DEF Connections, Base, TypeOK
  <2>6. \A g \in Fds : sock'[g] # None => g # fd /\ sock[g] \in Peers /\ sock[g] # sock[fd]
    BY <2>3 DEF Connections, Base, TypeOK
  <2>7. \A p \in backlog : p \in Peers
    BY DEF Base, TypeOK
  <2> QED BY <2>1, <2>3, <2>4, <2>5, <2>6, <2>7 DEF Connections
\* The accept queue names nobody who is on a descriptor.
<1>9. ASSUME NEW p \in Peers, NEW fd \in Fds, Accept(p, fd)
      PROVE  Connections'
  <2>1. \A g \in Fds : sock'[g] = IF g = fd THEN p ELSE sock[g]
    BY <1>9 DEF Accept, Base, TypeOK
  <2>2. p \in backlog /\ backlog' = backlog \ {p} /\ UNCHANGED remote
    BY <1>9 DEF Accept
  <2> QED BY <2>1, <2>2 DEF Connections
<1>10. CASE Cleanup
  <2>1. \A fd \in Fds : sock'[fd] = None
    BY <1>10 DEF Cleanup, everyConnection, getAllFds, Base, TablesAgree
  <2> QED BY <1>10, <2>1 DEF Cleanup, Connections
<1>11. CASE MainThread
  BY <1>1, <1>8, <1>9, <1>10, <1>11
     DEF MainThread, LoopTop, PollDone, TakePending, ReapDone, EpollWait, DispatchListen,
         DispatchError, DispatchRead, AcceptDone, ReadDone, LoopExit
<1>12. CASE HeartbeatThread
  BY <1>1, <1>12 DEF HeartbeatThread, HbCheck, HbLoop, HbPush
<1>13. CASE Terminated \/ UNCHANGED vars
  BY <1>1, <1>13 DEF Terminated, vars
<1> QED BY <1>2, <1>7, <1>11, <1>12, <1>13 DEF Next

\* A login gives cur its identity and logs it in, and changes nobody else's entry.
LEMMA LoginRename ==
  ASSUME Base, NEW id \in ClientIds \cup {Empty}, NEW nick \in Nicknames \cup {Empty},
         LoginAccepted(id, nick)
  PROVE  /\ cur \in Fds /\ canLogin(cur, id, nick)
         /\ id \in ClientIds /\ nick \in Nicknames
         /\ Online' = Online \cup {cur}
         /\ clients'[cur].clientId = id /\ clients'[cur].nickname = nick
         /\ \A fd \in Fds \ {cur} : clients'[fd] = clients[fd]
<1>1. /\ cur \in Fds /\ canLogin(cur, id, nick)
      /\ clients' = setClientIdentity(clients, cur, id, nick)
  BY DEF LoginAccepted, Receive, Base, ThreadState
<1>2. clients[cur] \in ClientInfo
  BY <1>1 DEF canLogin, Base, TypeOK, ClientTable
<1>3. clients'[cur] = [clients[cur] EXCEPT !.clientId = id, !.nickname = nick, !.isOnline = TRUE]
  BY <1>1 DEF setClientIdentity, Base, TypeOK, ClientTable
<1>4. /\ clients'[cur] \in ClientInfo /\ clients'[cur].isOnline
      /\ clients'[cur].clientId = id /\ clients'[cur].nickname = nick
  BY <1>2, <1>3 DEF ClientInfo
<1>5. \A fd \in Fds \ {cur} : clients'[fd] = clients[fd]
  BY <1>1 DEF setClientIdentity, Base, TypeOK, ClientTable
<1>6. id \in ClientIds /\ nick \in Nicknames
  BY <1>1 DEF canLogin
<1>7. cur \in Online'
  BY <1>1, <1>4, NoneAssumption DEF Online, getOnlineClients, getAllFds
<1>8. Online' = Online \cup {cur}
  BY <1>5, <1>7 DEF Online, getOnlineClients, getAllFds
<1> QED BY <1>1, <1>4, <1>5, <1>6, <1>8

\* Who has been sent a list: a step that logs nobody in or out adds at most its own connection.
LEMMA AudienceStep ==
  ASSUME Base, Audience, [Next]_vars
  PROVE  Audience'
<1> USE DEF kernelVars, handlerVars, closeVars, dataVars, hbVars, loopVars
<1>1. mainPc' \in {"join", "done"} => ~running'
  <2>1. CASE Message
    BY <2>1, MessageFrame DEF Audience
  <2>2. CASE Environment
    BY <2>2
       DEF Environment, PeerConnect, PeerLeave, TimePasses, Stop, EpollFails, AcceptFails,
           RegisterFails, Audience
  <2>3. CASE MainThread
    BY <2>3
       DEF MainThread, LoopTop, PollDone, TakePending, Reap, ReapDone, Reaping, EpollWait,
           DispatchListen, DispatchError, DispatchRead, Accept, AcceptDone, ReadDone, LoopExit,
           Cleanup, Audience
  <2>4. CASE HeartbeatThread
    BY <2>4 DEF HeartbeatThread, HbCheck, HbLoop, HbPush, Audience
  <2>5. CASE Terminated \/ UNCHANGED vars
    BY <2>5 DEF Terminated, vars, Audience
  <2> QED BY <2>1, <2>2, <2>3, <2>4, <2>5 DEF Next
<1>2. ASSUME NEW fd \in Fds, userLists'[fd] # {}
      PROVE  fd \in Online'
  <2>1. ASSUME SameMembers, UNCHANGED userLists
        PROVE  fd \in Online'
    BY <1>2, <2>1, SameList DEF Audience
  <2>2. CASE UserListRequest
    <3>1. PICK F : userLists' = Announce({cur} \ F, UserList(clients))
      BY <2>2 DEF UserListRequest
    <3>2. UNCHANGED clients /\ (fd = cur => fd \in Online)
      BY <2>2 DEF UserListRequest, Known, Online, getOnlineClients, getAllFds
    <3> QED BY <1>2, <3>1, <3>2 DEF Announce, Audience, Online
  <2>3. ASSUME NEW id \in ClientIds \cup {Empty}, NEW nick \in Nicknames \cup {Empty},
               LoginAccepted(id, nick)
        PROVE  fd \in Online'
    <3>1. PICK F : userLists' = Announce(getOnlineClients(clients') \ F, UserList(clients'))
      BY <2>3 DEF LoginAccepted
    <3>2. fd \in Online => fd \in Online'
      BY <2>3, LoginRename DEF Online
    <3> QED BY <1>2, <3>1, <3>2 DEF Announce, Audience, Online
  <2>4. CASE Reap
    <3>1. PICK gone \in Fds : handleClientDisconnect(gone)
      BY <2>4 DEF Reap, Base, TypeOK
    <3>2. PICK F : userLists' = [Announce(audience(gone) \ F, UserList(clients')) EXCEPT ![gone] = {}]
      BY <3>1 DEF handleClientDisconnect
    <3>3. Online' = Online \ {gone}
      BY <3>1, DisconnectFrame DEF Online, getOnlineClients, getAllFds, Base, TypeOK, ClientTable
    <3> QED BY <1>2, <3>2, <3>3 DEF Announce, audience, Audience
  <2>5. CASE Cleanup
    BY <1>2, <2>5 DEF Cleanup, everyConnection, Audience, Online, getOnlineClients
  <2>6. \/ UNCHANGED userLists
        \/ UserListRequest \/ Reap \/ Cleanup
        \/ \E id \in ClientIds \cup {Empty}, nick \in Nicknames \cup {Empty} :
             LoginAccepted(id, nick)
    BY DEF Next, vars, Terminated,
           Environment, PeerConnect, PeerLeave, TimePasses, Stop, EpollFails, AcceptFails,
           RegisterFails,
           Message, PartialMessage, Heartbeat, LoginRefused, Logout, ChatGroup, ChatPrivate,
           FileOfferRefused, FileData, FileOffer, FileOfferResponse,
           MainThread, LoopTop, PollDone, TakePending, ReapDone, EpollWait, DispatchListen,
           DispatchError, DispatchRead, Accept, AcceptDone, ReadDone, LoopExit,
           HeartbeatThread, HbCheck, HbLoop, HbPush
  <2> QED BY <2>1, <2>2, <2>3, <2>4, <2>5, <2>6, MembersFrame
<1> QED BY <1>1, <1>2 DEF Audience

\* The inductive invariant of the refinement.
LEMMA RoomBaseInvariant == Spec => [](RoomBase /\ UserListConverged)
<1>1. Init => Connections /\ Audience
  BY DEF Init, Connections, Audience
<1>2. Base /\ Connections /\ Audience /\ [Next]_vars => Connections' /\ Audience'
  BY ConnectionsStep, AudienceStep
<1>3. Base /\ Connections /\ Audience => RoomBase
  BY DEF RoomBase
<1> QED BY <1>1, <1>2, <1>3, BaseInvariant, ListsConverged, PTL DEF Spec

----------------------------------------------------------------------------
(* The room that a table of clients, a list for each connection and the closing connections make. *)

On(s, t, p) == {fd \in getOnlineClients(t) : s[fd] = p}

RoomMembers(s, t) == [p \in Peers |-> {<<t[fd].clientId, t[fd].nickname>> : fd \in On(s, t, p)}]

RoomLists(s, t, l) == [p \in Peers |-> UNION {l[fd] : fd \in On(s, t, p)}]

RoomLeaving(s, c) == {s[fd] : fd \in c}

\* The variables of Room are these, now and after a step.
LEMMA RoomVariables ==
  /\ [p \in Peers |-> {<<clients[fd].clientId, clients[fd].nickname>> : fd \in member(p)}]
       = RoomMembers(sock, clients)
  /\ [p \in Peers |-> UNION {userLists[fd] : fd \in member(p)}] = RoomLists(sock, clients, userLists)
  /\ {sock[fd] : fd \in closing} = RoomLeaving(sock, closing)
BY DEF RoomMembers, RoomLists, RoomLeaving, On, member, Online

\* On which connections the room can be read off the tables.
Readable(s, t, c) ==
  /\ s \in [Fds -> Peers \cup {None}]
  /\ \A fd \in Fds : t[fd] = None <=> s[fd] = None
  /\ \A a, b \in Fds : s[a] # None /\ s[a] = s[b] => a = b
  /\ c \subseteq Fds /\ \A fd \in c : s[fd] # None

\* The server's tables read as a room, in every state of the server.
LEMMA TablesReadable ==
  ASSUME RoomBase
  PROVE  Readable(sock, clients, closing)
BY DEF RoomBase, Base, TypeOK, TablesAgree, Connections, Readable

\* A logged-in connection is one member, under its own name; a peer on none is outside.
LEMMA MemberFacts ==
  ASSUME NEW s, NEW t, NEW l, NEW c, Readable(s, t, c)
  PROVE  /\ \A fd \in getOnlineClients(t) :
              /\ fd \in Fds /\ s[fd] \in Peers
              /\ RoomMembers(s, t)[s[fd]] = {<<t[fd].clientId, t[fd].nickname>>}
              /\ RoomLists(s, t, l)[s[fd]] = l[fd]
         /\ \A p \in Peers : (\A fd \in getOnlineClients(t) : s[fd] # p) =>
              RoomMembers(s, t)[p] = {} /\ RoomLists(s, t, l)[p] = {}
         /\ \A fd \in Fds : s[fd] # None => (s[fd] \in RoomLeaving(s, c) <=> fd \in c)
         /\ RoomLeaving(s, c) \subseteq Peers
<1>1. ASSUME NEW fd \in getOnlineClients(t)
      PROVE  fd \in Fds /\ s[fd] \in Peers /\ s[fd] # None /\ On(s, t, s[fd]) = {fd}
  BY DEF Readable, getOnlineClients, getAllFds, On
<1>2. ASSUME NEW p \in Peers, \A fd \in getOnlineClients(t) : s[fd] # p
      PROVE  On(s, t, p) = {}
  BY <1>2 DEF On
<1>3. /\ \A fd \in Fds : s[fd] # None => (s[fd] \in RoomLeaving(s, c) <=> fd \in c)
      /\ RoomLeaving(s, c) \subseteq Peers
  BY DEF Readable, RoomLeaving
<1>4. ASSUME NEW fd \in getOnlineClients(t)
      PROVE  /\ RoomMembers(s, t)[s[fd]] = {<<t[fd].clientId, t[fd].nickname>>}
             /\ RoomLists(s, t, l)[s[fd]] = l[fd]
  <2>1. /\ RoomMembers(s, t)[s[fd]] = {<<t[g].clientId, t[g].nickname>> : g \in {fd}}
        /\ RoomLists(s, t, l)[s[fd]] = UNION {l[g] : g \in {fd}}
    BY <1>1 DEF RoomMembers, RoomLists
  <2>2. UNION {l[g] : g \in {fd}} = l[fd]
    OBVIOUS
  <2>3. {<<t[g].clientId, t[g].nickname>> : g \in {fd}} = {<<t[fd].clientId, t[fd].nickname>>}
    OBVIOUS
  <2> QED BY <2>1, <2>2, <2>3
<1>5. ASSUME NEW p \in Peers, \A fd \in getOnlineClients(t) : s[fd] # p
      PROVE  RoomMembers(s, t)[p] = {} /\ RoomLists(s, t, l)[p] = {}
  BY <1>2, <1>5 DEF RoomMembers, RoomLists
<1> QED BY <1>1, <1>3, <1>4, <1>5

\* Everybody's names are the user list, and those inside are the peers of the logged-in clients.
LEMMA EverybodyFacts ==
  ASSUME NEW s, NEW t, NEW c, Readable(s, t, c)
  PROVE  /\ TheRoom!names(RoomMembers(s, t)) = UserList(t)
         /\ TheRoom!inside(RoomMembers(s, t)) = {s[fd] : fd \in getOnlineClients(t)}
<1>1. \A p \in Peers : RoomMembers(s, t)[p] = {<<t[fd].clientId, t[fd].nickname>> : fd \in On(s, t, p)}
  BY DEF RoomMembers
<1>2. \A fd \in getOnlineClients(t) : s[fd] \in Peers /\ fd \in On(s, t, s[fd])
  BY DEF Readable, getOnlineClients, getAllFds, On
<1>3. \A p \in Peers : On(s, t, p) \subseteq getOnlineClients(t) /\ \A fd \in On(s, t, p) : s[fd] = p
  BY DEF On
<1>4. TheRoom!names(RoomMembers(s, t)) = UserList(t)
  BY <1>1, <1>2, <1>3 DEF TheRoom!names, UserList
<1>5. TheRoom!inside(RoomMembers(s, t)) = {s[fd] : fd \in getOnlineClients(t)}
  <2>1. ASSUME NEW p \in Peers
        PROVE  RoomMembers(s, t)[p] # {} <=> \E fd \in getOnlineClients(t) : s[fd] = p
    <3> DEFINE name(fd) == <<t[fd].clientId, t[fd].nickname>>
    <3>1. RoomMembers(s, t)[p] = {name(fd) : fd \in On(s, t, p)}
      BY <1>1
    <3> HIDE DEF name
    <3>2. RoomMembers(s, t)[p] # {} <=> \E fd \in On(s, t, p) : TRUE
      BY <3>1
    <3> QED BY <3>2 DEF On
  <2>2. \A p : p \in TheRoom!inside(RoomMembers(s, t)) <=>
                p \in Peers /\ RoomMembers(s, t)[p] # {}
    BY DEF TheRoom!inside
  <2>3. \A p : p \in {s[fd] : fd \in getOnlineClients(t)} <=>
                \E fd \in getOnlineClients(t) : s[fd] = p
    OBVIOUS
  <2>4. \A p : p \in TheRoom!inside(RoomMembers(s, t))
                  <=> p \in {s[fd] : fd \in getOnlineClients(t)}
    BY <1>2, <2>1, <2>2, <2>3
  <2> QED BY <2>4
<1> QED BY <1>4, <1>5

----------------------------------------------------------------------------
(* The steps of the room, in these terms. *)

Members == RoomMembers(sock, clients)
Lists   == RoomLists(sock, clients, userLists)
Leaving == RoomLeaving(sock, closing)

\* Everybody who is not leaving is told who is there.
Told == \A p \in Peers :
  Lists'[p] = IF Members'[p] = {} THEN {}
              ELSE IF p \in Leaving' THEN Lists[p] ELSE UserList(clients')

\* The room is these four things.
LEMMA RoomState ==
  UNCHANGED <<Members, Lists, Leaving, running>> => UNCHANGED TheRoom!vars
BY DEF TheRoom!vars, Members, Lists, Leaving, RoomMembers, RoomLists, RoomLeaving, On, member, Online

\* The room counts as the server does.
LEMMA SameCardinality ==
  ASSUME NEW X
  PROVE  TheRoom!Cardinality(X) = Cardinality(X)
BY DEF TheRoom!Cardinality, Cardinality

\* What Lose, Close, End, Ask, Leave and Join of the room mean for the server's tables: a connection fails,
LEMMA LoseIs ==
  TheRoom!Lose <=> /\ Leaving \subseteq Leaving' /\ Leaving' \subseteq Peers
                   /\ UNCHANGED <<Members, Lists, running>>
BY DEF TheRoom!Lose,
       Members, Lists, Leaving, RoomMembers, RoomLists, RoomLeaving, On, member, Online

\* the server is told to stop,
LEMMA CloseIs ==
  TheRoom!Close <=> running /\ running' = FALSE /\ UNCHANGED <<Members, Lists, Leaving>>
BY DEF TheRoom!Close,
       Members, Lists, Leaving, RoomMembers, RoomLists, RoomLeaving, On, member, Online

\* its tables go,
LEMMA EndIs ==
  TheRoom!End <=> /\ ~running /\ UNCHANGED running
                  /\ Members' = [p \in Peers |-> {}] /\ Lists' = [p \in Peers |-> {}]
                  /\ Leaving' = {}
BY DEF TheRoom!End,
       Members, Lists, Leaving, RoomMembers, RoomLists, RoomLeaving, On, member, Online

\* a list is asked for,
LEMMA AskIs ==
  ASSUME NEW p \in Peers
  PROVE  TheRoom!Ask(p) <=> /\ p \in TheRoom!inside(Members) \ Leaving
                            /\ Lists' = [Lists EXCEPT ![p] = TheRoom!names(Members)]
                            /\ UNCHANGED <<Members, Leaving, running>>
BY DEF TheRoom!Ask,
       Members, Lists, Leaving, RoomMembers, RoomLists, RoomLeaving, On, member, Online

\* a member is gone,
LEMMA LeaveIs ==
  ASSUME NEW p \in Peers
  PROVE  TheRoom!Leave(p) <=>
           /\ p \in TheRoom!inside(Members) \cup Leaving
           /\ Members' = [Members EXCEPT ![p] = {}]
           /\ Leaving \ {p} \subseteq Leaving' /\ Leaving' \subseteq Peers \ {p}
           /\ IF running THEN TheRoom!Tell ELSE Lists' = [Lists EXCEPT ![p] = {}]
           /\ UNCHANGED running
BY DEF TheRoom!Leave,
       Members, Lists, Leaving, RoomMembers, RoomLists, RoomLeaving, On, member, Online

\* and a member is in.
LEMMA JoinIs ==
  ASSUME NEW p \in Peers, NEW id \in ClientIds, NEW nick \in Nicknames
  PROVE  TheRoom!Join(p, id, nick) <=>
           /\ Members' = [Members EXCEPT ![p] = {<<id, nick>>}]
           /\ \A q \in Peers \ {p} : \A name \in Members[q] : id # name[1] /\ nick # name[2]
           /\ Cardinality(TheRoom!inside(Members)) < kMaxOnlineClients
           /\ Leaving \subseteq Leaving' /\ Leaving' \subseteq Peers
           /\ TheRoom!Tell
           /\ UNCHANGED running
<1>1. Cardinality(TheRoom!inside(Members)) = TheRoom!Cardinality(TheRoom!inside(Members))
  BY SameCardinality
<1> QED
  BY <1>1
     DEF TheRoom!Join,
         Members, Lists, Leaving, RoomMembers, RoomLists, RoomLeaving, On, member, Online

\* The tables read as a room after a step, too.
LEMMA ReadableNext ==
  ASSUME RoomBase'
  PROVE  Readable(sock', clients', closing')
<1>1. sock' \in [Fds -> Peers \cup {None}] /\ closing' \subseteq Fds
  BY DEF RoomBase, Base, TypeOK
<1>2. \A fd \in Fds : /\ clients'[fd] = None <=> sock'[fd] = None
                      /\ fd \in closing' => sock'[fd] # None
  BY DEF RoomBase, Base, TablesAgree
<1>3. \A a, b \in Fds : sock'[a] # None /\ sock'[a] = sock'[b] => a = b
  BY DEF RoomBase, Connections
<1>4. \A fd \in closing' : sock'[fd] # None
  BY <1>1, <1>2
<1> QED BY <1>1, <1>2, <1>3, <1>4 DEF Readable

\* Who is online is a member on its own connection, and nobody else is.
LEMMA MembersNow ==
  ASSUME RoomBase
  PROVE  /\ \A fd \in Online :
              /\ fd \in Fds /\ sock[fd] \in Peers /\ sock[fd] # None
              /\ Members[sock[fd]] = {<<clients[fd].clientId, clients[fd].nickname>>}
              /\ Lists[sock[fd]] = userLists[fd]
              /\ sock[fd] \in Leaving <=> fd \in closing
              /\ sock[fd] \in TheRoom!inside(Members)
         /\ \A p \in Peers : (\A fd \in Online : sock[fd] # p) => Members[p] = {} /\ Lists[p] = {}
         /\ TheRoom!names(Members) = UserList(clients)
         /\ TheRoom!inside(Members) = {sock[fd] : fd \in Online}
         /\ Leaving \subseteq Peers
<1>1. Readable(sock, clients, closing)
  BY TablesReadable
<1>2. \A fd \in Online : fd \in Fds /\ sock[fd] # None
  BY <1>1 DEF Readable, Online, getOnlineClients, getAllFds
<1>3. /\ TheRoom!names(Members) = UserList(clients)
      /\ TheRoom!inside(Members) = {sock[fd] : fd \in Online}
  BY <1>1, EverybodyFacts DEF Members, Online
<1>4. ASSUME NEW fd \in Online
      PROVE  /\ sock[fd] \in Peers
             /\ Members[sock[fd]] = {<<clients[fd].clientId, clients[fd].nickname>>}
             /\ Lists[sock[fd]] = userLists[fd]
             /\ sock[fd] \in Leaving <=> fd \in closing
             /\ sock[fd] \in TheRoom!inside(Members)
  <2>1. fd \in getOnlineClients(clients)
    BY DEF Online
  <2> QED BY <1>1, <1>2, <1>3, <2>1, MemberFacts DEF Members, Lists, Leaving
<1>5. ASSUME NEW p \in Peers, \A fd \in Online : sock[fd] # p
      PROVE  Members[p] = {} /\ Lists[p] = {}
  BY <1>1, <1>5, MemberFacts DEF Members, Lists, Online
<1>6. Leaving \subseteq Peers
  BY <1>1, MemberFacts DEF Leaving
<1> QED BY <1>2, <1>3, <1>4, <1>5, <1>6

\* The same after a step.
LEMMA MembersNext ==
  ASSUME RoomBase'
  PROVE  /\ \A fd \in Online' :
              /\ fd \in Fds /\ sock'[fd] \in Peers /\ sock'[fd] # None
              /\ Members'[sock'[fd]] = {<<clients'[fd].clientId, clients'[fd].nickname>>}
              /\ Lists'[sock'[fd]] = userLists'[fd]
              /\ sock'[fd] \in Leaving' <=> fd \in closing'
         /\ \A p \in Peers : (\A fd \in Online' : sock'[fd] # p) => Members'[p] = {} /\ Lists'[p] = {}
         /\ Leaving' \subseteq Peers
<1>1. Readable(sock', clients', closing')
  BY ReadableNext
<1>2. \A fd \in Online' : fd \in Fds /\ sock'[fd] # None
  BY <1>1 DEF Readable, Online, getOnlineClients, getAllFds
<1>3. ASSUME NEW fd \in Online'
      PROVE  /\ sock'[fd] \in Peers
             /\ Members'[sock'[fd]] = {<<clients'[fd].clientId, clients'[fd].nickname>>}
             /\ Lists'[sock'[fd]] = userLists'[fd]
             /\ sock'[fd] \in Leaving' <=> fd \in closing'
  <2>1. fd \in getOnlineClients(clients')
    BY DEF Online
  <2> QED BY <1>1, <1>2, <2>1, MemberFacts DEF Members, Lists, Leaving
<1>4. ASSUME NEW p \in Peers, \A fd \in Online' : sock'[fd] # p
      PROVE  Members'[p] = {} /\ Lists'[p] = {}
  BY <1>1, <1>4, MemberFacts DEF Members, Lists, Online
<1>5. Leaving' \subseteq Peers
  BY <1>1, MemberFacts DEF Leaving
<1> QED BY <1>2, <1>3, <1>4, <1>5

\* When notifyUserList has told everybody, the room has.
LEMMA TellIs ==
  ASSUME RoomBase', Told
  PROVE  TheRoom!Tell
<1>1. TheRoom!Tell <=>
        Lists' = [p \in Peers |-> IF Members'[p] = {} THEN {}
                                  ELSE IF p \in Leaving' THEN Lists[p]
                                  ELSE TheRoom!names(Members')]
  BY DEF TheRoom!Tell,
         Members, Lists, Leaving, RoomMembers, RoomLists, RoomLeaving, On, member, Online
<1>2. TheRoom!names(Members') = UserList(clients')
  BY ReadableNext, EverybodyFacts DEF Members
<1>3. Lists' = [p \in Peers |-> Lists'[p]]
  BY DEF Lists, RoomLists
<1> QED BY <1>1, <1>2, <1>3 DEF Told

----------------------------------------------------------------------------
(* What the steps of the server are in the room. *)

\* Who is inside, and what they were told, depends on the logged-in connections only.
LEMMA NobodyMoves ==
  ASSUME SameMembers, \A fd \in Online : sock'[fd] = sock[fd] /\ userLists'[fd] = userLists[fd]
  PROVE  UNCHANGED <<Members, Lists>>
<1>1. \A p : On(sock', clients', p) = On(sock, clients, p)
  BY DEF SameMembers, Within, Online, On
<1>2. \A fd \in Online : /\ clients'[fd].clientId = clients[fd].clientId
                         /\ clients'[fd].nickname = clients[fd].nickname
  BY DEF SameMembers, Within, Online
<1>3. \A p : On(sock, clients, p) \subseteq Online
  BY DEF On, Online
<1>4. ASSUME NEW p
      PROVE  /\ {<<clients'[fd].clientId, clients'[fd].nickname>> : fd \in On(sock, clients, p)}
                  = {<<clients[fd].clientId, clients[fd].nickname>> : fd \in On(sock, clients, p)}
             /\ {userLists'[fd] : fd \in On(sock, clients, p)}
                  = {userLists[fd] : fd \in On(sock, clients, p)}
  BY <1>2, <1>3
<1>5. Members' = Members
  BY <1>1, <1>4 DEF Members, RoomMembers
<1>6. Lists' = Lists
  BY <1>1, <1>4 DEF Lists, RoomLists
<1> QED BY <1>5, <1>6

\* A step that logs nobody in or out and closes nothing that is leaving is a loss, of nobody
\* perhaps.
LEMMA LoseStep ==
  ASSUME RoomBase, RoomBase', SameMembers, UNCHANGED running,
         \A fd \in Online : sock'[fd] = sock[fd] /\ userLists'[fd] = userLists[fd],
         closing \subseteq closing', \A fd \in closing : sock'[fd] = sock[fd]
  PROVE  TheRoom!Lose
<1>1. UNCHANGED <<Members, Lists>>
  BY NobodyMoves
<1>2. Leaving \subseteq Leaving'
  BY DEF Leaving, RoomLeaving
<1>3. Leaving' \subseteq Peers
  BY ReadableNext, MemberFacts DEF Leaving
<1> QED BY <1>1, <1>2, <1>3, LoseIs

\* stop(), or a failing epoll_wait: only running_ changes.
LEMMA CloseStep ==
  ASSUME RoomBase, UNCHANGED <<sock, clients, closing, userLists>>, running' = FALSE
  PROVE  TheRoom!Close \/ UNCHANGED TheRoom!vars
<1>1. UNCHANGED <<Members, Lists, Leaving>>
  BY DEF Members, Lists, Leaving
<1>2. running \in BOOLEAN
  BY DEF RoomBase, Base, TypeOK
<1>3. CASE running
  BY <1>1, <1>3, CloseIs
<1>4. CASE ~running
  BY <1>1, <1>2, <1>4, RoomState
<1> QED BY <1>3, <1>4

\* cleanupAllClients closes every connection, after stop().
LEMMA EndStep ==
  ASSUME RoomBase, Cleanup
  PROVE  TheRoom!End
<1>1. getOnlineClients(clients') = {}
  BY DEF Cleanup, everyConnection, getOnlineClients, getAllFds
<1>2. \A p : On(sock', clients', p) = {}
  BY <1>1 DEF On
<1>3. Members' = [p \in Peers |-> {}] /\ Lists' = [p \in Peers |-> {}]
  BY <1>2 DEF Members, RoomMembers, Lists, RoomLists
<1>4. Leaving' = {}
  BY DEF Cleanup, Leaving, RoomLeaving
<1>5. ~running /\ UNCHANGED running
  BY DEF Cleanup, RoomBase, Audience
<1> QED BY <1>3, <1>4, <1>5, EndIs

\* A closing handler refuses to send, and every logged-in connection has one.
LEMMA ClosingRefuse ==
  ASSUME RoomBase, NEW T \in SUBSET Fds, NEW F \in SendOutcomes(T)
  PROVE  closing \cap T \subseteq F
BY DEF SendOutcomes, RoomBase, Base, TypeOK, TablesAgree

\* MSG_USER_LIST_REQ: the member asks, unless the answer fails and it is lost.
LEMMA AskStep ==
  ASSUME RoomBase, RoomBase', UserListRequest
  PROVE  TheRoom!Lose \/ \E p \in Peers : TheRoom!Ask(p)
<1>1. cur \in Fds /\ cur \in Online /\ sock[cur] # None
  BY DEF UserListRequest, Receive, Known, RoomBase, Base, ThreadState, Online, getOnlineClients,
         getAllFds
<1>2. UNCHANGED <<sock, clients, running>>
  BY DEF UserListRequest, Receive, kernelVars
<1>3. PICK F \in SendOutcomes({cur}) :
        RequestClose(F) /\ userLists' = Announce({cur} \ F, UserList(clients))
  BY DEF UserListRequest
<1>4. SameMembers
  BY <1>2 DEF SameMembers, Within
<1>5. F \subseteq {cur}
  BY <1>1, <1>3, SendOutcomesType
<1>6. CASE F = {cur}
  <2>1. \A fd \in Online : userLists'[fd] = userLists[fd]
    BY <1>3, <1>6 DEF Announce, Online, getOnlineClients, getAllFds
  <2>2. closing \subseteq closing'
    BY <1>3 DEF RequestClose
  <2> QED BY <1>2, <1>4, <2>1, <2>2, LoseStep
<1>7. CASE F = {}
  <2>1. cur \notin closing /\ UNCHANGED closing
    BY <1>1, <1>3, <1>7, ClosingRefuse DEF RequestClose
  <2>2. \A fd \in Fds : userLists'[fd] = IF fd = cur THEN UserList(clients) ELSE userLists[fd]
    BY <1>3, <1>7 DEF Announce
  <2>3. PICK p \in Peers : /\ p = sock[cur] /\ p \notin Leaving /\ p \in TheRoom!inside(Members)
                           /\ TheRoom!names(Members) = UserList(clients)
    BY <1>1, <2>1, MembersNow
  <2>4. UNCHANGED <<Members, Leaving, running>>
    BY <1>2, <2>1 DEF Members, Leaving
  <2>5. Lists' = [Lists EXCEPT ![p] = UserList(clients)]
    <3>1. Lists'[p] = UserList(clients)
      BY <1>1, <1>2, <2>2, <2>3, MembersNext DEF Online
    <3>2. ASSUME NEW q \in Peers \ {p}
          PROVE  Lists'[q] = Lists[q]
      <4>1. \A fd \in On(sock, clients, q) : userLists'[fd] = userLists[fd]
        BY <2>2, <2>3 DEF On, getOnlineClients, getAllFds
      <4> QED BY <1>2, <4>1 DEF Lists, RoomLists
    <3> QED BY <2>3, <3>1, <3>2 DEF Lists, RoomLists
  <2>6. TheRoom!Ask(p)
    BY <2>3, <2>4, <2>5, AskIs
  <2> QED BY <2>6
<1> QED BY <1>5, <1>6, <1>7

\* MSG_LOGIN_REQ: a peer comes in, or takes another name. Nobody inside has either, the room is
\* not full, and the list goes to everybody the sends do not fail on.
LEMMA JoinStep ==
  ASSUME RoomBase, RoomBase', NEW id \in ClientIds \cup {Empty}, NEW nick \in Nicknames \cup {Empty},
         LoginAccepted(id, nick)
  PROVE  \E p \in Peers : TheRoom!Join(p, id, nick) /\ id \in ClientIds /\ nick \in Nicknames
<1>1. /\ cur \in Fds /\ canLogin(cur, id, nick)
      /\ id \in ClientIds /\ nick \in Nicknames
      /\ Online' = Online \cup {cur}
      /\ clients'[cur].clientId = id /\ clients'[cur].nickname = nick
      /\ \A fd \in Fds \ {cur} : clients'[fd] = clients[fd]
  BY LoginRename DEF RoomBase
<1>2. UNCHANGED <<sock, running>>
  BY DEF LoginAccepted, Receive, kernelVars
<1>3. PICK F \in SendOutcomes({cur} \cup Online') :
        RequestClose(F) /\ userLists' = Announce(Online' \ F, UserList(clients'))
  BY DEF LoginAccepted, Online
<1>4. closing' = closing \cup F
  BY <1>3 DEF RequestClose
<1>5. PICK p \in Peers : p = sock[cur]
  BY <1>1, <1>2, MembersNext
<1>6. ASSUME NEW q \in Peers \ {p}
      PROVE  On(sock', clients', q) = On(sock, clients, q) /\ cur \notin On(sock, clients, q)
  BY <1>1, <1>2, <1>5 DEF On, Online, getOnlineClients, getAllFds
<1>7. Members' = [Members EXCEPT ![p] = {<<id, nick>>}]
  <2>1. Members'[p] = {<<id, nick>>}
    BY <1>1, <1>2, <1>5, MembersNext
  <2>2. ASSUME NEW q \in Peers \ {p}
        PROVE  Members'[q] = Members[q]
    <3>1. \A fd \in On(sock, clients, q) : clients'[fd] = clients[fd]
      BY <1>1, <1>6 DEF On, getOnlineClients, getAllFds
    <3> QED BY <1>6, <3>1 DEF Members, RoomMembers
  <2> QED BY <1>5, <2>1, <2>2 DEF Members, RoomMembers
<1>8. ASSUME NEW q \in Peers \ {p}, NEW name \in Members[q]
      PROVE  id # name[1] /\ nick # name[2]
  <2>1. PICK fd \in On(sock, clients, q) : name = <<clients[fd].clientId, clients[fd].nickname>>
    BY <1>8 DEF Members, RoomMembers
  <2>2. fd \in Online /\ fd # cur
    BY <1>6, <2>1 DEF On, Online
  <2> QED BY <1>1, <2>1, <2>2 DEF canLogin, isClientIdOnline, isNicknameOnline, Online
<1>9. Cardinality(TheRoom!inside(Members)) < kMaxOnlineClients
  <2>1. TheRoom!inside(Members) = {sock[fd] : fd \in Online}
    BY MembersNow
  <2>2. IsFiniteSet(Online) /\ Cardinality(Online) \in Nat /\ Cardinality(Online) < kMaxOnlineClients
    BY <1>1, OnlineFinite DEF canLogin, Online, getOnlineCount
  <2>3. /\ Cardinality({sock[fd] : fd \in Online}) <= Cardinality(Online)
        /\ Cardinality({sock[fd] : fd \in Online}) \in Nat
    <3> DEFINE f == [fd \in Online |-> sock[fd]]
               X == {sock[fd] : fd \in Online}
    <3>1. f \in Surjection(Online, X)
      BY DEF Surjection
    <3>2. IsFiniteSet(X) /\ Cardinality(X) <= Cardinality(Online)
      BY <2>2, <3>1, FS_Surjection
    <3> QED BY <3>2, FS_CardinalityType
  <2> QED BY <2>1, <2>2, <2>3, ServerAssumption
<1>10. Leaving \subseteq Leaving' /\ Leaving' \subseteq Peers
  <2>1. Leaving \subseteq Leaving'
    BY <1>2, <1>4 DEF Leaving, RoomLeaving
  <2>2. Leaving' \subseteq Peers
    BY MembersNext
  <2> QED BY <2>1, <2>2
<1>11. Told
  <2>1. {cur} \cup Online' \in SUBSET Fds
    BY <1>1 DEF Online, getOnlineClients, getAllFds
  <2>2. closing \cap Online' \subseteq F
    BY <1>3, <2>1, ClosingRefuse
  <2>3. ASSUME NEW fd \in Online'
        PROVE  Lists'[sock[fd]] = IF sock[fd] \in Leaving' THEN Lists[sock[fd]] ELSE UserList(clients')
    <3>1. Lists'[sock[fd]] = userLists'[fd] /\ (sock[fd] \in Leaving' <=> fd \in closing')
      BY <1>2, MembersNext
    <3>2. CASE fd \notin closing'
      BY <1>3, <1>4, <2>1, <3>1, <3>2 DEF Announce
    <3>3. CASE fd \in closing'
      <4>1. fd \in F /\ userLists'[fd] = userLists[fd]
        BY <1>3, <1>4, <2>1, <2>2, <3>3 DEF Announce
      <4>2. userLists[fd] = Lists[sock[fd]]
        <5>1. CASE fd \in Online
          BY <5>1, MembersNow
        <5>2. CASE fd \notin Online
          <6>1. userLists[fd] = {}
            BY <2>1, <5>2 DEF RoomBase, Audience
          <6>2. fd = cur
            BY <1>1, <5>2
          <6>3. \A g \in Online : sock[g] # p
            BY <1>1, <1>5, <5>2, <6>2, MembersNow DEF RoomBase, Connections
          <6> QED BY <1>5, <6>1, <6>2, <6>3, MembersNow
        <5> QED BY <5>1, <5>2
      <4> QED BY <3>1, <3>3, <4>1, <4>2
    <3> QED BY <3>2, <3>3
  <2>4. ASSUME NEW q \in Peers, \A fd \in Online' : sock[fd] # q
        PROVE  Members'[q] = {} /\ Lists'[q] = {}
    BY <1>2, <2>4, MembersNext
  <2>5. \A fd \in Online' : Members'[sock[fd]] # {}
    BY <1>2, MembersNext
  <2>6. ASSUME NEW q \in Peers
        PROVE  Lists'[q] = IF Members'[q] = {} THEN {}
                           ELSE IF q \in Leaving' THEN Lists[q] ELSE UserList(clients')
    <3>1. CASE \E fd \in Online' : sock[fd] = q
      BY <2>3, <2>5, <3>1
    <3>2. CASE \A fd \in Online' : sock[fd] # q
      BY <2>4, <3>2
    <3> QED BY <3>1, <3>2
  <2> QED BY <2>6 DEF Told
<1>12. TheRoom!Join(p, id, nick)
  <2>1. TheRoom!Tell
    BY <1>11, TellIs
  <2>2. \A q \in Peers \ {p} : \A name \in Members[q] : id # name[1] /\ nick # name[2]
    BY <1>8
  <2>3. id \in ClientIds /\ nick \in Nicknames /\ UNCHANGED running
    BY <1>1, <1>2
  <2> QED BY <2>1, <2>2, <2>3, <1>7, <1>9, <1>10, JoinIs
<1> QED BY <1>1, <1>12

\* handleClientDisconnect: whoever is on the descriptor leaves, and the others are told while the
\* server runs. On a descriptor that is closed already, or whose connection is neither logged in
\* nor closing, nobody in the room notices: the list sent is the one they have.
LEMMA LeaveStep ==
  ASSUME RoomBase, RoomBase', UserListConverged, NEW fd \in Fds, handleClientDisconnect(fd),
         UNCHANGED running
  PROVE  TheRoom!Lose \/ \E p \in Peers : TheRoom!Leave(p)
<1>1. /\ sock' = [sock EXCEPT ![fd] = None]
      /\ clients' = [clients EXCEPT ![fd] = None]
  BY DisconnectFrame DEF RoomBase
<1>2. /\ \A g \in Fds : sock'[g] = IF g = fd THEN None ELSE sock[g]
      /\ \A g \in Fds \ {fd} : clients'[g] = clients[g]
      /\ Online' = Online \ {fd} /\ Online \subseteq Fds
  BY <1>1 DEF RoomBase, Base, TypeOK, ClientTable, Online, getOnlineClients, getAllFds
<1>3. PICK F \in SendOutcomes(audience(fd)) :
        /\ closing' = (closing \ {fd}) \cup F
        /\ userLists' = [Announce(audience(fd) \ F, UserList(clients')) EXCEPT ![fd] = {}]
  BY DEF handleClientDisconnect
<1>4. audience(fd) = IF running THEN Online' ELSE {}
  BY <1>2 DEF audience
<1>5. F \subseteq audience(fd) /\ closing \cap audience(fd) \subseteq F
  BY <1>2, <1>3, <1>4, SendOutcomesType, ClosingRefuse
<1>6. \A g \in Fds : userLists'[g] = IF g = fd THEN {}
                                      ELSE IF g \in audience(fd) \ F THEN UserList(clients')
                                      ELSE userLists[g]
  BY <1>3 DEF Announce
<1>7. closing \subseteq Fds /\ \A g \in closing : sock[g] # None
  BY TablesReadable DEF Readable
<1>8. CASE fd \notin Online \cup closing
  <2>1. SameMembers
    BY <1>2, <1>8 DEF SameMembers, Within, Online
  <2>2. UserList(clients') = UserList(clients)
    BY <2>1, SameList
  <2>3. \A g \in Online : sock'[g] = sock[g] /\ userLists'[g] = userLists[g]
    BY <1>2, <1>4, <1>5, <1>6, <1>8, <2>2 DEF UserListConverged
  <2>4. closing \subseteq closing' /\ \A g \in closing : sock'[g] = sock[g]
    BY <1>2, <1>3, <1>7, <1>8
  <2> QED BY <2>1, <2>3, <2>4, LoseStep
<1>9. CASE fd \in Online \cup closing
  <2>1. PICK p \in Peers : p = sock[fd]
    BY <1>7, <1>9, MembersNow, TablesReadable DEF Readable
  <2>2. \A g \in Fds \ {fd} : sock[g] # p /\ sock'[g] # p
    BY <1>2, <2>1, ServerAssumption DEF RoomBase, Connections
  <2>3. p \in TheRoom!inside(Members) \cup Leaving
    BY <1>9, <2>1, MembersNow DEF Leaving, RoomLeaving
  <2>4. ASSUME NEW q \in Peers \ {p}
        PROVE  /\ On(sock', clients', q) = On(sock, clients, q)
               /\ \A g \in On(sock, clients, q) : g \in Online /\ g # fd
    BY <1>2, <2>1 DEF On, Online
  <2>5. Members' = [Members EXCEPT ![p] = {}]
    <3>1. Members'[p] = {}
      BY <1>2, <2>2, MembersNext
    <3>2. ASSUME NEW q \in Peers \ {p}
          PROVE  Members'[q] = Members[q]
      <4>1. \A g \in On(sock, clients, q) : clients'[g] = clients[g]
        BY <1>2, <2>4
      <4> QED BY <2>4, <4>1 DEF Members, RoomMembers
    <3> QED BY <3>1, <3>2 DEF Members, RoomMembers
  <2>6. Leaving \ {p} \subseteq Leaving'
    <3>1. ASSUME NEW g \in closing, sock[g] # p
          PROVE  g \in closing' /\ sock'[g] = sock[g]
      BY <1>2, <1>3, <1>7, <2>1, <3>1
    <3> QED BY <3>1 DEF Leaving, RoomLeaving
  <2>7. Leaving' \subseteq Peers \ {p}
    <3>1. \A g \in closing' : g \in Fds /\ sock'[g] # p
      BY <1>2, <2>2, ReadableNext, ServerAssumption DEF Readable
    <3> QED BY <3>1, MembersNext DEF Leaving, RoomLeaving
  <2>8. CASE running
    <3>1. ASSUME NEW g \in Online'
          PROVE  /\ Members'[sock[g]] # {}
                 /\ Lists'[sock[g]] = IF sock[g] \in Leaving' THEN Lists[sock[g]]
                                      ELSE UserList(clients')
      <4>1. g \in Fds /\ g # fd /\ g \in Online /\ g \in audience(fd) /\ sock'[g] = sock[g]
        BY <1>2, <1>4, <2>8
      <4>2. /\ Members'[sock[g]] # {} /\ Lists'[sock[g]] = userLists'[g]
            /\ Lists[sock[g]] = userLists[g]
            /\ sock[g] \in Leaving' <=> g \in closing'
        BY <4>1, MembersNow, MembersNext
      <4>3. g \in closing' <=> g \in F
        BY <1>3, <1>5, <4>1
      <4> QED BY <1>6, <4>1, <4>2, <4>3
    <3>2. ASSUME NEW q \in Peers
          PROVE  Lists'[q] = IF Members'[q] = {} THEN {}
                             ELSE IF q \in Leaving' THEN Lists[q] ELSE UserList(clients')
      <4>1. CASE \E g \in Online' : sock[g] = q
        BY <3>1, <4>1
      <4>2. CASE \A g \in Online' : sock[g] # q
        <5>1. \A g \in Online' : sock'[g] # q
          BY <1>2, <4>2
        <5> QED BY <5>1, MembersNext
      <4> QED BY <4>1, <4>2
    <3>3. TheRoom!Tell
      BY <3>2, TellIs DEF Told
    <3>4. TheRoom!Leave(p)
      BY <2>3, <2>5, <2>6, <2>7, <2>8, <3>3, LeaveIs
    <3> QED BY <3>4
  <2>9. CASE ~running
    <3>1. Lists'[p] = {}
      BY <1>2, <2>2, MembersNext
    <3>2. ASSUME NEW q \in Peers \ {p}
          PROVE  Lists'[q] = Lists[q]
      <4>1. \A g \in On(sock, clients, q) : userLists'[g] = userLists[g]
        BY <1>2, <1>4, <1>6, <2>4, <2>9
      <4> QED BY <2>4, <4>1 DEF Lists, RoomLists
    <3>3. Lists' = [Lists EXCEPT ![p] = {}]
      BY <3>1, <3>2 DEF Lists, RoomLists
    <3>4. TheRoom!Leave(p)
      BY <2>3, <2>5, <2>6, <2>7, <2>9, <3>3, LeaveIs
    <3> QED BY <3>4
  <2> QED BY <2>8, <2>9
<1> QED BY <1>8, <1>9

\* A step that changes no descriptor, sends no list and keeps what is closing is lost on the room.
LEMMA QuietStep ==
  ASSUME RoomBase, RoomBase', SameMembers, UNCHANGED <<sock, userLists, running>>,
         closing \subseteq closing'
  PROVE  TheRoom!Lose
BY LoseStep

\* Each step of the server is a step of the room, or leaves it as it is.
LEMMA RoomStep ==
  ASSUME RoomBase, RoomBase', UserListConverged, [Next]_vars
  PROVE  [TheRoom!Next]_TheRoom!vars
<1> USE DEF kernelVars, handlerVars, closeVars, dataVars, hbVars, loopVars
<1>1. ASSUME TheRoom!Lose \/ TheRoom!Close \/ TheRoom!End \/ UNCHANGED TheRoom!vars
      PROVE  [TheRoom!Next]_TheRoom!vars
  BY <1>1 DEF TheRoom!Next
<1>2. ASSUME NEW id \in ClientIds \cup {Empty}, NEW nick \in Nicknames \cup {Empty},
             LoginAccepted(id, nick)
      PROVE  [TheRoom!Next]_TheRoom!vars
  BY <1>2, JoinStep DEF TheRoom!Next
<1>3. CASE UserListRequest
  BY <1>3, AskStep DEF TheRoom!Next
<1>4. CASE Reap
  <2>1. PICK fd \in Fds : handleClientDisconnect(fd) /\ UNCHANGED running
    BY <1>4 DEF Reap, RoomBase, Base, TypeOK
  <2> QED BY <2>1, LeaveStep DEF TheRoom!Next
<1>5. CASE Cleanup
  BY <1>1, <1>5, EndStep
<1>6. CASE Stop \/ EpollFails
  BY <1>1, <1>6, CloseStep DEF Stop, EpollFails
\* A new connection is nobody in the room until it logs in.
<1>7. ASSUME NEW p \in Peers, NEW fd \in Fds, Accept(p, fd), SameMembers
      PROVE  [TheRoom!Next]_TheRoom!vars
  <2>1. /\ sock[fd] = None /\ \A g \in Fds \ {fd} : sock'[g] = sock[g]
        /\ UNCHANGED <<closing, userLists, running>>
    BY <1>7 DEF Accept, LowestFree, RoomBase, Base, TypeOK
  <2>2. \A g \in Online \cup closing : g \in Fds /\ g # fd
    BY <2>1, MembersNow, TablesReadable DEF Readable
  <2> QED BY <1>1, <1>7, <2>1, <2>2, LoseStep
<1>8. CASE SameMembers /\ Message /\ ~UserListRequest
  <2>1. UNCHANGED <<sock, running>> /\ closing \subseteq closing'
    BY <1>8, MessageFrame DEF RoomBase
  <2>2. \/ UNCHANGED userLists
        \/ \E id \in ClientIds \cup {Empty}, nick \in Nicknames \cup {Empty} :
             LoginAccepted(id, nick)
    BY <1>8
       DEF Message, PartialMessage, Heartbeat, LoginRefused, Logout, ChatGroup, ChatPrivate,
           FileOfferRefused, FileData, FileOffer, FileOfferResponse
  <2> QED BY <1>1, <1>2, <1>8, <2>1, <2>2, QuietStep
<1>9. CASE SameMembers /\ Environment
  <2>1. \/ Stop \/ EpollFails
        \/ UNCHANGED <<sock, userLists, running, closing>>
    BY <1>9 DEF Environment, PeerConnect, PeerLeave, TimePasses, AcceptFails, RegisterFails
  <2> QED BY <1>1, <1>6, <1>9, <2>1, QuietStep
<1>10. CASE SameMembers /\ MainThread
  <2>1. \/ Reap \/ Cleanup \/ \E p \in Peers, fd \in Fds : Accept(p, fd)
        \/ UNCHANGED <<sock, userLists, running>> /\ closing \subseteq closing'
    BY <1>10
       DEF MainThread, LoopTop, PollDone, TakePending, ReapDone, EpollWait, DispatchListen,
           DispatchError, RequestClose, DispatchRead, AcceptDone, ReadDone, LoopExit
  <2> QED BY <1>1, <1>4, <1>5, <1>7, <1>10, <2>1, QuietStep
<1>11. CASE SameMembers /\ (HeartbeatThread \/ Terminated \/ UNCHANGED vars)
  <2>1. UNCHANGED <<sock, userLists, running, closing>>
    BY <1>11 DEF HeartbeatThread, HbCheck, HbLoop, HbPush, Terminated, vars
  <2> QED BY <1>1, <1>11, <2>1, QuietStep
<1> QED
  BY <1>2, <1>3, <1>4, <1>5, <1>8, <1>9, <1>10, <1>11, MembersFrame DEF Next, RoomBase

\* The server keeps the room it promises: each login, disconnect, user list and failed send of
\* LoginAccepted, handleClientDisconnect, broadcastUserList and cleanupAllClients is one step of
\* Room, however many connections, queued disconnects and threads are between.
THEOREM ServerImplementsRoom == Spec => RoomKept
<1>1. Init => TheRoom!Init
  <2> SUFFICES ASSUME Init PROVE TheRoom!Init
    OBVIOUS
  <2>1. \A p : member(p) = {}
    BY DEF Init, member, Online, getOnlineClients, getAllFds
  <2> QED BY <2>1 DEF Init, TheRoom!Init
<1>2. RoomBase /\ RoomBase' /\ UserListConverged /\ [Next]_vars => [TheRoom!Next]_TheRoom!vars
  BY RoomStep
<1> QED BY <1>1, <1>2, RoomBaseInvariant, PTL DEF Spec, RoomKept, TheRoom!Spec

=============================================================================
