-------------------------------- MODULE Wire --------------------------------
(***************************************************************************)
(* What is left of a text, a name or a number when it has gone from one    *)
(* client through the server to another: ClientProtocol and ServerProtocol *)
(* with the handlers of tcpclient.cpp, chatwindow.cpp and server.cpp that  *)
(* look at contents. Users act when all that was sent has been handled;    *)
(* what may happen in between is the subject of Server, FileTransfer and   *)
(* ClientSession. One chunk stands for a whole file.                       *)
(***************************************************************************)
EXTENDS MessageLayout, FiniteSets

CONSTANTS
  Clients, FileIds,
  ShortIds, FullIds, \* what client ids begin with: heads that leave one byte of the field, or none
  NickHeads,
  Others,            \* how many more are logged in and never say anything
  None

kMaxOnlineClients == 1024

ASSUME WireAssumption == Others \in 0 .. kMaxOnlineClients /\ ShortIds \cap FullIds = {}

kFileChunkSize == 16 * 1024
kFileIdSize == 37
FILE_OFFER_ACCEPT == <<0, 0>>
FILE_OFFER_DECLINE == <<1, 0>>
FILE_OFFER_BUSY == <<2, 0>>
LOGIN_SUCCESS == <<0, 0>>
LOGIN_ALREADY_ONLINE == <<3, 0>>
FileSize == <<1, 2, 3, 4>>
ChunkOffset == <<5, 6, 7, 8>>

\* Texts as somebody types them, or as they come out of a field.
Text == [head : ShortIds \cup FullIds \cup NickHeads \cup {"text", ""}, tail : Tails]

ASSUME NoneAssumption ==
  None \notin Text \cup [id : Text, nick : Text] \cup [clientId : Text, nickname : Text]
                 \cup [id : Text, nick : Text, of : Clients] \cup [sender : Clients, receiver : Clients]

\* What users type; the windows trim it. Nicknames are only shown and compared: all are too long.
Ids == [head : ShortIds, tail : {"end", "blank and more", "han", "fullwidth"}]
         \cup [head : FullIds, tail : {"end", "more"}]
Nicks == [head : NickHeads, tail : {"han"}]
Texts == [head : {"text"}, tail : {"end", "fullwidth"}]

VARIABLES
  identity,     \* TcpClient::clientId_ and nickname_ of each client, None when it is not there
  userList,     \* TcpClient::userList_, and as history whose each entry is
  sendSessions, pendingOffers, recvSessions,  \* TcpClient's file ids
  table,        \* the server's ClientInfo of each client logged in
  fileSessions, \* the server's
  wire,         \* the messages on their way
  asked,        \* history: what a user asked for last
  shown         \* history: what came of it on the clients

clientVars == <<identity, userList, sendSessions, pendingOffers, recvSessions>>
serverVars == <<table, fileSessions>>
history    == <<asked, shown>>
vars == <<clientVars, serverVars, wire, history>>

Client == INSTANCE ClientProtocol
Server == INSTANCE ServerProtocol

Init ==
  /\ identity = [c \in Clients |-> None]
  /\ userList = [c \in Clients |-> {}]
  /\ sendSessions = [c \in Clients |-> {}]
  /\ pendingOffers = [c \in Clients |-> {}]
  /\ recvSessions = [c \in Clients |-> {}]
  /\ table = [c \in Clients |-> None]
  /\ fileSessions = [f \in FileIds |-> None]
  /\ wire = {}
  /\ asked = None /\ shown = {}

online == {c \in Clients : table[c] # None}

\* A message on the connection of client c.
up(c, m) == [conn |-> c, up |-> TRUE, m |-> m]
down(c, m) == [conn |-> c, up |-> FALSE, m |-> m]

\* Nothing is on its way, and c, which is logged in, does something. Bound: one thing at a time.
UserActs(c) == wire = {} /\ c \in online

Show(what) == shown' = shown \cup {what}

\* Message p is handled, and these are sent.
Handle(p, answers) == wire' = (wire \ {p}) \cup answers

----------------------------------------------------------------------------
(* Logging in and the user list. *)

\* onConnectClicked and onConnected.
Login(c, id, nick) ==
  /\ wire = {} /\ identity[c] = None
  /\ identity' = [identity EXCEPT ![c] = [id |-> id, nick |-> nick]]
  /\ wire' = {up(c, Client!packLoginRequest(id, nick))}
  /\ asked' = None /\ shown' = {}
  /\ UNCHANGED <<userList, sendSessions, pendingOffers, recvSessions, serverVars>>

\* The list of the clients in table t, to each client of T.
userLists(t, T) ==
  LET members == {c \in Clients : t[c] # None}
      users == {[clientId |-> strncpy(t[c].clientId), nickname |-> strncpy(t[c].nickname),
                 of |-> c] : c \in members}
  IN  {down(c, Server!packUserListResponse(users, Cardinality(members) + Others)) : c \in T}

\* A slip: only nicknames are compared. Breaks ListHonest.
canLogin_nickname(req) ==
  /\ \A d \in online : table[d].nickname # req.nickname
  /\ Cardinality(online) + Others < kMaxOnlineClients

canLogin(req) ==
  /\ \A d \in online : table[d].clientId # req.clientId /\ table[d].nickname # req.nickname
  /\ Cardinality(online) + Others < kMaxOnlineClients

\* Of the three ways to refuse one stands for all: the client asks only whether it is LOGIN_SUCCESS.
HandleLogin(p) ==
  LET req == Server!parseLoginRequest(p.m)
      t == [table EXCEPT ![p.conn] = req]
  IN  /\ IF canLogin(req)
         THEN /\ Handle(p, {down(p.conn, Server!packLoginResponse(LOGIN_SUCCESS))}
                                      \cup userLists(t, online \cup {p.conn}))
              /\ table' = t
         ELSE /\ Handle(p, {down(p.conn, Server!packLoginResponse(LOGIN_ALREADY_ONLINE))})
              /\ UNCHANGED table
      /\ UNCHANGED <<clientVars, fileSessions, history>>

\* The chat window asks for the list; a client that is refused disconnects.
LoginResponse(p) ==
  /\ IF htonl(p.m.result) = LOGIN_SUCCESS
     THEN /\ Handle(p, {up(p.conn, Client!packUserListRequest)})
          /\ UNCHANGED identity
     ELSE /\ Handle(p, {})
          /\ identity' = [identity EXCEPT ![p.conn] = None]
  /\ UNCHANGED <<userList, sendSessions, pendingOffers, recvSessions, serverVars, history>>

HandleUserListRequest(p) ==
  /\ Handle(p, userLists(table, {p.conn}))
  /\ UNCHANGED <<clientVars, serverVars, history>>

UserListResponse(p) ==
  /\ Handle(p, {})
  /\ userList' = [userList EXCEPT ![p.conn] = Client!parseUserListResponse(p.m)]
  /\ UNCHANGED <<identity, sendSessions, pendingOffers, recvSessions, serverVars, history>>

\* The client logs out and disconnects; its sessions go on both sides.
Logout(c) ==
  /\ UserActs(c)
  /\ wire' = {up(c, Client!packLogoutRequest)}
  /\ identity' = [identity EXCEPT ![c] = None]
  /\ userList' = [userList EXCEPT ![c] = {}]
  /\ sendSessions' = [sendSessions EXCEPT ![c] = {}]
  /\ pendingOffers' = [pendingOffers EXCEPT ![c] = {}]
  /\ recvSessions' = [recvSessions EXCEPT ![c] = {}]
  /\ asked' = None /\ shown' = {}
  /\ UNCHANGED serverVars

HandleLogout(p) ==
  LET t == [table EXCEPT ![p.conn] = None]
  IN  /\ Handle(p, userLists(t, online \ {p.conn}))
      /\ table' = t
      /\ fileSessions' =
           [f \in FileIds |->
              IF fileSessions[f] # None /\ p.conn \in {fileSessions[f].sender, fileSessions[f].receiver}
              THEN None ELSE fileSessions[f]]
      /\ UNCHANGED <<clientVars, history>>

----------------------------------------------------------------------------
(* Chat. *)

\* updateUserList leaves out the user itself.
offered(c) == {u \in userList[c] : u.id # identity[c].id}

NoText == [head |-> "", tail |-> "end"]

\* combo_target: an entry of the list, whatever is typed over it; or the item "Group (All)", as it
\* is, or with an id or nothing typed over it.
Target(c) ==
  [item : offered(c), edited : {None}] \cup [item : {None}, edited : Ids \cup {NoText, None}]
isGroup(target) == target.item = None /\ target.edited = None
toId(target) == trimmed(IF target.item # None THEN target.item.id ELSE target.edited)

\* A slip: fewer bytes are compared than fit. Breaks AddresseeReached.
holders_shorter(id) == {d \in online : table[d].clientId.head = id.head}

\* getFdByClientId
holders(id) == {d \in online : table[d].clientId = id}

\* onSendClicked
SendChatMessage(c, target, text) ==
  /\ UserActs(c)
  /\ target \in Target(c)
  /\ wire' = {up(c, Client!packChatMessage(~isGroup(target), identity[c].id, identity[c].nick,
                      IF isGroup(target) THEN NoText ELSE toId(target), text))}
  /\ asked' = [what |-> "chat", by |-> c, target |-> target, text |-> text]
  /\ shown' = {}
  /\ UNCHANGED <<clientVars, serverVars>>

HandleChatMessage(p) ==
  LET msg == Server!parseChatMessage(p.m)
      packet == Server!packChatMessage(msg.private, table[p.conn].clientId,
                                       table[p.conn].nickname, msg.toId, msg.message)
      targets == IF msg.private THEN holders(msg.toId) ELSE online \ {p.conn}
  IN  /\ Handle(p, {down(d, packet) : d \in targets})
      /\ UNCHANGED <<clientVars, serverVars, history>>

ChatMessage(p) ==
  LET msg == Client!parseChatMessage(p.m)
  IN  /\ Handle(p, {})
      /\ Show([what |-> "chat", at |-> p.conn, id |-> msg.fromId, nick |-> msg.fromNick,
               text |-> msg.message])
      /\ UNCHANGED <<clientVars, serverVars, asked>>

----------------------------------------------------------------------------
(* Files. *)

\* The session of a file id, None when the server has none.
session(fileId) == IF fileId \in FileIds THEN fileSessions[fileId] ELSE None

\* onSelectFile, with an id that QUuid has not made before.
SendFileOffer(c, target, f) ==
  /\ UserActs(c)
  /\ target \in Target(c) /\ ~isGroup(target) /\ toId(target) # NoText
  /\ fileSessions[f] = None /\ \A d \in Clients : f \notin sendSessions[d] \cup pendingOffers[d] \cup recvSessions[d]
  /\ sendSessions' = [sendSessions EXCEPT ![c] = @ \cup {f}]
  /\ wire' = {up(c, Client!packFileOffer(f, FileSize, identity[c].id, identity[c].nick,
                                         toId(target)))}
  /\ asked' = [what |-> "offer", by |-> c, target |-> target, file |-> f]
  /\ shown' = {}
  /\ UNCHANGED <<identity, userList, pendingOffers, recvSessions, serverVars>>

HandleFileOffer(p) ==
  LET offer == Server!parseFileOffer(p.m)
      packet == Server!packFileOffer(offer.fileId, offer.fileSize, table[p.conn].clientId,
                                     table[p.conn].nickname, offer.toId)
      refusal == Server!packFileOfferResponse(offer.fileId, FILE_OFFER_BUSY)
  IN  /\ \/ /\ holders(offer.toId) = {}
            /\ Handle(p, {down(p.conn, refusal)})
            /\ UNCHANGED fileSessions
         \/ \E target \in holders(offer.toId) :
              /\ Handle(p, {down(target, packet)})
              /\ fileSessions' = [fileSessions EXCEPT ![offer.fileId] = [sender |-> p.conn,
                                                                        receiver |-> target]]
      /\ UNCHANGED <<clientVars, table, history>>

FileOffer(p) ==
  LET offer == Client!parseFileOffer(p.m)
  IN  /\ Handle(p, {})
      /\ pendingOffers' = [pendingOffers EXCEPT ![p.conn] = @ \cup {offer.fileId}]
      /\ Show([what |-> "offer", at |-> p.conn, id |-> offer.fromId, nick |-> offer.fromNick,
               file |-> offer.fileId, size |-> offer.fileSize])
      /\ UNCHANGED <<identity, userList, sendSessions, recvSessions, serverVars, asked>>

\* Accept or Decline.
SendFileOfferResponse(c, f, result) ==
  /\ UserActs(c)
  /\ f \in pendingOffers[c]
  /\ recvSessions' = [recvSessions EXCEPT ![c] = IF result = FILE_OFFER_ACCEPT THEN @ \cup {f} ELSE @]
  /\ pendingOffers' = [pendingOffers EXCEPT ![c] = @ \ {f}]
  /\ wire' = {up(c, Client!packFileOfferResponse(f, result))}
  /\ asked' = [what |-> "answer", by |-> c, file |-> f, result |-> result, session |-> session(f)]
  /\ shown' = {}
  /\ UNCHANGED <<identity, userList, sendSessions, serverVars>>

HandleFileOfferResponse(p) ==
  LET rsp == Server!parseFileOfferResponse(p.m)
      s == session(rsp.fileId)
  IN  /\ IF s # None /\ s.receiver = p.conn
         THEN /\ Handle(p, {down(s.sender, Server!packFileOfferResponse(rsp.fileId, rsp.result))})
              /\ fileSessions' = IF rsp.result = FILE_OFFER_ACCEPT THEN fileSessions
                                 ELSE [fileSessions EXCEPT ![rsp.fileId] = None]
         ELSE Handle(p, {}) /\ UNCHANGED fileSessions
      /\ UNCHANGED <<clientVars, table, history>>

\* An acceptance starts the sending at once.
FileOfferResponse(p) ==
  LET rsp == Client!parseFileOfferResponse(p.m)
      known == rsp.fileId \in sendSessions[p.conn]
      accepted == rsp.result = FILE_OFFER_ACCEPT
  IN  /\ Handle(p, IF known /\ accepted
           THEN {up(p.conn, Client!packFileData(rsp.fileId, ChunkOffset, kFileChunkSize))} ELSE {})
      /\ sendSessions' = [sendSessions EXCEPT ![p.conn] = @ \ {rsp.fileId}]
      /\ Show([what |-> "answer", at |-> p.conn, file |-> rsp.fileId, result |-> rsp.result])
      /\ UNCHANGED <<identity, userList, pendingOffers, recvSessions, serverVars, asked>>

\* A slip: the constant counts the characters without the zero. Breaks FileArrives.
extractFileId_noZero(m) == fileIdIn(kFileIdSize - 1, m.fileId)
extractFileId(m) == fileIdIn(kFileIdSize, m.fileId)

HandleFileData(p) ==
  /\ LET s == session(extractFileId(p.m)) IN
     Handle(p, IF s # None /\ p.conn \in {s.sender, s.receiver}
               THEN {down(IF p.conn = s.sender THEN s.receiver ELSE s.sender,
                          Server!packRawMessage(p.m))}
               ELSE {})
  /\ UNCHANGED <<clientVars, serverVars, history>>

FileData(p) ==
  LET data == Client!parseFileData(p.m)
  IN  /\ Handle(p, {})
      /\ IF data.fileId \in recvSessions[p.conn]
         THEN /\ recvSessions' = [recvSessions EXCEPT ![p.conn] = @ \ {data.fileId}]
              /\ Show([what |-> "data", at |-> p.conn, file |-> data.fileId,
                       offset |-> data.offset, length |-> data.payloadLen])
         ELSE UNCHANGED <<recvSessions, shown>>
      /\ UNCHANGED <<identity, userList, sendSessions, pendingOffers, serverVars, asked>>

----------------------------------------------------------------------------
User ==
  \E c \in Clients :
    \/ \E id \in Ids, nick \in Nicks : Login(c, id, nick)
    \/ Logout(c)
    \/ /\ c \in online
       /\ \E target \in Target(c) :
            \/ \E text \in Texts : SendChatMessage(c, target, text)
            \/ \E f \in FileIds : SendFileOffer(c, target, f)
    \/ \E f \in FileIds, result \in {FILE_OFFER_ACCEPT, FILE_OFFER_DECLINE} :
         SendFileOfferResponse(c, f, result)

\* Server::handleMessage and TcpClient::processMessage.
handleMessage(p) ==
  \/ p.m.type = "login"           /\ HandleLogin(p)
  \/ p.m.type = "userListRequest" /\ HandleUserListRequest(p)
  \/ p.m.type = "logout"          /\ HandleLogout(p)
  \/ p.m.type = "chat"            /\ HandleChatMessage(p)
  \/ p.m.type = "offer"           /\ HandleFileOffer(p)
  \/ p.m.type = "offerResponse"   /\ HandleFileOfferResponse(p)
  \/ p.m.type = "data"            /\ HandleFileData(p)

processMessage(p) ==
  \/ p.m.type = "loginResponse" /\ LoginResponse(p)
  \/ p.m.type = "userList"      /\ UserListResponse(p)
  \/ p.m.type = "chat"          /\ ChatMessage(p)
  \/ p.m.type = "offer"         /\ FileOffer(p)
  \/ p.m.type = "offerResponse" /\ FileOfferResponse(p)
  \/ p.m.type = "data"          /\ FileData(p)

Next ==
  \/ User
  \/ \E p \in wire : (p.up /\ handleMessage(p)) \/ (~p.up /\ processMessage(p))

Spec == Init /\ [][Next]_vars

----------------------------------------------------------------------------
(* Properties. *)

\* Every variable keeps its shape; in particular the strings of the server fit their fields.
TypeOK ==
  /\ identity \in [Clients -> [id : Ids, nick : Nicks] \cup {None}]
  /\ \A c \in Clients : sendSessions[c] \cup pendingOffers[c] \cup recvSessions[c] \subseteq FileIds
  /\ \A c \in online : fits(table[c].clientId) /\ fits(table[c].nickname)
  /\ fileSessions \in [FileIds -> [sender : Clients, receiver : Clients] \cup {None}]

\* What one side packs, the other side's header and length checks let pass, up to the user list
\* of a full server.
Parsed == \A p \in wire : IF p.up THEN Server!parses(p.m) ELSE Client!parses(p.m)

\* The cut at the end of the field has hit a character, or leaves a blank that the combo box trims.
damaged(id) == id.tail \in Wide \cup {"blank and more"}

\* The list a client offers has everybody else, since no two clients agree in what fits into the
\* field; itself it leaves out only when its own id comes back whole.
ListHonest ==
  wire = {} =>
    \A c \in online :
      {u.of : u \in offered(c)} = IF fits(identity[c].id) THEN online \ {c} ELSE online

\* The clients the user of asked wants to reach.
meant ==
  IF isGroup(asked.target) THEN online \ {asked.by}
  ELSE IF asked.target.item # None THEN {asked.target.item.of}
  ELSE {d \in online : identity[d].id = asked.target.edited}

\* A private message or a file offer for an entry of the list, or for an id that is somebody's in
\* full, reaches that client and nobody else, however long the id, except that an entry whose id is
\* damaged may lead nowhere or elsewhere. A group message reaches all others.
AddresseeReached ==
  wire = {} /\ asked # None /\ asked.what \in {"chat", "offer"} =>
    \/ meant = {}
    \/ asked.target.item # None /\ damaged(identity[asked.target.item.of].id)
    \/ {s.at : s \in {s \in shown : s.what = asked.what}} = meant

\* What is shown is signed with the name under which the sender stands in the receiver's list; a
\* text that fits is whole, and an offer has the size the sender gave it.
Signed ==
  wire = {} => \A s \in shown : s.what \in {"chat", "offer"} =>
    /\ \E u \in userList[s.at] : u.of = asked.by /\ u.id = s.id /\ u.nick = s.nick
    /\ s.what = "chat" /\ fits(asked.text) => s.text = asked.text
    /\ s.what = "offer" => s.file = asked.file /\ s.size = FileSize

\* While the server has the session, an answer comes to the sender of the offer, and after an
\* acceptance the chunk to whoever accepted, at its place: client, server and client agree on the
\* file id although each cuts it to a size of its own.
FileArrives ==
  wire = {} /\ asked # None /\ asked.what = "answer" /\ asked.session # None =>
    LET answer == [what |-> "answer", at |-> asked.session.sender, file |-> asked.file,
                   result |-> asked.result]
        chunk == [what |-> "data", at |-> asked.by, file |-> asked.file,
                  offset |-> ChunkOffset, length |-> kFileChunkSize]
    IN  shown = IF asked.result = FILE_OFFER_ACCEPT THEN {answer, chunk} ELSE {answer}

=============================================================================
