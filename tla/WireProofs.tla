------------------------------ MODULE WireProofs ------------------------------
(***************************************************************************)
(* Theorems about Wire, for every number of clients and files and every    *)
(* set of names: what one program packs the other can read, a message      *)
(* reaches the one it is meant for and nobody else, is signed with the     *)
(* name its sender is listed under, and a file comes out as it went in.    *)
(***************************************************************************)
EXTENDS Wire, FiniteSetTheorems, SequenceTheorems, TLAPS

----------------------------------------------------------------------------
(* The tables. *)

There(c) == identity[c] # None

\* Every variable has its range, but wire and the history.
Shapes ==
  /\ identity \in [Clients -> [id : Ids, nick : Nicks] \cup {None}]
  /\ DOMAIN userList = Clients
  /\ sendSessions \in [Clients -> SUBSET FileIds]
  /\ pendingOffers \in [Clients -> SUBSET FileIds]
  /\ recvSessions \in [Clients -> SUBSET FileIds]
  /\ table \in [Clients -> [clientId : Text, nickname : Text] \cup {None}]
  /\ fileSessions \in [FileIds -> [sender : Clients, receiver : Clients] \cup {None}]
  /\ IsFiniteSet(online) /\ Cardinality(online) + Others <= kMaxOnlineClients

\* The server knows everybody by what fits into the fields of the name, and nobody by another's.
Registered ==
  /\ \A c \in online : fits(table[c].clientId) /\ fits(table[c].nickname)
  /\ \A c \in online : There(c) => /\ table[c].clientId = strncpy(identity[c].id)
                                   /\ table[c].nickname = strncpy(identity[c].nick)
  /\ \A c, d \in online : table[c].clientId = table[d].clientId => c = d

\* Both ends of a session are logged in; an offer that waits for an answer is that of the session,
\* if there is one for its file, and its sender waits for the answer, unless it is about to leave.
Sessions ==
  \A f \in FileIds : fileSessions[f] # None =>
    LET s == fileSessions[f]
    IN  /\ s.sender \in online /\ s.receiver \in online
        /\ \A d \in Clients : f \in pendingOffers[d] =>
             /\ d = s.receiver
             /\ There(s.sender) => f \in sendSessions[s.sender]

Tables == Shapes /\ Registered /\ Sessions

----------------------------------------------------------------------------
(* The exchanges. *)

\* What the server's list says of d, and what a client makes of it.
Listed(d) == [clientId |-> strncpy(table[d].clientId), nickname |-> strncpy(table[d].nickname), of |-> d]
Entry(d) == [id |-> fromUtf8(table[d].clientId), nick |-> fromUtf8(table[d].nickname), of |-> d]

TheList == Server!packUserListResponse({Listed(d) : d \in online}, Cardinality(online) + Others)
View == {Entry(d) : d \in online}

\* Who has an identity is logged in, and has the list; but for those in X.
SettledBut(X) == \A c \in Clients \ X : /\ There(c) <=> c \in online
                                        /\ c \in online => userList[c] = View
Settled == SettledBut({})

Idle == asked = None /\ shown = {}

\* A client logs in, is refused, or is accepted, and the list goes round; or one logs out.
LoginSent ==
  \E c \in Clients \ online :
    /\ There(c) /\ SettledBut({c})
    /\ wire = {up(c, Client!packLoginRequest(identity[c].id, identity[c].nick))}

LoginRefused ==
  \E c \in Clients \ online :
    /\ There(c) /\ SettledBut({c})
    /\ wire = {down(c, Server!packLoginResponse(LOGIN_ALREADY_ONLINE))}

Listing ==
  /\ \A p \in wire : \E c \in online :
       p \in {down(c, Server!packLoginResponse(LOGIN_SUCCESS)),
              up(c, Client!packUserListRequest), down(c, TheList)}
  /\ \A c \in Clients : There(c) <=> c \in online
  /\ \A c \in online : userList[c] = View \/ down(c, TheList) \in wire

LogoutSent ==
  \E c \in online :
    /\ ~There(c) /\ SettledBut({c})
    /\ wire = {up(c, Client!packLogoutRequest)}

Coming == Idle /\ (LoginSent \/ LoginRefused \/ Listing \/ LogoutSent)

\* A chat message, from the user to the server and to all it is for.
chatUp ==
  up(asked.by, Client!packChatMessage(~isGroup(asked.target), identity[asked.by].id,
                 identity[asked.by].nick,
                 IF isGroup(asked.target) THEN NoText ELSE toId(asked.target), asked.text))

addressees ==
  IF isGroup(asked.target) THEN online \ {asked.by} ELSE holders(strncpy(toId(asked.target)))

chatDown(d) ==
  down(d, Server!packChatMessage(~isGroup(asked.target), table[asked.by].clientId,
            table[asked.by].nickname,
            IF isGroup(asked.target) THEN NoText ELSE strncpy(toId(asked.target)),
            strncpy(asked.text)))

chatShown(d) ==
  [what |-> "chat", at |-> d, id |-> fromUtf8(table[asked.by].clientId),
   nick |-> fromUtf8(table[asked.by].nickname), text |-> fromUtf8(strncpy(asked.text))]

ChatSent == wire = {chatUp} /\ shown = {}

\* Each addressee is still to get the message or shows it.
ChatSpread ==
  \E T \in SUBSET addressees :
    wire = {chatDown(d) : d \in T} /\ shown = {chatShown(d) : d \in addressees \ T}

Chatting ==
  /\ asked.what = "chat" /\ asked.by \in online /\ asked.text \in Texts
  /\ asked.target \in Target(asked.by)
  /\ Settled
  /\ ChatSent \/ ChatSpread
----------------------------------------------------------------------------
(* Files. *)

\* Nobody has been offered the file.
Unoffered(f) == \A d \in Clients : f \notin pendingOffers[d]

\* An offer, from the user to the server, and on to the addressee or back.
OfferSent ==
  /\ wire = {up(asked.by, Client!packFileOffer(asked.file, FileSize, identity[asked.by].id,
                            identity[asked.by].nick, toId(asked.target)))}
  /\ shown = {}
  /\ fileSessions[asked.file] = None /\ Unoffered(asked.file)
  /\ asked.file \in sendSessions[asked.by]

OfferRefused ==
  /\ addressees = {}
  /\ fileSessions[asked.file] = None
  /\ \/ /\ wire = {down(asked.by, Server!packFileOfferResponse(asked.file, FILE_OFFER_BUSY))}
        /\ shown = {}
     \/ /\ wire = {}
        /\ shown = {[what |-> "answer", at |-> asked.by, file |-> asked.file,
                     result |-> FILE_OFFER_BUSY]}

OfferRelayed ==
  \E d \in addressees :
    /\ wire = {down(d, Server!packFileOffer(asked.file, FileSize, table[asked.by].clientId,
                         table[asked.by].nickname, strncpy(toId(asked.target))))}
    /\ shown = {}
    /\ fileSessions[asked.file] = [sender |-> asked.by, receiver |-> d]
    /\ Unoffered(asked.file)
    /\ asked.file \in sendSessions[asked.by]

OfferShown ==
  /\ wire = {}
  /\ \E d \in addressees :
       shown = {[what |-> "offer", at |-> d, id |-> fromUtf8(table[asked.by].clientId),
                 nick |-> fromUtf8(table[asked.by].nickname), file |-> asked.file,
                 size |-> FileSize]}

Offering ==
  /\ asked.what = "offer" /\ asked.by \in online /\ asked.file \in FileIds
  /\ asked.target \in Target(asked.by) /\ ~isGroup(asked.target)
  /\ Settled
  /\ OfferSent \/ OfferRefused \/ OfferRelayed \/ OfferShown

\* An answer, from the user to the server and to the sender, and the chunk that it makes him send.
answerShown ==
  [what |-> "answer", at |-> asked.session.sender, file |-> asked.file, result |-> asked.result]

chunkShown ==
  [what |-> "data", at |-> asked.by, file |-> asked.file, offset |-> ChunkOffset,
   length |-> kFileChunkSize]

chunk == Client!packFileData(asked.file, ChunkOffset, kFileChunkSize)

accepting == asked.result = FILE_OFFER_ACCEPT

\* The one who accepts has opened the file, and the session stands.
Prepared ==
  accepting => /\ asked.file \in recvSessions[asked.by]
               /\ fileSessions[asked.file] = asked.session

AnswerSent ==
  /\ wire = {up(asked.by, Client!packFileOfferResponse(asked.file, asked.result))}
  /\ shown = {}
  /\ fileSessions[asked.file] = asked.session
  /\ asked.session # None =>
       /\ asked.session.receiver = asked.by /\ asked.session.sender \in Clients
       /\ asked.file \in sendSessions[asked.session.sender]
       /\ Unoffered(asked.file)
       /\ Prepared

\* The server has no session for the file.
AnswerDropped == wire = {} /\ shown = {} /\ asked.session = None

AnswerRelayed ==
  /\ wire = {down(asked.session.sender, Server!packFileOfferResponse(asked.file, asked.result))}
  /\ shown = {}
  /\ asked.session = [sender |-> asked.session.sender, receiver |-> asked.by]
  /\ asked.session.sender \in Clients
  /\ asked.file \in sendSessions[asked.session.sender]
  /\ Unoffered(asked.file)
  /\ Prepared

ChunkOnItsWay ==
  /\ accepting
  /\ asked.session = [sender |-> asked.session.sender, receiver |-> asked.by]
  /\ asked.session.sender \in Clients
  /\ wire = {up(asked.session.sender, chunk)} \/ wire = {down(asked.by, chunk)}
  /\ shown = {answerShown}
  /\ Prepared

Answered ==
  /\ wire = {}
  /\ shown = IF accepting THEN {answerShown, chunkShown} ELSE {answerShown}

Answering ==
  /\ asked.what = "answer" /\ asked.by \in online /\ asked.file \in FileIds
  /\ asked.result \in {FILE_OFFER_ACCEPT, FILE_OFFER_DECLINE}
  /\ Settled
  /\ AnswerSent \/ AnswerDropped \/ AnswerRelayed \/ ChunkOnItsWay \/ Answered

WireInv == Tables /\ (Coming \/ Chatting \/ Offering \/ Answering)

----------------------------------------------------------------------------
(* Texts and numbers. *)

\* A field holds the same after any number of copies; whatever happens to a text, it remains one.
LEMMA Copies ==
  ASSUME NEW t \in Text
  PROVE  /\ strncpy(t) \in Text /\ fromUtf8(t) \in Text /\ trimmed(t) \in Text
         /\ strncpy(strncpy(t)) = strncpy(t)
         /\ fits(strncpy(t))
<1>1. t.head \in ShortIds \cup FullIds \cup NickHeads \cup {"text", ""} /\ t.tail \in Tails
      /\ t = [head |-> t.head, tail |-> t.tail]
  BY DEF Text
<1>2. strncpy(t) \in Text /\ fromUtf8(t) \in Text /\ trimmed(t) \in Text
  BY <1>1 DEF Text, Tails, Wide, strncpy, fromUtf8, trimmed, firstByte
<1>3. strncpy(strncpy(t)) = strncpy(t)
  BY <1>1 DEF Tails, Wide, strncpy, firstByte
<1> QED BY <1>2, <1>3 DEF fits

\* What users type are texts.
LEMMA Typed == Ids \subseteq Text /\ Nicks \subseteq Text /\ Texts \subseteq Text /\ NoText \in Text
BY DEF Ids, Nicks, Texts, NoText, Text, Tails, Wide

\* An id comes back from its field as an id only if both agree in what fits, and as itself just when
\* it fits.
LEMMA IdsComeBack ==
  ASSUME NEW i \in Ids, NEW j \in Ids
  PROVE  /\ fromUtf8(strncpy(i)) = j => strncpy(i) = strncpy(j)
         /\ fromUtf8(strncpy(i)) = i <=> fits(i)
         /\ trimmed(i) = i
         /\ ~damaged(i) => trimmed(fromUtf8(strncpy(i))) = strncpy(i)
<1>1. /\ i = [head |-> i.head, tail |-> i.tail] /\ j = [head |-> j.head, tail |-> j.tail]
      /\ i.tail \in {"end", "blank and more", "han", "fullwidth", "more"}
      /\ j.tail \in {"end", "blank and more", "han", "fullwidth", "more"}
  BY DEF Ids
<1>2. \/ i.head \in ShortIds /\ i.tail \in {"end", "blank and more", "han", "fullwidth"}
      \/ i.head \in FullIds /\ i.tail \in {"end", "more"}
  BY DEF Ids
<1>3. \/ j.head \in ShortIds /\ j.tail \in {"end", "blank and more", "han", "fullwidth"}
      \/ j.head \in FullIds /\ j.tail \in {"end", "more"}
  BY DEF Ids
<1>4. fromUtf8(strncpy(i)) = j => strncpy(i) = strncpy(j)
  BY <1>1, <1>2, <1>3, WireAssumption DEF strncpy, fromUtf8, Wide, firstByte
<1>5. fromUtf8(strncpy(i)) = i <=> fits(i)
  BY <1>1 DEF strncpy, fromUtf8, Wide, firstByte, fits
<1>6. trimmed(i) = i
  BY <1>1 DEF trimmed
<1>7. ~damaged(i) => trimmed(fromUtf8(strncpy(i))) = strncpy(i)
  BY <1>1 DEF strncpy, fromUtf8, trimmed, Wide, firstByte, damaged
<1> QED BY <1>4, <1>5, <1>6, <1>7

\* Both programs copy a field in the same way.
LEMMA SameCopies ==
  \A t : /\ Client!strncpy(t) = strncpy(t) /\ Client!fromUtf8(t) = fromUtf8(t)
         /\ Server!strncpy(t) = strncpy(t)
BY DEF strncpy, Client!strncpy, Server!strncpy, fromUtf8, Client!fromUtf8,
       Wide, Client!Wide, Server!Wide, firstByte, Client!firstByte, Server!firstByte

\* Two numbers behind one another.
LEMMA Pairs ==
  ASSUME NEW a \in Nat, NEW b \in Nat, NEW c \in Nat, NEW d \in Nat
  PROVE  <<a, b>> \o <<c, d>> = <<a, b, c, d>>
<1> DEFINE s == <<a, b>>
           t == <<c, d>>
           u == <<a, b, c, d>>
<1>1. /\ s \in Seq(Nat) /\ Len(s) = 2 /\ s[1] = a /\ s[2] = b
      /\ t \in Seq(Nat) /\ Len(t) = 2 /\ t[1] = c /\ t[2] = d
      /\ u \in Seq(Nat) /\ Len(u) = 4 /\ u[1] = a /\ u[2] = b /\ u[3] = c /\ u[4] = d
  OBVIOUS
<1> HIDE DEF s, t, u
<1>2. /\ s \o t \in Seq(Nat) /\ Len(s \o t) = 4
      /\ \A i \in 1 .. 4 : (s \o t)[i] = IF i <= 2 THEN s[i] ELSE t[i - 2]
  <2>1. /\ s \o t \in Seq(Nat) /\ Len(s \o t) = Len(s) + Len(t)
        /\ \A i \in 1 .. Len(s) + Len(t) : (s \o t)[i] = IF i <= Len(s) THEN s[i] ELSE t[i - Len(s)]
    BY <1>1, ConcatProperties
  <2>2. Len(s) + Len(t) = 4
    BY <1>1
  <2> QED BY <1>1, <2>1, <2>2
<1>3. \A i \in 1 .. 4 : (s \o t)[i] = u[i]
  <2>1. (s \o t)[1] = s[1] /\ (s \o t)[2] = s[2]
    BY <1>2
  <2>2. (s \o t)[3] = t[1] /\ (s \o t)[4] = t[2]
    <3>1. 3 \in 1 .. 4 /\ 4 \in 1 .. 4 /\ ~(3 <= 2) /\ ~(4 <= 2) /\ 3 - 2 = 1 /\ 4 - 2 = 2
      OBVIOUS
    <3> QED BY <1>2, <3>1
  <2>3. \A i \in 1 .. 4 : i = 1 \/ i = 2 \/ i = 3 \/ i = 4
    OBVIOUS
  <2> QED BY <1>1, <2>1, <2>2, <2>3
<1>4. s \o t = u
  BY <1>1, <1>2, <1>3, SeqEqual
<1> QED BY <1>4 DEF s, t, u

\* A number that is turned twice is itself; what the programs write as an error is not zero.
LEMMA Turned ==
  ASSUME NEW a \in Nat, NEW b \in Nat, NEW c \in Nat, NEW d \in Nat
  PROVE  /\ Client!networkToHost64(Client!hostToNetwork64(<<a, b, c, d>>)) = <<a, b, c, d>>
         /\ Client!networkToHost64(Server!hostToNetwork64(<<a, b, c, d>>)) = <<a, b, c, d>>
         /\ Server!networkToHost64(Client!hostToNetwork64(<<a, b, c, d>>)) = <<a, b, c, d>>
<1>1. /\ Client!swap64(<<a, b, c, d>>) = <<d, c, b, a>> /\ Client!swap64(<<d, c, b, a>>) = <<a, b, c, d>>
  BY Pairs DEF Client!swap64, Client!htonl
<1>2. /\ Server!swap64(<<a, b, c, d>>) = <<d, c, b, a>> /\ Server!swap64(<<d, c, b, a>>) = <<a, b, c, d>>
  BY Pairs DEF Server!swap64, Server!htonl
<1> QED BY <1>1, <1>2 DEF Client!networkToHost64, Client!hostToNetwork64, Server!hostToNetwork64, Server!networkToHost64

\* Two bytes that one program turns come back from the other.
LEMMA ShortTurned ==
  ASSUME NEW a, NEW b
  PROVE  /\ htonl(Server!htonl(<<a, b>>)) = <<a, b>>
         /\ Client!htonl(Server!htonl(<<a, b>>)) = <<a, b>>
         /\ Server!htonl(Client!htonl(<<a, b>>)) = <<a, b>>
         /\ Client!htonl(Server!htonl(Server!htonl(Client!htonl(<<a, b>>)))) = <<a, b>>
BY DEF htonl, Server!htonl, Client!htonl

----------------------------------------------------------------------------
(* Messages. *)

Deliver(p) == (p.up /\ handleMessage(p)) \/ (~p.up /\ processMessage(p))

\* A message that has come is handled as what it is.
LEMMA Kinds ==
  ASSUME NEW c, NEW m
  PROVE  /\ Deliver(up(c, m)) =>
              /\ m.type = "login" => HandleLogin(up(c, m))
              /\ m.type = "userListRequest" => HandleUserListRequest(up(c, m))
              /\ m.type = "logout" => HandleLogout(up(c, m))
              /\ m.type = "chat" => HandleChatMessage(up(c, m))
              /\ m.type = "offer" => HandleFileOffer(up(c, m))
              /\ m.type = "offerResponse" => HandleFileOfferResponse(up(c, m))
              /\ m.type = "data" => HandleFileData(up(c, m))
         /\ Deliver(down(c, m)) =>
              /\ m.type = "loginResponse" => LoginResponse(down(c, m))
              /\ m.type = "userList" => UserListResponse(down(c, m))
              /\ m.type = "chat" => ChatMessage(down(c, m))
              /\ m.type = "offer" => FileOffer(down(c, m))
              /\ m.type = "offerResponse" => FileOfferResponse(down(c, m))
              /\ m.type = "data" => FileData(down(c, m))
<1>1. up(c, m).up = TRUE /\ up(c, m).m = m /\ down(c, m).up = FALSE /\ down(c, m).m = m
  BY DEF up, down
<1> QED BY <1>1 DEF Deliver, handleMessage, processMessage

\* The envelope of a message.
LEMMA Envelope ==
  ASSUME NEW c, NEW m
  PROVE  /\ up(c, m).conn = c /\ up(c, m).m = m
         /\ down(c, m).conn = c /\ down(c, m).m = m
         /\ \A d, n : (down(c, m) = down(d, n) <=> c = d /\ m = n)
         /\ \A d, n : up(c, m) # down(d, n)
BY DEF up, down

\* Nothing but these variables matters to what the users know of each other.
LEMMA Frame ==
  ASSUME UNCHANGED <<identity, userList, table>>
  PROVE  /\ online' = online /\ Settled' = Settled /\ View' = View /\ TheList' = TheList
         /\ \A c \in Clients : There(c)' = There(c)
         /\ Registered' = Registered
BY DEF online, Settled, SettledBut, View, TheList, There, Registered, Entry, Listed

\* The same, for what is read of the table by name.
LEMMA AskedFrame ==
  ASSUME UNCHANGED <<identity, userList, table, asked>>
  PROVE  /\ addressees' = addressees
         /\ \A c : Target(c)' = Target(c) /\ \A d : chatDown(d)' = chatDown(d) /\ chatShown(d)' = chatShown(d)
BY DEF addressees, Target, offered, chatDown, chatShown, holders, online

\* Two clients with the same name in the table are the same, so a name has one holder.
LEMMA Holders ==
  ASSUME Registered, NEW i
  PROVE  /\ holders(i) \subseteq online
         /\ \A d \in holders(i) : holders(i) = {d}
BY DEF Registered, holders

\* When nothing is on its way, everybody is told.
LEMMA Quiet ==
  ASSUME WireInv, wire = {}
  PROVE  Settled
<1>1. ASSUME NEW c, NEW m PROVE wire # {up(c, m)} /\ wire # {down(c, m)}
  OBVIOUS
<1>2. CASE Coming
  <2>1. Listing
    BY <1>1, <1>2 DEF Coming, LoginSent, LoginRefused, LogoutSent
  <2> QED BY <2>1 DEF Listing, Settled, SettledBut
<1> QED BY <1>2 DEF WireInv, Chatting, Offering, Answering

\* The list that goes round, as the server makes it and as a client takes it.
LEMMA TheListGoes ==
  ASSUME Tables
  PROVE  /\ \A T : userLists(table, T) = {down(c, TheList) : c \in T}
         /\ Client!parseUserListResponse(TheList) = View
<1>1. \A T : userLists(table, T) = {down(c, TheList) : c \in T}
  BY DEF userLists, TheList, Listed, online
<1>2. \A d \in online : /\ strncpy(table[d].clientId) = table[d].clientId
                        /\ strncpy(table[d].nickname) = table[d].nickname
  BY DEF Tables, Registered, fits
<1>3. TheList.users = {Listed(d) : d \in online}
  BY DEF TheList, Server!packUserListResponse
<1>4. \A d \in online :
        [id |-> Client!fromUtf8(Client!strncpy(Listed(d).clientId)),
         nick |-> Client!fromUtf8(Client!strncpy(Listed(d).nickname)), of |-> Listed(d).of] = Entry(d)
  BY <1>2, SameCopies DEF Listed, Entry
<1>5. Client!parseUserListResponse(TheList) = View
  BY <1>3, <1>4 DEF Client!parseUserListResponse, View
<1> QED BY <1>1, <1>5

----------------------------------------------------------------------------
(* Users act. *)

\* What a client is, None is not.
LEMMA Somebody ==
  /\ \A i \in Ids, n \in Nicks : [id |-> i, nick |-> n] # None
  /\ \A i \in Text, n \in Text : [clientId |-> i, nickname |-> n] # None
  /\ \A i \in Text, n \in Text, c \in Clients : [id |-> i, nick |-> n, of |-> c] # None
  /\ \A c \in Clients, d \in Clients : [sender |-> c, receiver |-> d] # None
BY NoneAssumption, Typed

\* onConnectClicked, onConnected: a client becomes somebody, and says so.
LEMMA LoginStep ==
  ASSUME WireInv, NEW c \in Clients, NEW id \in Ids, NEW nick \in Nicks, Login(c, id, nick)
  PROVE  WireInv'
<1>1. Tables /\ Settled /\ c \notin online /\ ~There(c)
  BY Quiet DEF WireInv, Login, Settled, SettledBut, There
<1>2. /\ identity' = [identity EXCEPT ![c] = [id |-> id, nick |-> nick]]
      /\ wire' = {up(c, Client!packLoginRequest(id, nick))}
      /\ Idle'
      /\ UNCHANGED <<userList, sendSessions, pendingOffers, recvSessions, table, fileSessions>>
  BY DEF Login, Idle, serverVars
<1>3. /\ identity'[c] = [id |-> id, nick |-> nick] /\ identity'[c] # None
      /\ \A d \in Clients \ {c} : identity'[d] = identity[d]
      /\ identity' \in [Clients -> [id : Ids, nick : Nicks] \cup {None}]
  BY <1>1, <1>2, Somebody DEF Tables, Shapes
<1>4. online' = online /\ View' = View
  BY <1>2 DEF online, View, Entry
<1>5. Tables'
  <2>1. Shapes'
    BY <1>1, <1>2, <1>3, <1>4 DEF Tables, Shapes
  <2>2. Registered'
    BY <1>1, <1>2, <1>3, <1>4 DEF Tables, Registered, There, online
  <2>3. Sessions'
    BY <1>1, <1>2, <1>3, <1>4 DEF Tables, Sessions, There
  <2> QED BY <2>1, <2>2, <2>3 DEF Tables
<1>6. LoginSent'
  <2>1. SettledBut({c})'
    BY <1>1, <1>2, <1>3, <1>4 DEF Settled, SettledBut, There
  <2>2. There(c)' /\ wire' = {up(c, Client!packLoginRequest(identity'[c].id, identity'[c].nick))}
    BY <1>2, <1>3 DEF There
  <2> QED BY <1>1, <1>4, <2>1, <2>2 DEF LoginSent
<1> QED BY <1>2, <1>5, <1>6 DEF WireInv, Coming

\* A client says that it leaves, and forgets what it had.
LEMMA LogoutStep ==
  ASSUME WireInv, NEW c \in Clients, Logout(c)
  PROVE  WireInv'
<1>1. Tables /\ Settled /\ c \in online
  BY Quiet DEF WireInv, Logout, UserActs
<1>2. /\ identity' = [identity EXCEPT ![c] = None]
      /\ userList' = [userList EXCEPT ![c] = {}]
      /\ sendSessions' = [sendSessions EXCEPT ![c] = {}]
      /\ pendingOffers' = [pendingOffers EXCEPT ![c] = {}]
      /\ recvSessions' = [recvSessions EXCEPT ![c] = {}]
      /\ wire' = {up(c, Client!packLogoutRequest)}
      /\ Idle'
      /\ UNCHANGED <<table, fileSessions>>
  BY DEF Logout, Idle, serverVars
<1>3. /\ identity'[c] = None
      /\ \A d \in Clients \ {c} : /\ identity'[d] = identity[d] /\ userList'[d] = userList[d]
                                  /\ sendSessions'[d] = sendSessions[d]
                                  /\ pendingOffers'[d] = pendingOffers[d]
      /\ pendingOffers'[c] = {}
  BY <1>1, <1>2 DEF Tables, Shapes
<1>4. online' = online /\ View' = View
  BY <1>2 DEF online, View, Entry
<1>5. Tables'
  <2>1. Shapes'
    BY <1>1, <1>2, <1>4 DEF Tables, Shapes
  <2>2. Registered'
    BY <1>1, <1>2, <1>3, <1>4 DEF Tables, Registered, There, online
  <2>3. Sessions'
    <3> SUFFICES ASSUME NEW f \in FileIds, fileSessions[f] # None
                 PROVE  /\ fileSessions[f].sender \in online /\ fileSessions[f].receiver \in online
                        /\ \A d \in Clients : f \in pendingOffers'[d] =>
                             /\ d = fileSessions[f].receiver
                             /\ There(fileSessions[f].sender)' => f \in sendSessions'[fileSessions[f].sender]
      BY <1>2, <1>4 DEF Sessions
    <3>1. fileSessions[f].sender \in Clients
      BY <1>1 DEF Tables, Shapes
    <3>2. There(fileSessions[f].sender)' => /\ fileSessions[f].sender # c
                                            /\ There(fileSessions[f].sender)
      BY <1>2, <1>3, <3>1 DEF There
    <3>3. \A d \in Clients : f \in pendingOffers'[d] => f \in pendingOffers[d]
      BY <1>3
    <3>4. There(fileSessions[f].sender)' =>
            sendSessions'[fileSessions[f].sender] = sendSessions[fileSessions[f].sender]
      BY <1>2, <1>3, <3>1, <3>2
    <3> QED BY <1>1, <3>2, <3>3, <3>4 DEF Tables, Sessions
  <2> QED BY <2>1, <2>2, <2>3 DEF Tables
<1>6. LogoutSent'
  BY <1>1, <1>2, <1>3, <1>4 DEF LogoutSent, Settled, SettledBut, There
<1> QED BY <1>2, <1>5, <1>6 DEF WireInv, Coming

\* The tables stay as they are when only messages and the history change.
LEMMA TablesRest ==
  ASSUME Tables, UNCHANGED <<clientVars, serverVars>>
  PROVE  Tables' /\ Settled' = Settled
<1>1. UNCHANGED <<identity, userList, sendSessions, pendingOffers, recvSessions, table, fileSessions>>
  BY DEF clientVars, serverVars
<1>2. Registered' /\ Settled' = Settled /\ online' = online
  BY <1>1, Frame DEF Tables
<1> QED BY <1>1, <1>2 DEF Tables, Shapes, Sessions, There

\* A chat message leaves its user.
LEMMA ChatStep ==
  ASSUME WireInv, NEW c \in Clients, NEW target \in Target(c), NEW text \in Texts,
         SendChatMessage(c, target, text)
  PROVE  WireInv'
<1>1. Tables /\ Settled /\ c \in online
  BY Quiet DEF WireInv, SendChatMessage, UserActs
<1>2. Tables' /\ Settled'
  BY <1>1, TablesRest DEF SendChatMessage
<1>3. asked' = [what |-> "chat", by |-> c, target |-> target, text |-> text]
  BY DEF SendChatMessage
<1>4. identity' = identity /\ table' = table /\ userList' = userList
  BY DEF SendChatMessage, clientVars, serverVars
<1>5. Target(c)' = Target(c) /\ online' = online
  BY <1>4 DEF Target, offered, online
<1>6. ChatSent'
  BY <1>3, <1>4 DEF SendChatMessage, ChatSent, chatUp
<1> QED BY <1>1, <1>2, <1>3, <1>5, <1>6 DEF WireInv, Chatting

\* A file offer leaves its user, with an id that is new everywhere.
LEMMA OfferStep ==
  ASSUME WireInv, NEW c \in Clients, NEW target \in Target(c), NEW f \in FileIds,
         SendFileOffer(c, target, f)
  PROVE  WireInv'
<1>1. Tables /\ Settled /\ c \in online
  BY Quiet DEF WireInv, SendFileOffer, UserActs
<1>2. /\ sendSessions' = [sendSessions EXCEPT ![c] = @ \cup {f}]
      /\ asked' = [what |-> "offer", by |-> c, target |-> target, file |-> f]
      /\ shown' = {}
      /\ wire' = {up(c, Client!packFileOffer(f, FileSize, identity[c].id, identity[c].nick,
                                             toId(target)))}
      /\ UNCHANGED <<identity, userList, pendingOffers, recvSessions, table, fileSessions>>
      /\ fileSessions[f] = None /\ Unoffered(f) /\ ~isGroup(target)
  BY DEF SendFileOffer, serverVars, Unoffered
<1>3. online' = online /\ Settled' /\ Registered' /\ Target(c)' = Target(c)
  BY <1>1, <1>2, Frame DEF Tables, Target, offered
<1>4. \A d \in Clients : sendSessions[d] \subseteq sendSessions'[d] /\ f \in sendSessions'[c]
  BY <1>1, <1>2 DEF Tables, Shapes
<1>5. Tables'
  <2>1. Shapes'
    BY <1>1, <1>2, <1>3 DEF Tables, Shapes
  <2>2. Sessions'
    BY <1>1, <1>2, <1>3, <1>4 DEF Tables, Shapes, Sessions, There
  <2> QED BY <1>3, <2>1, <2>2 DEF Tables
<1>6. OfferSent'
  BY <1>2, <1>4 DEF OfferSent, Unoffered
<1> QED BY <1>1, <1>2, <1>3, <1>5, <1>6 DEF WireInv, Offering

\* A user answers an offer: if the server has a session for the file, it is this one.
LEMMA AnswerStep ==
  ASSUME WireInv, NEW c \in Clients, NEW f \in FileIds,
         NEW result \in {FILE_OFFER_ACCEPT, FILE_OFFER_DECLINE},
         SendFileOfferResponse(c, f, result)
  PROVE  WireInv'
<1>1. Tables /\ Settled /\ c \in online
  BY Quiet DEF WireInv, SendFileOfferResponse, UserActs
<1>2. /\ f \in pendingOffers[c]
      /\ recvSessions' = [recvSessions EXCEPT ![c] = IF result = FILE_OFFER_ACCEPT THEN @ \cup {f} ELSE @]
      /\ pendingOffers' = [pendingOffers EXCEPT ![c] = @ \ {f}]
      /\ asked' = [what |-> "answer", by |-> c, file |-> f, result |-> result,
                   session |-> fileSessions[f]]
      /\ shown' = {}
      /\ wire' = {up(c, Client!packFileOfferResponse(f, result))}
      /\ UNCHANGED <<identity, userList, sendSessions, table, fileSessions>>
  BY DEF SendFileOfferResponse, serverVars, session
<1>3. online' = online /\ Settled' /\ Registered'
  BY <1>1, <1>2, Frame DEF Tables
<1>4. /\ \A d \in Clients : d # c => pendingOffers'[d] = pendingOffers[d]
      /\ pendingOffers'[c] = pendingOffers[c] \ {f}
      /\ result = FILE_OFFER_ACCEPT => f \in recvSessions'[c]
  BY <1>1, <1>2 DEF Tables, Shapes
<1>5. Tables'
  <2>1. Shapes'
    BY <1>1, <1>2, <1>3 DEF Tables, Shapes
  <2>2. \A g \in FileIds, d \in Clients : g \in pendingOffers'[d] => g \in pendingOffers[d]
    BY <1>4
  <2>3. Sessions'
    BY <1>1, <1>2, <1>3, <2>2 DEF Tables, Sessions, There
  <2> QED BY <1>3, <2>1, <2>3 DEF Tables
<1>6. AnswerSent'
  <2>1. ASSUME fileSessions[f] # None
        PROVE  /\ fileSessions[f].receiver = c /\ fileSessions[f].sender \in Clients
               /\ f \in sendSessions[fileSessions[f].sender]
               /\ Unoffered(f)'
    <3>1. fileSessions[f].receiver = c /\ fileSessions[f].sender \in online
      BY <1>1, <1>2, <2>1 DEF Tables, Sessions
    <3>2. fileSessions[f].sender \in Clients /\ There(fileSessions[f].sender)
      BY <1>1, <3>1 DEF Settled, SettledBut, online
    <3>3. f \in sendSessions[fileSessions[f].sender]
      BY <1>1, <1>2, <2>1, <3>2 DEF Tables, Sessions
    <3>4. \A d \in Clients : d # c => f \notin pendingOffers[d]
      BY <1>1, <2>1, <3>1 DEF Tables, Sessions
    <3> QED BY <1>4, <3>1, <3>2, <3>3, <3>4 DEF Unoffered
  <2> QED BY <1>2, <1>4, <2>1 DEF AnswerSent, Prepared, accepting, Unoffered
<1> QED BY <1>1, <1>2, <1>3, <1>5, <1>6 DEF WireInv, Answering

----------------------------------------------------------------------------
(* Logging in and out. *)

\* The list after a change of the table, to each of T.
LEMMA NewListGoes ==
  ASSUME NEW T
  PROVE  userLists(table', T) = {down(c, TheList') : c \in T}
BY DEF userLists, TheList, Listed, online

\* Server::handleLoginRequest: the table knows the client by what its fields hold, if that is
\* nobody else's; everybody gets the new list.
LEMMA LoginArrives ==
  ASSUME Tables, Idle, LoginSent, NEW p \in wire, Deliver(p)
  PROVE  WireInv'
<1>1. PICK c \in Clients \ online :
        /\ There(c) /\ SettledBut({c})
        /\ wire = {up(c, Client!packLoginRequest(identity[c].id, identity[c].nick))}
  BY DEF LoginSent
<1> DEFINE i == identity[c].id
           n == identity[c].nick
           m == Client!packLoginRequest(i, n)
           req == [clientId |-> strncpy(i), nickname |-> strncpy(n)]
<1>2. i \in Ids /\ n \in Nicks /\ i \in Text /\ n \in Text
  BY <1>1, Typed DEF Tables, Shapes, There
<1>3. /\ m.type = "login" /\ Server!parseLoginRequest(m) = req
      /\ req \in [clientId : Text, nickname : Text] /\ req # None
      /\ fits(req.clientId) /\ fits(req.nickname)
  BY <1>2, Copies, SameCopies, Somebody DEF Client!packLoginRequest, Server!parseLoginRequest
<1>4. p = up(c, m) /\ HandleLogin(p) /\ p.conn = c /\ p.m = m
  BY <1>1, <1>3, Kinds, Envelope
<1>5. UNCHANGED <<identity, userList, sendSessions, pendingOffers, recvSessions, fileSessions>> /\ Idle'
  BY <1>4 DEF HandleLogin, clientVars, history, Idle
<1> HIDE DEF m, req
<1>6. CASE canLogin(req)
  <2>1. /\ table' = [table EXCEPT ![c] = req]
        /\ wire' = {down(c, Server!packLoginResponse(LOGIN_SUCCESS))} \cup userLists(table', online \cup {c})
    BY <1>1, <1>3, <1>4, <1>6 DEF HandleLogin, Handle
  <2>2. table'[c] = req /\ \A d \in Clients \ {c} : table'[d] = table[d]
    BY <1>1, <2>1 DEF Tables, Shapes
  <2>3. online' = online \cup {c}
    BY <1>1, <1>3, <2>2 DEF online
  <2>4. Shapes'
    <3>1. table' \in [Clients -> [clientId : Text, nickname : Text] \cup {None}]
      BY <1>3, <2>1 DEF Tables, Shapes
    <3>2. IsFiniteSet(online') /\ Cardinality(online') = Cardinality(online) + 1
      BY <1>1, <2>3, FS_AddElement DEF Tables, Shapes
    <3>3. Cardinality(online) + Others < kMaxOnlineClients /\ Cardinality(online) \in Nat /\ Others \in Nat
      BY <1>6, FS_CardinalityType, WireAssumption DEF canLogin, Tables, Shapes, kMaxOnlineClients
    <3>4. Cardinality(online') + Others <= kMaxOnlineClients
      BY <3>2, <3>3 DEF kMaxOnlineClients
    <3> QED BY <1>5, <3>1, <3>2, <3>4 DEF Tables, Shapes
  <2>5. Registered'
    <3>1. \A d \in online' : /\ fits(table'[d].clientId) /\ fits(table'[d].nickname)
                             /\ There(d)' => /\ table'[d].clientId = strncpy(identity'[d].id)
                                             /\ table'[d].nickname = strncpy(identity'[d].nick)
      BY <1>1, <1>3, <1>5, <2>2, <2>3 DEF Tables, Registered, There, online, req
    <3>2. \A d \in online : table'[d].clientId # req.clientId
      BY <1>1, <1>6, <2>2 DEF canLogin, online
    <3>3. \A d, e \in online' : table'[d].clientId = table'[e].clientId => d = e
      BY <1>1, <2>2, <2>3, <3>2 DEF Tables, Registered, online
    <3> QED BY <3>1, <3>3 DEF Registered
  <2>6. Sessions'
    BY <1>5, <2>3 DEF Tables, Sessions, There
  <2>7. Listing'
    <3>1. wire' = {down(c, Server!packLoginResponse(LOGIN_SUCCESS))} \cup {down(d, TheList') : d \in online'}
      BY <2>1, <2>3, NewListGoes
    <3>2. \A d \in Clients : There(d)' <=> d \in online'
      BY <1>1, <1>5, <2>3 DEF SettledBut, There
    <3> QED BY <2>3, <3>1, <3>2 DEF Listing
  <2> QED BY <1>5, <2>4, <2>5, <2>6, <2>7 DEF WireInv, Coming, Tables
<1>7. CASE ~canLogin(req)
  <2>1. table' = table /\ wire' = {down(c, Server!packLoginResponse(LOGIN_ALREADY_ONLINE))}
    BY <1>1, <1>3, <1>4, <1>7 DEF HandleLogin, Handle
  <2>2. Tables'
    BY <1>5, <2>1, TablesRest DEF clientVars, serverVars
  <2>3. LoginRefused'
    BY <1>1, <1>5, <2>1 DEF LoginRefused, SettledBut, There, online, View, Entry
  <2> QED BY <1>5, <2>2, <2>3 DEF WireInv, Coming
<1> QED BY <1>6, <1>7

\* onLoginFailed: who is refused is nobody again.
LEMMA RefusalArrives ==
  ASSUME Tables, Idle, LoginRefused, NEW p \in wire, Deliver(p)
  PROVE  WireInv'
<1>1. PICK c \in Clients \ online :
        /\ There(c) /\ SettledBut({c})
        /\ wire = {down(c, Server!packLoginResponse(LOGIN_ALREADY_ONLINE))}
  BY DEF LoginRefused
<1> DEFINE m == Server!packLoginResponse(LOGIN_ALREADY_ONLINE)
<1>2. m.type = "loginResponse" /\ htonl(m.result) # LOGIN_SUCCESS
  BY ShortTurned DEF Server!packLoginResponse, LOGIN_ALREADY_ONLINE, LOGIN_SUCCESS
<1>3. p = down(c, m) /\ LoginResponse(p) /\ p.conn = c /\ p.m = m
  BY <1>1, <1>2, Kinds, Envelope
<1> HIDE DEF m
<1>4. /\ wire' = {} /\ identity' = [identity EXCEPT ![c] = None]
      /\ UNCHANGED <<userList, sendSessions, pendingOffers, recvSessions, table, fileSessions>>
      /\ Idle'
  BY <1>1, <1>2, <1>3 DEF LoginResponse, Handle, serverVars, history, Idle
<1>5. identity'[c] = None /\ \A d \in Clients \ {c} : identity'[d] = identity[d]
  BY <1>1, <1>4 DEF Tables, Shapes
<1>6. online' = online /\ View' = View
  BY <1>4 DEF online, View, Entry
<1>7. Shapes'
  BY <1>4, <1>6 DEF Tables, Shapes
<1>8. Registered'
  BY <1>1, <1>4, <1>5, <1>6 DEF Tables, Registered, There, online
<1>9. Sessions'
  BY <1>1, <1>4, <1>5, <1>6 DEF Tables, Sessions, There, online
<1>10. Listing'
  <2>1. \A d \in Clients : There(d)' <=> d \in online'
    BY <1>1, <1>5, <1>6 DEF SettledBut, There
  <2>2. \A d \in online' : userList'[d] = View'
    BY <1>1, <1>4, <1>6 DEF SettledBut, online
  <2> QED BY <1>4, <2>1, <2>2 DEF Listing
<1> QED BY <1>4, <1>7, <1>8, <1>9, <1>10 DEF WireInv, Coming, Tables

\* A list that has come is what is to be seen.
LEMMA ListTaken ==
  ASSUME Tables, NEW c \in online, UserListResponse(down(c, TheList))
  PROVE  /\ userList'[c] = View /\ \A d \in Clients \ {c} : userList'[d] = userList[d]
         /\ DOMAIN userList' = Clients
         /\ wire' = wire \ {down(c, TheList)}
         /\ UNCHANGED <<identity, sendSessions, pendingOffers, recvSessions, table, fileSessions, history>>
<1>1. userList' = [userList EXCEPT ![c] = Client!parseUserListResponse(TheList)]
  BY Envelope DEF UserListResponse
<1>2. c \in Clients /\ DOMAIN userList = Clients /\ Client!parseUserListResponse(TheList) = View
  BY TheListGoes DEF Tables, Shapes, online
<1> QED BY <1>1, <1>2 DEF UserListResponse, Handle, serverVars

\* What goes round after a login or a logout: the acceptance, the request it makes the chat window
\* send, and the lists; whoever has not got one yet gets one.
LEMMA ListingGoesOn ==
  ASSUME Tables, Idle, Listing, NEW p \in wire, Deliver(p)
  PROVE  WireInv'
<1>1. PICK c \in online :
        p \in {down(c, Server!packLoginResponse(LOGIN_SUCCESS)),
               up(c, Client!packUserListRequest), down(c, TheList)}
  BY DEF Listing
<1>2. CASE p = down(c, Server!packLoginResponse(LOGIN_SUCCESS))
  <2> DEFINE m == Server!packLoginResponse(LOGIN_SUCCESS)
  <2>1. m.type = "loginResponse" /\ htonl(m.result) = LOGIN_SUCCESS
    BY ShortTurned DEF Server!packLoginResponse, LOGIN_SUCCESS
  <2>2. p = down(c, m)
    BY <1>2
  <2> HIDE DEF m
  <2>3. LoginResponse(p) /\ p.conn = c /\ p.m = m
    BY <2>1, <2>2, Kinds, Envelope
  <2>4. TheList.type = "userList"
    BY DEF TheList, Server!packUserListResponse
  <2>5. \A d : p # down(d, TheList)
    BY <2>1, <2>2, <2>4, Envelope
  <2>6. /\ wire' = (wire \ {p}) \cup {up(c, Client!packUserListRequest)}
        /\ UNCHANGED <<identity, userList, sendSessions, pendingOffers, recvSessions, serverVars, history>>
    BY <2>1, <2>3 DEF LoginResponse, Handle
  <2>7. Tables' /\ online' = online /\ View' = View /\ TheList' = TheList
    BY <2>6, TablesRest, Frame DEF clientVars, serverVars
  <2>8. Listing'
    BY <2>5, <2>6, <2>7 DEF Listing, There
  <2> QED BY <2>6, <2>7, <2>8 DEF WireInv, Coming, Idle, history
<1>3. CASE p = up(c, Client!packUserListRequest)
  <2>1. HandleUserListRequest(p) /\ p.conn = c
    BY <1>3, Kinds, Envelope DEF Client!packUserListRequest
  <2>2. \A d : p # down(d, TheList)
    BY <1>3, Envelope
  <2>3. wire' = (wire \ {p}) \cup {down(c, TheList)} /\ UNCHANGED <<clientVars, serverVars, history>>
    BY <2>1, TheListGoes DEF HandleUserListRequest, Handle
  <2>4. Tables' /\ online' = online /\ View' = View /\ TheList' = TheList
    BY <2>3, TablesRest, Frame DEF clientVars, serverVars
  <2>5. Listing'
    BY <2>2, <2>3, <2>4 DEF Listing, There, clientVars
  <2> QED BY <2>3, <2>4, <2>5 DEF WireInv, Coming, Idle, history
<1>4. CASE p = down(c, TheList)
  <2>1. TheList.type = "userList"
    BY DEF TheList, Server!packUserListResponse
  <2>2. UserListResponse(p)
    BY <1>4, <2>1, Kinds
  <2>3. /\ userList'[c] = View /\ \A d \in Clients \ {c} : userList'[d] = userList[d]
        /\ DOMAIN userList' = Clients
        /\ wire' = wire \ {p}
        /\ UNCHANGED <<identity, sendSessions, pendingOffers, recvSessions, table, fileSessions, history>>
    BY <1>4, <2>2, ListTaken
  <2>4. online' = online /\ View' = View /\ TheList' = TheList
    BY <2>3 DEF online, View, TheList, Entry, Listed
  <2>5. Tables'
    BY <2>3, <2>4 DEF Tables, Shapes, Registered, Sessions, There
  <2>6. Listing'
    <3>1. \A d \in online : d # c => p # down(d, TheList)
      BY <1>4, Envelope
    <3>2. \A d \in online : userList'[d] = View \/ down(d, TheList) \in wire'
      BY <2>3, <3>1 DEF Listing, online
    <3> QED BY <2>3, <2>4, <3>2 DEF Listing, There
  <2> QED BY <2>3, <2>5, <2>6 DEF WireInv, Coming, Idle, history
<1> QED BY <1>1, <1>2, <1>3, <1>4

\* Server::handleLogoutRequest and handleClientDisconnect: whoever leaves goes from the table, its
\* sessions with it, and everybody else gets the new list.
LEMMA LogoutArrives ==
  ASSUME Tables, Idle, LogoutSent, NEW p \in wire, Deliver(p)
  PROVE  WireInv'
<1>1. PICK c \in online :
        ~There(c) /\ SettledBut({c}) /\ wire = {up(c, Client!packLogoutRequest)}
  BY DEF LogoutSent
<1>2. p = up(c, Client!packLogoutRequest) /\ HandleLogout(p) /\ p.conn = c
  BY <1>1, Kinds, Envelope DEF Client!packLogoutRequest
<1>3. /\ table' = [table EXCEPT ![c] = None]
      /\ wire' = userLists(table', online \ {c})
      /\ UNCHANGED <<identity, userList, sendSessions, pendingOffers, recvSessions>> /\ Idle'
      /\ fileSessions' =
           [f \in FileIds |->
              IF fileSessions[f] # None /\ c \in {fileSessions[f].sender, fileSessions[f].receiver}
              THEN None ELSE fileSessions[f]]
  BY <1>1, <1>2 DEF HandleLogout, Handle, clientVars, history, Idle
<1>4. c \in Clients /\ table'[c] = None /\ \A d \in Clients \ {c} : table'[d] = table[d]
  BY <1>3 DEF Tables, Shapes, online
<1>5. online' = online \ {c}
  BY <1>4 DEF online
<1>6. Shapes'
  <2>1. IsFiniteSet(online') /\ Cardinality(online') = Cardinality(online) - 1 /\ Cardinality(online) \in Nat
    BY <1>5, FS_RemoveElement, FS_CardinalityType DEF Tables, Shapes
  <2>2. Cardinality(online') + Others <= kMaxOnlineClients
    BY <2>1, WireAssumption DEF Tables, Shapes, kMaxOnlineClients
  <2>3. fileSessions' \in [FileIds -> [sender : Clients, receiver : Clients] \cup {None}]
    BY <1>3 DEF Tables, Shapes
  <2>4. table' \in [Clients -> [clientId : Text, nickname : Text] \cup {None}]
    BY <1>3 DEF Tables, Shapes
  <2> QED BY <1>3, <2>1, <2>2, <2>3, <2>4 DEF Tables, Shapes
<1>7. Registered'
  BY <1>3, <1>4, <1>5 DEF Tables, Registered, There, online
<1>8. Sessions'
  BY <1>3, <1>5 DEF Tables, Sessions, There
<1>9. Listing'
  <2>1. wire' = {down(d, TheList') : d \in online'}
    BY <1>3, <1>5, NewListGoes
  <2>2. \A d \in Clients : There(d)' <=> d \in online'
    BY <1>1, <1>3, <1>5 DEF SettledBut, There
  <2> QED BY <2>1, <2>2 DEF Listing
<1> QED BY <1>3, <1>6, <1>7, <1>8, <1>9 DEF WireInv, Coming, Tables

----------------------------------------------------------------------------
(* Chat. *)

\* A target is a text: the group's is none, others are ids, typed or taken from the list.
LEMMA Targets ==
  ASSUME Tables, Settled, NEW c \in online, NEW target \in Target(c)
  PROVE  /\ toId(target) \in Text \/ isGroup(target)
         /\ target.item = None \/ \E d \in online : target.item = Entry(d) /\ target.item # None
         /\ target.item # None => target.edited = None
         /\ target.edited \in Ids \cup {NoText, None}
<1>1. c \in Clients /\ userList[c] = View
  BY DEF Settled, SettledBut, online
<1>2. \A d \in online : table[d].clientId \in Text /\ table[d].nickname \in Text /\ d \in Clients
  BY DEF Tables, Shapes, online
<1>3. \A d \in online : /\ Entry(d).id \in Text /\ Entry(d).nick \in Text
                        /\ Entry(d) # None /\ Entry(d).of = d
  BY <1>2, Copies, Somebody DEF Entry
<1>4. \A u \in offered(c) : \E d \in online : u = Entry(d)
  BY <1>1 DEF offered, View
<1>5. \/ target.item \in offered(c) /\ target.edited = None
      \/ target.item = None /\ target.edited \in Ids \cup {NoText, None}
  BY DEF Target
<1>6. target.item = None \/ \E d \in online : target.item = Entry(d) /\ target.item # None
  BY <1>3, <1>4, <1>5
<1>7. toId(target) \in Text \/ isGroup(target)
  BY <1>3, <1>5, <1>6, Typed, Copies DEF toId, isGroup
<1> QED BY <1>3, <1>4, <1>5, <1>6, <1>7

\* Server::handleChatMessage: the server looks up what fits of the target, and signs with the name it
\* has in its table.
LEMMA ChatArrives ==
  ASSUME Tables, Chatting, ChatSent, NEW p \in wire, Deliver(p)
  PROVE  WireInv'
<1> DEFINE c == asked.by
           private == ~isGroup(asked.target)
           to == IF isGroup(asked.target) THEN NoText ELSE toId(asked.target)
           m == Client!packChatMessage(private, identity[c].id, identity[c].nick, to, asked.text)
<1>1. c \in online /\ asked.text \in Text /\ to \in Text
  BY Targets, Typed DEF Chatting
<1>2. strncpy(strncpy(to)) = strncpy(to) /\ strncpy(strncpy(asked.text)) = strncpy(asked.text)
  BY <1>1, Copies
<1>3. /\ m.type = "chat"
      /\ Server!parseChatMessage(m).private = private
      /\ Server!parseChatMessage(m).toId = strncpy(to)
      /\ Server!parseChatMessage(m).message = strncpy(asked.text)
  BY <1>2, SameCopies DEF Client!packChatMessage, Server!parseChatMessage
<1>4. p = up(c, m)
  BY DEF ChatSent, chatUp
<1> HIDE DEF m
<1>5. HandleChatMessage(p) /\ p.conn = c /\ p.m = m /\ wire \ {p} = {}
  BY <1>3, <1>4, Kinds, Envelope DEF ChatSent
<1>6. UNCHANGED <<clientVars, serverVars, history>>
  BY <1>5 DEF HandleChatMessage
<1>7. wire' = {chatDown(d) : d \in addressees}
  <2>1. private => to = toId(asked.target)
    OBVIOUS
  <2>2. (IF private THEN holders(strncpy(to)) ELSE online \ {c}) = addressees
    BY <2>1 DEF addressees
  <2>3. /\ fits(table[c].clientId) /\ fits(table[c].nickname)
    BY <1>1 DEF Tables, Registered
  <2>4. strncpy(to) = IF isGroup(asked.target) THEN NoText ELSE strncpy(toId(asked.target))
    BY DEF strncpy, NoText, Wide
  <2>5. \A d : down(d, Server!packChatMessage(private, table[c].clientId, table[c].nickname,
                         strncpy(to), strncpy(asked.text))) = chatDown(d)
    BY <2>4 DEF chatDown
  <2> HIDE DEF private, to
  <2> QED BY <1>3, <1>5, <2>2, <2>5 DEF HandleChatMessage, Handle
<1>8. Tables' /\ Settled'
  BY <1>6, TablesRest DEF Chatting
<1>9. UNCHANGED <<identity, userList, table, asked, shown>> /\ online' = online
  BY <1>6 DEF clientVars, serverVars, history, online
<1>10. /\ addressees' = addressees /\ Target(c)' = Target(c)
       /\ \A d : chatDown(d)' = chatDown(d) /\ chatShown(d)' = chatShown(d)
  BY <1>9, AskedFrame
<1>11. ChatSpread'
  <2>1. wire' = {chatDown(d)' : d \in addressees'} /\ shown' = {}
    BY <1>7, <1>9, <1>10 DEF ChatSent
  <2>2. shown' = {chatShown(d)' : d \in addressees' \ addressees'}
    BY <2>1
  <2> QED BY <2>1, <2>2 DEF ChatSpread
<1> QED BY <1>8, <1>9, <1>10, <1>11 DEF WireInv, Chatting

\* TcpClient::processMessage: the message is shown as it came, and is on its way no more.
LEMMA ChatShows ==
  ASSUME Tables, Chatting, ChatSpread, NEW p \in wire, Deliver(p)
  PROVE  WireInv'
<1>1. PICK T \in SUBSET addressees :
        wire = {chatDown(d) : d \in T} /\ shown = {chatShown(d) : d \in addressees \ T}
  BY DEF ChatSpread
<1>2. PICK d \in T : p = chatDown(d)
  BY <1>1
<1> DEFINE c == asked.by
           to == IF isGroup(asked.target) THEN NoText ELSE strncpy(toId(asked.target))
           m == Server!packChatMessage(~isGroup(asked.target), table[c].clientId,
                  table[c].nickname, to, strncpy(asked.text))
<1>3. /\ strncpy(table[c].clientId) = table[c].clientId
      /\ strncpy(table[c].nickname) = table[c].nickname
      /\ strncpy(strncpy(asked.text)) = strncpy(asked.text)
  BY Typed, Copies DEF Tables, Registered, Chatting, fits
<1>4. /\ m.type = "chat"
      /\ Client!parseChatMessage(m).fromId = fromUtf8(table[c].clientId)
      /\ Client!parseChatMessage(m).fromNick = fromUtf8(table[c].nickname)
      /\ Client!parseChatMessage(m).message = fromUtf8(strncpy(asked.text))
  BY <1>3, SameCopies DEF Server!packChatMessage, Client!parseChatMessage
<1>5. p = down(d, m)
  BY <1>2 DEF chatDown
<1> HIDE DEF m
<1>6. ChatMessage(p) /\ p.conn = d /\ p.m = m
  BY <1>4, <1>5, Kinds, Envelope
<1>7. /\ wire' = wire \ {chatDown(d)} /\ shown' = shown \cup {chatShown(d)}
      /\ asked' = asked
      /\ UNCHANGED <<clientVars, serverVars>>
  BY <1>2, <1>4, <1>6 DEF ChatMessage, Handle, Show, chatShown
<1>8. Tables' /\ Settled'
  BY <1>7, TablesRest DEF Chatting
<1>9. UNCHANGED <<identity, userList, table, asked>> /\ online' = online
  BY <1>7 DEF clientVars, serverVars, online
<1>10. /\ addressees' = addressees /\ Target(c)' = Target(c)
       /\ \A e : chatDown(e)' = chatDown(e) /\ chatShown(e)' = chatShown(e)
  BY <1>9, AskedFrame
<1>11. ChatSpread'
  <2>1. \A e \in T : chatDown(e) = chatDown(d) => e = d
    BY Envelope DEF chatDown
  <2>2. wire' = {chatDown(e) : e \in T \ {d}}
    BY <1>1, <1>7, <2>1
  <2>3. shown' = {chatShown(e) : e \in addressees \ (T \ {d})}
    BY <1>1, <1>7
  <2>4. wire' = {chatDown(e)' : e \in T \ {d}} /\ shown' = {chatShown(e)' : e \in addressees' \ (T \ {d})}
    BY <1>10, <2>2, <2>3
  <2> QED BY <1>10, <2>4 DEF ChatSpread
<1> QED BY <1>7, <1>8, <1>9, <1>10, <1>11 DEF WireInv, Chatting

----------------------------------------------------------------------------
(* Offers. *)

\* A file id fits into its field in both programs.
LEMMA FileIdFits ==
  /\ \A f : /\ Client!fileIdIn(Client!FileIdSize, f) = f /\ Server!fileIdIn(Server!FileIdSize, f) = f
            /\ fileIdIn(kFileIdSize, f) = f
BY DEF Client!fileIdIn, Client!FileIdSize, Server!fileIdIn, Server!FileIdSize, fileIdIn, kFileIdSize

\* What a step that leaves the clients and the table alone keeps.
LEMMA ServerFrame ==
  ASSUME Tables, Settled, UNCHANGED <<clientVars, table, asked>>
  PROVE  /\ Settled' /\ Registered' /\ online' = online /\ addressees' = addressees
         /\ \A c : Target(c)' = Target(c)
         /\ (fileSessions' \in [FileIds -> [sender : Clients, receiver : Clients] \cup {None}]) => Shapes'
<1>1. UNCHANGED <<identity, userList, sendSessions, pendingOffers, recvSessions>>
  BY DEF clientVars
<1> QED BY <1>1, Frame, AskedFrame DEF Tables, Shapes

\* Server::handleFileOffer: the offer goes to whoever has the name in the table, with a new session,
\* or is refused.
LEMMA OfferArrives ==
  ASSUME Tables, Offering, OfferSent, NEW p \in wire, Deliver(p)
  PROVE  WireInv'
<1> DEFINE c == asked.by
           f == asked.file
           to == toId(asked.target)
           m == Client!packFileOffer(f, FileSize, identity[c].id, identity[c].nick, to)
<1>1. c \in online /\ c \in Clients /\ f \in FileIds /\ to \in Text /\ Settled /\ asked.target \in Target(c)
  BY Targets DEF Offering, online
<1>2. strncpy(strncpy(to)) = strncpy(to)
  BY <1>1, Copies
<1>3. /\ m.type = "offer"
      /\ Server!parseFileOffer(m).fileId = f
      /\ Server!parseFileOffer(m).fileSize = FileSize
      /\ Server!parseFileOffer(m).toId = strncpy(to)
  BY <1>2, SameCopies, FileIdFits, Turned DEF Client!packFileOffer, Server!parseFileOffer, FileSize
<1>4. p = up(c, m)
  BY DEF OfferSent
<1> HIDE DEF m
<1>5. HandleFileOffer(p) /\ p.conn = c /\ p.m = m /\ wire \ {p} = {}
  BY <1>3, <1>4, Kinds, Envelope DEF OfferSent
<1>6. UNCHANGED <<clientVars, table, asked, shown>>
  BY <1>5 DEF HandleFileOffer, history
<1>7. holders(strncpy(to)) = addressees
  BY DEF addressees, Offering
<1>8. CASE /\ addressees = {}
           /\ Handle(p, {down(c, Server!packFileOfferResponse(f, FILE_OFFER_BUSY))})
           /\ UNCHANGED fileSessions
  <2>1. Tables' /\ Settled'
    BY <1>1, <1>6, <1>8, TablesRest DEF serverVars
  <2>2. OfferRefused'
    BY <1>1, <1>5, <1>6, <1>8, ServerFrame DEF OfferRefused, OfferSent, Handle
  <2> QED BY <1>1, <1>6, <2>1, <2>2, ServerFrame DEF WireInv, Offering
<1>9. ASSUME NEW d \in addressees,
             wire' = {down(d, Server!packFileOffer(f, FileSize, table[c].clientId,
                                table[c].nickname, strncpy(to)))},
             fileSessions' = [fileSessions EXCEPT ![f] = [sender |-> c, receiver |-> d]]
      PROVE  WireInv'
  <2>1. d \in online /\ d \in Clients
    BY <1>1, <1>7, <1>9, Holders DEF Tables, online
  <2>2. /\ fileSessions'[f] = [sender |-> c, receiver |-> d]
        /\ \A g \in FileIds : g # f => fileSessions'[g] = fileSessions[g]
        /\ fileSessions' \in [FileIds -> [sender : Clients, receiver : Clients] \cup {None}]
    BY <1>1, <1>9, <2>1 DEF Tables, Shapes
  <2>3. UNCHANGED <<identity, pendingOffers, sendSessions>> /\ Unoffered(f) /\ f \in sendSessions[c]
    BY <1>6 DEF clientVars, OfferSent
  <2>4. Settled' /\ Registered' /\ Shapes' /\ online' = online /\ addressees' = addressees /\ Target(c)' = Target(c)
    BY <1>1, <1>6, <2>2, ServerFrame
  <2>5. Sessions'
    BY <1>1, <2>1, <2>2, <2>3, <2>4 DEF Tables, Sessions, There, Unoffered
  <2>6. OfferRelayed'
    BY <1>6, <1>9, <2>2, <2>3, <2>4 DEF OfferRelayed, OfferSent, Unoffered
  <2> QED BY <1>1, <1>6, <2>4, <2>5, <2>6 DEF WireInv, Offering, Tables
<1>10. \/ /\ addressees = {}
          /\ Handle(p, {down(c, Server!packFileOfferResponse(f, FILE_OFFER_BUSY))})
          /\ UNCHANGED fileSessions
       \/ \E d \in addressees :
            /\ wire' = {down(d, Server!packFileOffer(f, FileSize, table[c].clientId,
                                  table[c].nickname, strncpy(to)))}
            /\ fileSessions' = [fileSessions EXCEPT ![f] = [sender |-> c, receiver |-> d]]
  BY <1>3, <1>5, <1>7 DEF HandleFileOffer, Handle
<1> QED BY <1>8, <1>9, <1>10

\* TcpClient::processMessage: the sender of an offer that nobody can get is told so.
LEMMA BusyArrives ==
  ASSUME Tables, Offering, OfferRefused, NEW p \in wire, Deliver(p)
  PROVE  WireInv'
<1> DEFINE c == asked.by
           f == asked.file
           m == Server!packFileOfferResponse(f, FILE_OFFER_BUSY)
<1>1. wire = {down(c, m)} /\ shown = {} /\ addressees = {} /\ fileSessions[f] = None
  BY DEF OfferRefused
<1>2. /\ m.type = "offerResponse"
      /\ Client!parseFileOfferResponse(m).fileId = f
      /\ Client!parseFileOfferResponse(m).result = FILE_OFFER_BUSY
      /\ FILE_OFFER_BUSY # FILE_OFFER_ACCEPT
  BY FileIdFits, ShortTurned
     DEF Server!packFileOfferResponse, Client!parseFileOfferResponse, FILE_OFFER_BUSY, FILE_OFFER_ACCEPT
<1>3. p = down(c, m)
  BY <1>1
<1> HIDE DEF m
<1>4. FileOfferResponse(p) /\ p.conn = c /\ p.m = m /\ wire \ {p} = {}
  BY <1>1, <1>2, <1>3, Kinds, Envelope
<1>5. /\ wire' = {}
      /\ sendSessions' = [sendSessions EXCEPT ![c] = @ \ {f}]
      /\ shown' = {[what |-> "answer", at |-> c, file |-> f, result |-> FILE_OFFER_BUSY]}
      /\ UNCHANGED <<identity, userList, pendingOffers, recvSessions, table, fileSessions, asked>>
  BY <1>1, <1>2, <1>4 DEF FileOfferResponse, Handle, Show, serverVars
<1>6. online' = online /\ Settled' /\ Registered' /\ addressees' = addressees /\ Target(c)' = Target(c)
  BY <1>5, Frame, AskedFrame DEF Tables, Offering
<1>7. c \in Clients /\ \A g \in FileIds, d \in Clients : g # f /\ g \in sendSessions[d] => g \in sendSessions'[d]
  BY <1>5 DEF Offering, online, Tables, Shapes
<1>8. Shapes'
  BY <1>5, <1>6 DEF Tables, Shapes
<1>9. Sessions'
  <2>1. \A g \in FileIds : fileSessions[g] # None => g # f /\ fileSessions[g].sender \in Clients
    BY <1>1 DEF Tables, Shapes
  <2> QED BY <1>5, <1>6, <1>7, <2>1 DEF Tables, Sessions, There
<1>10. OfferRefused'
  BY <1>1, <1>5, <1>6 DEF OfferRefused
<1> QED BY <1>5, <1>6, <1>8, <1>9, <1>10 DEF WireInv, Offering, Tables

\* TcpClient::processMessage: the offer waits for an answer, and is shown.
LEMMA OfferShows ==
  ASSUME Tables, Offering, OfferRelayed, NEW p \in wire, Deliver(p)
  PROVE  WireInv'
<1> DEFINE c == asked.by
           f == asked.file
           to == strncpy(toId(asked.target))
           m == Server!packFileOffer(f, FileSize, table[c].clientId, table[c].nickname, to)
<1>1. PICK d \in addressees :
        /\ wire = {down(d, m)} /\ shown = {}
        /\ fileSessions[f] = [sender |-> c, receiver |-> d]
        /\ Unoffered(f) /\ f \in sendSessions[c]
  BY DEF OfferRelayed
<1>2. /\ strncpy(table[c].clientId) = table[c].clientId
      /\ strncpy(table[c].nickname) = table[c].nickname
  BY DEF Tables, Registered, Offering, fits
<1>3. /\ m.type = "offer"
      /\ Client!parseFileOffer(m).fileId = f
      /\ Client!parseFileOffer(m).fileSize = FileSize
      /\ Client!parseFileOffer(m).fromId = fromUtf8(table[c].clientId)
      /\ Client!parseFileOffer(m).fromNick = fromUtf8(table[c].nickname)
  BY <1>2, SameCopies, FileIdFits, Turned DEF Server!packFileOffer, Client!parseFileOffer, FileSize
<1>4. p = down(d, m)
  BY <1>1
<1> HIDE DEF m
<1>5. FileOffer(p) /\ p.conn = d /\ p.m = m /\ wire \ {p} = {}
  BY <1>1, <1>3, <1>4, Kinds, Envelope
<1>6. /\ wire' = {}
      /\ pendingOffers' = [pendingOffers EXCEPT ![d] = @ \cup {f}]
      /\ shown' = {[what |-> "offer", at |-> d, id |-> fromUtf8(table[c].clientId),
                    nick |-> fromUtf8(table[c].nickname), file |-> f, size |-> FileSize]}
      /\ UNCHANGED <<identity, userList, sendSessions, recvSessions, table, fileSessions, asked>>
  BY <1>1, <1>3, <1>5 DEF FileOffer, Handle, Show, serverVars
<1>7. online' = online /\ Settled' /\ Registered' /\ addressees' = addressees /\ Target(c)' = Target(c)
  BY <1>6, Frame, AskedFrame DEF Tables, Offering
<1>8. \A g \in FileIds, e \in Clients : g \in pendingOffers'[e] => g \in pendingOffers[e] \/ (g = f /\ e = d)
  BY <1>6 DEF Tables, Shapes
<1>9. Shapes'
  BY <1>6, <1>7 DEF Tables, Shapes, Offering
<1>10. Sessions'
  <2> SUFFICES ASSUME NEW g \in FileIds, fileSessions[g] # None
               PROVE  LET s == fileSessions[g]
                      IN  /\ s.sender \in online /\ s.receiver \in online
                          /\ \A e \in Clients : g \in pendingOffers'[e] =>
                               e = s.receiver /\ (There(s.sender) => g \in sendSessions[s.sender])
    BY <1>6, <1>7 DEF Sessions, There
  <2> QED BY <1>1, <1>8 DEF Tables, Sessions
<1>11. OfferShown'
  BY <1>6, <1>7 DEF OfferShown
<1> QED BY <1>6, <1>7, <1>9, <1>10, <1>11 DEF WireInv, Offering, Tables

----------------------------------------------------------------------------
(* Answers and files. *)

\* The results keep apart from one another in both byte orders.
LEMMA Results ==
  ASSUME NEW r \in {FILE_OFFER_ACCEPT, FILE_OFFER_DECLINE}, NEW f
  PROVE  /\ Server!parseFileOfferResponse(Client!packFileOfferResponse(f, r)) = [fileId |-> f, result |-> r]
         /\ Client!parseFileOfferResponse(Server!packFileOfferResponse(f, r)) = [fileId |-> f, result |-> r]
         /\ Client!packFileOfferResponse(f, r).type = "offerResponse"
         /\ Server!packFileOfferResponse(f, r).type = "offerResponse"
BY FileIdFits, ShortTurned
   DEF Server!packFileOfferResponse, Client!parseFileOfferResponse, Client!packFileOfferResponse,
       Server!parseFileOfferResponse, FILE_OFFER_ACCEPT, FILE_OFFER_DECLINE

\* Server::handleFileOfferResponse: the answer goes to the sender of the offer; a session that is
\* declined is no more.
LEMMA AnswerArrives ==
  ASSUME Tables, Answering, AnswerSent, NEW p \in wire, Deliver(p)
  PROVE  WireInv'
<1> DEFINE c == asked.by
           f == asked.file
           r == asked.result
           s == asked.session
           m == Client!packFileOfferResponse(f, r)
<1>1. /\ c \in online /\ f \in FileIds /\ r \in {FILE_OFFER_ACCEPT, FILE_OFFER_DECLINE} /\ Settled
      /\ wire = {up(c, m)} /\ shown = {} /\ fileSessions[f] = s
      /\ s # None => /\ s.receiver = c /\ s.sender \in Clients
                     /\ f \in sendSessions[s.sender] /\ Unoffered(f) /\ Prepared
  BY DEF Answering, AnswerSent
<1>2. m.type = "offerResponse" /\ Server!parseFileOfferResponse(m) = [fileId |-> f, result |-> r]
  BY <1>1, Results
<1>3. p = up(c, m)
  BY <1>1
<1> HIDE DEF m
<1>4. HandleFileOfferResponse(p) /\ p.conn = c /\ p.m = m /\ wire \ {p} = {}
  BY <1>1, <1>2, <1>3, Kinds, Envelope
<1>5. UNCHANGED <<clientVars, table, asked, shown>>
  BY <1>4 DEF HandleFileOfferResponse, history
<1>6. /\ c \in online' /\ Settled' /\ Registered' /\ online' = online
      /\ fileSessions' \in [FileIds -> [sender : Clients, receiver : Clients] \cup {None}] => Shapes'
  BY <1>1, <1>5, ServerFrame
<1>7. UNCHANGED <<identity, sendSessions, pendingOffers, recvSessions>>
  BY <1>5 DEF clientVars
<1>8. session(f) = s
  BY <1>1 DEF session
<1>9. CASE s # None
  <2>1. /\ wire' = {down(s.sender, Server!packFileOfferResponse(f, r))}
        /\ fileSessions' = IF r = FILE_OFFER_ACCEPT THEN fileSessions ELSE [fileSessions EXCEPT ![f] = None]
    BY <1>1, <1>2, <1>4, <1>8, <1>9 DEF HandleFileOfferResponse, Handle
  <2>2. fileSessions' \in [FileIds -> [sender : Clients, receiver : Clients] \cup {None}]
    BY <2>1 DEF Tables, Shapes
  <2>3. \A g \in FileIds : fileSessions'[g] = fileSessions[g] \/ fileSessions'[g] = None
    BY <2>1 DEF Tables, Shapes
  <2>4. Sessions'
    BY <1>6, <1>7, <2>3 DEF Tables, Sessions, There
  <2>5. s = [sender |-> s.sender, receiver |-> c]
    BY <1>1, <1>9 DEF Tables, Shapes
  <2>6. AnswerRelayed'
    BY <1>1, <1>5, <1>7, <1>9, <2>1, <2>5 DEF AnswerRelayed, Prepared, accepting, Unoffered
  <2> QED BY <1>1, <1>5, <1>6, <2>2, <2>4, <2>6 DEF WireInv, Answering, Tables
<1>10. CASE s = None
  <2>1. wire' = {} /\ UNCHANGED fileSessions
    BY <1>2, <1>4, <1>8, <1>10 DEF HandleFileOfferResponse, Handle
  <2>2. Tables'
    BY <1>5, <2>1, TablesRest DEF serverVars
  <2>3. AnswerDropped'
    BY <1>1, <1>5, <1>10, <2>1 DEF AnswerDropped
  <2> QED BY <1>1, <1>5, <1>6, <2>2, <2>3 DEF WireInv, Answering
<1> QED BY <1>9, <1>10

\* TcpClient::processMessage and sendFile: the sender of the offer sees the answer, and sends if it
\* is yes.
LEMMA AnswerShows ==
  ASSUME Tables, Answering, AnswerRelayed, NEW p \in wire, Deliver(p)
  PROVE  WireInv'
<1> DEFINE c == asked.by
           f == asked.file
           r == asked.result
           s == asked.session
           m == Server!packFileOfferResponse(f, r)
<1>1. /\ c \in online /\ f \in FileIds /\ r \in {FILE_OFFER_ACCEPT, FILE_OFFER_DECLINE} /\ Settled
      /\ wire = {down(s.sender, m)} /\ shown = {}
      /\ s = [sender |-> s.sender, receiver |-> c] /\ s.sender \in Clients
      /\ f \in sendSessions[s.sender] /\ Unoffered(f) /\ Prepared
  BY DEF Answering, AnswerRelayed
<1>2. m.type = "offerResponse" /\ Client!parseFileOfferResponse(m) = [fileId |-> f, result |-> r]
  BY <1>1, Results
<1>3. p = down(s.sender, m)
  BY <1>1
<1> HIDE DEF m
<1>4. FileOfferResponse(p) /\ p.conn = s.sender /\ p.m = m /\ wire \ {p} = {}
  BY <1>1, <1>2, <1>3, Kinds, Envelope
<1>5. /\ wire' = IF accepting THEN {up(s.sender, chunk)} ELSE {}
      /\ sendSessions' = [sendSessions EXCEPT ![s.sender] = @ \ {f}]
      /\ shown' = {answerShown}
      /\ UNCHANGED <<identity, userList, pendingOffers, recvSessions, table, fileSessions, asked>>
  <2>1. /\ sendSessions' = [sendSessions EXCEPT ![s.sender] = @ \ {f}]
        /\ UNCHANGED <<identity, userList, pendingOffers, recvSessions, table, fileSessions, asked>>
    <3>1. /\ sendSessions' = [sendSessions EXCEPT ![p.conn] = @ \ {Client!parseFileOfferResponse(p.m).fileId}]
          /\ UNCHANGED <<identity, userList, pendingOffers, recvSessions, table, fileSessions, asked>>
      BY <1>4 DEF FileOfferResponse, serverVars
    <3>2. Client!parseFileOfferResponse(p.m).fileId = f
      BY <1>2, <1>4
    <3> QED BY <1>4, <3>1, <3>2
  <2>2. shown' = {answerShown}
    BY <1>1, <1>2, <1>4 DEF FileOfferResponse, Show, answerShown
  <2>3. wire' = IF accepting THEN {up(s.sender, chunk)} ELSE {}
    BY <1>1, <1>2, <1>4 DEF FileOfferResponse, Handle, accepting, chunk
  <2> QED BY <2>1, <2>2, <2>3
<1>6. online' = online /\ Settled' /\ Registered'
  BY <1>1, <1>5, Frame DEF Tables
<1>7. \A g \in FileIds, d \in Clients : g # f /\ g \in sendSessions[d] => g \in sendSessions'[d]
  BY <1>1, <1>5 DEF Tables, Shapes
<1>8. Shapes'
  BY <1>5, <1>6 DEF Tables, Shapes
<1>9. Sessions'
  <2>1. \A g \in FileIds : fileSessions[g] # None => fileSessions[g].sender \in Clients
    BY DEF Tables, Shapes
  <2> QED BY <1>1, <1>5, <1>6, <1>7, <2>1 DEF Tables, Sessions, There, Unoffered
<1>10. CASE accepting
  <2>1. ChunkOnItsWay'
    BY <1>1, <1>5, <1>10 DEF ChunkOnItsWay, accepting, chunk, answerShown, Prepared
  <2> QED BY <1>1, <1>5, <1>6, <1>8, <1>9, <2>1 DEF WireInv, Answering, Tables
<1>11. CASE ~accepting
  <2>1. Answered'
    BY <1>1, <1>5, <1>11 DEF Answered, accepting, answerShown
  <2> QED BY <1>1, <1>5, <1>6, <1>8, <1>9, <2>1 DEF WireInv, Answering, Tables
<1> QED BY <1>10, <1>11

\* Server::handleFileData and TcpClient::handleFileData: the chunk goes to the other end of the
\* session, which has opened a file for it.
LEMMA ChunkMoves ==
  ASSUME Tables, Answering, ChunkOnItsWay, NEW p \in wire, Deliver(p)
  PROVE  WireInv'
<1> DEFINE c == asked.by
           f == asked.file
           s == asked.session
           m == chunk
<1>1. /\ c \in online /\ c \in Clients /\ f \in FileIds /\ Settled
      /\ accepting /\ s = [sender |-> s.sender, receiver |-> c]
      /\ p = up(s.sender, m) \/ p = down(c, m)
      /\ wire \ {p} = {} /\ shown = {answerShown}
      /\ f \in recvSessions[c] /\ fileSessions[f] = s /\ s # None
  <2>1. accepting => f \in recvSessions[c] /\ fileSessions[f] = s
    BY DEF ChunkOnItsWay, Prepared
  <2>2. c \in Clients
    BY DEF Answering, online
  <2>3. s # None
    BY <2>2, Somebody DEF ChunkOnItsWay
  <2> QED BY <2>1, <2>2, <2>3 DEF ChunkOnItsWay, Answering
<1>2. /\ m.type = "data" /\ extractFileId(m) = f
      /\ Client!parseFileData(m) = [fileId |-> f, offset |-> ChunkOffset, payloadLen |-> kFileChunkSize]
  BY FileIdFits, Turned DEF chunk, Client!packFileData, Client!parseFileData, extractFileId, ChunkOffset
<1> HIDE DEF m
<1>3. CASE p = up(s.sender, m)
  <2>1. HandleFileData(p) /\ p.conn = s.sender /\ p.m = m
    BY <1>2, <1>3, Kinds, Envelope
  <2>2. wire' = {down(c, m)} /\ UNCHANGED <<clientVars, serverVars, history>>
    <3>1. session(f) = s /\ s.receiver = c /\ s.sender \in {s.sender, s.receiver}
      BY <1>1 DEF session
    <3> QED BY <1>1, <1>2, <2>1, <3>1 DEF HandleFileData, Handle, Server!packRawMessage
  <2>3. Tables' /\ Settled' /\ online' = online
    BY <1>1, <2>2, TablesRest DEF online, serverVars
  <2>4. ChunkOnItsWay'
    BY <1>1, <2>2 DEF ChunkOnItsWay, Prepared, clientVars, serverVars, history, accepting, answerShown, chunk, m
  <2> QED BY <2>2, <2>3, <2>4 DEF WireInv, Answering, history
<1>4. CASE p = down(c, m)
  <2>1. FileData(p) /\ p.conn = c /\ p.m = m
    BY <1>2, <1>4, Kinds, Envelope
  <2>2. /\ wire' = {}
        /\ recvSessions' = [recvSessions EXCEPT ![c] = @ \ {f}]
        /\ shown' = {answerShown, chunkShown}
        /\ UNCHANGED <<identity, userList, sendSessions, pendingOffers, table, fileSessions, asked>>
    BY <1>1, <1>2, <2>1 DEF FileData, Handle, Show, serverVars, chunkShown
  <2>3. online' = online /\ Settled' /\ Registered'
    BY <1>1, <2>2, Frame DEF Tables
  <2>4. Shapes' /\ Sessions'
    BY <2>2, <2>3 DEF Tables, Shapes, Sessions, There
  <2>5. Answered'
    BY <1>1, <2>2 DEF Answered, accepting, answerShown, chunkShown
  <2> QED BY <2>2, <2>3, <2>4, <2>5 DEF WireInv, Answering, Tables
<1> QED BY <1>1, <1>3, <1>4

----------------------------------------------------------------------------
(* The invariant. *)

\* Nobody is there, and nothing is on its way.
LEMMA WireInit == Init => WireInv
<1> SUFFICES ASSUME Init PROVE WireInv
  OBVIOUS
<1>1. online = {} /\ \A c \in Clients : ~There(c)
  BY DEF Init, online, There
<1>2. IsFiniteSet({}) /\ Cardinality({}) = 0
  BY FS_EmptySet
<1>3. Shapes
  BY <1>1, <1>2, WireAssumption DEF Init, Shapes, kMaxOnlineClients
<1>4. Registered /\ Sessions
  BY <1>1 DEF Init, Registered, Sessions
<1>5. Coming
  BY <1>1 DEF Init, Coming, Idle, Listing
<1> QED BY <1>3, <1>4, <1>5 DEF WireInv, Tables

\* Nothing happens.
LEMMA WireRests ==
  ASSUME WireInv, UNCHANGED vars
  PROVE  WireInv'
<1>1. UNCHANGED <<clientVars, serverVars>> /\ UNCHANGED <<identity, userList, table, asked, shown, wire>>
      /\ UNCHANGED <<sendSessions, pendingOffers, recvSessions, fileSessions>>
  BY DEF vars, clientVars, serverVars, history
<1>2. Tables' /\ Settled' = Settled /\ online' = online /\ View' = View /\ TheList' = TheList
      /\ addressees' = addressees
      /\ \A c : Target(c)' = Target(c) /\ \A d : chatDown(d)' = chatDown(d) /\ chatShown(d)' = chatShown(d)
  BY <1>1, TablesRest, Frame, AskedFrame DEF WireInv
<1>3. Coming => Coming'
  BY <1>1, <1>2 DEF Coming, Idle, LoginSent, LoginRefused, Listing, LogoutSent, There, SettledBut
<1>4. Chatting => Chatting'
  BY <1>1, <1>2 DEF Chatting, ChatSent, ChatSpread, chatUp
<1>5. Offering => Offering'
  BY <1>1, <1>2 DEF Offering, OfferSent, OfferRefused, OfferRelayed, OfferShown, Unoffered
<1>6. Answering => Answering'
  BY <1>1, <1>2 DEF Answering, AnswerSent, AnswerDropped, AnswerRelayed, ChunkOnItsWay, Answered,
                    Unoffered, Prepared, accepting, answerShown, chunkShown, chunk
<1> QED BY <1>2, <1>3, <1>4, <1>5, <1>6 DEF WireInv

\* A message that has come takes the exchange it belongs to one step further.
LEMMA Arrival ==
  ASSUME WireInv, NEW p \in wire, Deliver(p)
  PROVE  WireInv'
<1>1. CASE Coming
  BY <1>1, LoginArrives, RefusalArrives, ListingGoesOn, LogoutArrives DEF WireInv, Coming
<1>2. CASE Chatting
  BY <1>2, ChatArrives, ChatShows DEF WireInv, Chatting
<1>3. CASE Offering
  <2>1. ~OfferShown
    BY DEF OfferShown
  <2> QED BY <1>3, <2>1, OfferArrives, BusyArrives, OfferShows DEF WireInv, Offering
<1>4. CASE Answering
  <2>1. ~AnswerDropped /\ ~Answered
    BY DEF AnswerDropped, Answered
  <2> QED BY <1>4, <2>1, AnswerArrives, AnswerShows, ChunkMoves DEF WireInv, Answering
<1> QED BY <1>1, <1>2, <1>3, <1>4 DEF WireInv

\* Whoever does what, the tables of the server and of the clients fit together, and what is on its way
\* is one exchange of which every message can be told.
THEOREM WireInvariant == Spec => []WireInv
<1>1. WireInv /\ [Next]_vars => WireInv'
  <2> SUFFICES ASSUME WireInv, [Next]_vars PROVE WireInv'
    OBVIOUS
  <2>1. ASSUME NEW c \in Clients, NEW target \in Target(c),
               \/ \E text \in Texts : SendChatMessage(c, target, text)
               \/ \E f \in FileIds : SendFileOffer(c, target, f)
        PROVE  WireInv'
    BY <2>1, ChatStep, OfferStep
  <2>2. CASE User
    BY <2>1, <2>2, LoginStep, LogoutStep, AnswerStep DEF User
  <2>3. ASSUME NEW p \in wire, (p.up /\ handleMessage(p)) \/ (~p.up /\ processMessage(p))
        PROVE  WireInv'
    BY <2>3, Arrival DEF Deliver
  <2>4. CASE UNCHANGED vars
    BY <2>4, WireRests
  <2> QED BY <2>2, <2>3, <2>4 DEF Next
<1> QED BY WireInit, <1>1, PTL DEF Spec

----------------------------------------------------------------------------
(* What follows. *)

\* ServerProtocol and ClientProtocol: whatever is typed, what the tables hold fits its field, and a
\* file id is never cut.
THEOREM WireTypes == Spec => []TypeOK
<1>1. WireInv => TypeOK
  BY DEF WireInv, Tables, Shapes, Registered, TypeOK
<1> QED BY <1>1, WireInvariant, PTL

\* The server's list of itself and the clients' own names: nobody is missing from a list, and a user is
\* missing from the own one just when the own id fits its field.
THEOREM ListsAreHonest == Spec => []ListHonest
<1>1. WireInv => ListHonest
  <2> SUFFICES ASSUME WireInv, wire = {}, NEW c \in online
               PROVE  {u.of : u \in offered(c)} = IF fits(identity[c].id) THEN online \ {c} ELSE online
    BY DEF ListHonest
  <2>1. Tables /\ Settled
    BY Quiet DEF WireInv
  <2>2. /\ userList[c] = View
        /\ \A d \in online : identity[d].id \in Ids /\ table[d].clientId = strncpy(identity[d].id)
    BY <2>1 DEF Tables, Shapes, Registered, Settled, SettledBut, online, There
  <2>3. \A d \in online : Entry(d).id = identity[c].id <=> d = c /\ fits(identity[c].id)
    <3>1. \A d \in online : Entry(d).id = fromUtf8(strncpy(identity[d].id))
      BY <2>2 DEF Entry
    <3>2. \A d \in online : Entry(d).id = identity[c].id => table[d].clientId = table[c].clientId
      BY <2>2, <3>1, IdsComeBack
    <3>3. \A d \in online : Entry(d).id = identity[c].id => d = c
      BY <2>1, <3>2 DEF Tables, Registered
    <3>4. Entry(c).id = identity[c].id <=> fits(identity[c].id)
      BY <2>2, <3>1, IdsComeBack
    <3> QED BY <3>3, <3>4
  <2>4. \A d \in online : Entry(d).of = d
    BY DEF Entry
  <2>5. offered(c) = {u \in View : u.id # identity[c].id}
    BY <2>2 DEF offered
  <2> QED BY <2>3, <2>4, <2>5 DEF View
<1> QED BY <1>1, WireInvariant, PTL

\* The fixed bodies are as long in one program as in the other, and short enough.
LEMMA Lengths ==
  /\ DOMAIN Client!SizeOf = {"login", "loginResponse", "chat", "userListRequest", "logout", "offer", "offerResponse"}
  /\ \A type \in {"login", "loginResponse", "chat", "userListRequest", "logout", "offer", "offerResponse"} :
       /\ Client!SizeOf[type] = Server!SizeOf[type] /\ Client!SizeOf[type] \in Nat
       /\ Client!SizeOf[type] <= Client!MaxBodyLength
       /\ Client!SizeOf[type] <= Server!MaxBodyLength
<1>1. Client!SizeOf = [login |-> 96, loginResponse |-> 132, chat |-> 393, userListRequest |-> 0, logout |-> 0,
                       offer |-> 429, offerResponse |-> 105]
  BY DEF Client!SizeOf, Client!IdSize, Client!NickSize, Client!FileIdSize
<1>2. Server!SizeOf = [login |-> 96, loginResponse |-> 132, chat |-> 393, userListRequest |-> 0, logout |-> 0,
                       offer |-> 429, offerResponse |-> 105]
  BY DEF Server!SizeOf, Server!IdSize, Server!NickSize, Server!FileIdSize
<1>3. /\ \A n \in 0 .. 429 : n <= Client!MaxBodyLength /\ n <= Server!MaxBodyLength
  BY SMT DEF Client!MaxBodyLength, Server!MaxBodyLength
<1> QED BY SMT, <1>1, <1>2, <1>3

\* A message of a fixed length passes on the other side.
LEMMA FixedPasses ==
  ASSUME NEW m,
         m.type \in {"login", "loginResponse", "chat", "userListRequest", "logout", "offer", "offerResponse"},
         m.len = Client!SizeOf[m.type]
  PROVE  Server!parses(m) /\ Client!parses(m)
<1>1. /\ m.len = Server!SizeOf[m.type] /\ m.len \in Nat
      /\ m.len <= Client!MaxBodyLength /\ m.len <= Server!MaxBodyLength
      /\ m.type # "userList" /\ m.type # "data"
  BY Lengths
<1> QED BY <1>1 DEF Server!parses, Client!parses, Server!validateHeader, Client!validateHeader

\* The client's messages pass in the server.
LEMMA ClientPasses ==
  /\ \A i, n : Server!parses(Client!packLoginRequest(i, n))
  /\ Server!parses(Client!packLogoutRequest) /\ Server!parses(Client!packUserListRequest)
  /\ \A q, i, n, t, x : Server!parses(Client!packChatMessage(q, i, n, t, x))
  /\ \A f, z, i, n, t : Server!parses(Client!packFileOffer(f, z, i, n, t))
  /\ \A f, r : Server!parses(Client!packFileOfferResponse(f, r))
<1>1. \A i, n : Server!parses(Client!packLoginRequest(i, n))
  BY FixedPasses DEF Client!packLoginRequest
<1>2. Server!parses(Client!packLogoutRequest) /\ Server!parses(Client!packUserListRequest)
  BY FixedPasses DEF Client!packLogoutRequest, Client!packUserListRequest
<1>3. \A q, i, n, t, x : Server!parses(Client!packChatMessage(q, i, n, t, x))
  BY FixedPasses DEF Client!packChatMessage
<1>4. \A f, z, i, n, t : Server!parses(Client!packFileOffer(f, z, i, n, t))
  BY FixedPasses DEF Client!packFileOffer
<1>5. \A f, r : Server!parses(Client!packFileOfferResponse(f, r))
  BY FixedPasses DEF Client!packFileOfferResponse
<1> QED BY <1>1, <1>2, <1>3, <1>4, <1>5

\* The server's messages of fixed lengths pass in the client.
LEMMA ServerPasses ==
  /\ \A r : Client!parses(Server!packLoginResponse(r))
  /\ \A q, i, n, t, x : Client!parses(Server!packChatMessage(q, i, n, t, x))
  /\ \A f, z, i, n, t : Client!parses(Server!packFileOffer(f, z, i, n, t))
  /\ \A f, r : Client!parses(Server!packFileOfferResponse(f, r))
<1>1. \A r : Client!parses(Server!packLoginResponse(r))
  BY FixedPasses, Lengths DEF Server!packLoginResponse
<1>2. \A q, i, n, t, x : Client!parses(Server!packChatMessage(q, i, n, t, x))
  BY FixedPasses, Lengths DEF Server!packChatMessage
<1>3. \A f, z, i, n, t : Client!parses(Server!packFileOffer(f, z, i, n, t))
  BY FixedPasses, Lengths DEF Server!packFileOffer
<1>4. \A f, r : Client!parses(Server!packFileOfferResponse(f, r))
  BY FixedPasses, Lengths DEF Server!packFileOfferResponse
<1> QED BY <1>1, <1>2, <1>3, <1>4

\* A chunk passes in both programs, and so does the list of a full server.
LEMMA LongPasses ==
  ASSUME Tables
  PROVE  Server!parses(chunk) /\ Client!parses(chunk) /\ Client!parses(TheList)
<1>1. chunk.type = "data" /\ chunk.chunkSize = kFileChunkSize
      /\ chunk.len = Client!FileDataHeaderSize + kFileChunkSize
  BY DEF chunk, Client!packFileData
<1>2. /\ chunk.len \in Nat /\ chunk.len <= Server!MaxBodyLength /\ chunk.len <= Client!MaxBodyLength
      /\ chunk.len >= Client!FileDataHeaderSize + chunk.chunkSize
  BY SMT, <1>1 DEF kFileChunkSize, Client!FileDataHeaderSize, Client!FileIdSize,
                   Server!MaxBodyLength, Client!MaxBodyLength
<1>3. Server!parses(chunk)
  BY <1>1, <1>2 DEF Server!parses, Server!validateHeader
<1>4. Client!parses(chunk)
  <2>1. chunk.type \notin DOMAIN Client!SizeOf
    BY <1>1, Lengths
  <2> QED BY <1>1, <1>2, <2>1 DEF Client!parses, Client!validateHeader, Client!fileDataFits
<1> DEFINE n == Cardinality(online) + Others
<1>5. n \in Nat /\ n <= kMaxOnlineClients
  BY FS_CardinalityType, WireAssumption DEF Tables, Shapes
<1>6. TheList.type = "userList" /\ TheList.count = n /\ TheList.len = 4 + n * Server!UserInfoSize
  BY DEF TheList, Server!packUserListResponse
<1> HIDE DEF n
<1>7. /\ TheList.len <= Client!MaxBodyLength
      /\ TheList.len >= 4 + TheList.count * Client!UserInfoSize
  <2>1. Server!UserInfoSize = 96 /\ Client!UserInfoSize = 96
    BY SMT DEF Client!UserInfoSize, Server!UserInfoSize, Client!IdSize, Server!IdSize,
               Client!NickSize, Server!NickSize
  <2> QED BY SMT, <1>5, <1>6, <2>1 DEF Client!MaxBodyLength, kMaxOnlineClients
<1>8. Client!parses(TheList)
  <2>1. TheList.type \notin DOMAIN Client!SizeOf /\ TheList.type # "data"
    BY <1>6, Lengths
  <2> QED BY <1>6, <1>7, <2>1 DEF Client!parses, Client!validateHeader, Client!userListFits
<1> QED BY <1>3, <1>4, <1>8

\* Protocol and ProtocolParser: the checks of header and length on one side pass what the other packs,
\* the list of a full server included.
THEOREM EverythingParses == Spec => []Parsed
<1>1. ASSUME WireInv, NEW p \in wire
      PROVE  IF p.up THEN Server!parses(p.m) ELSE Client!parses(p.m)
  <2>1. \A c, m : /\ p = up(c, m) => p.up = TRUE /\ p.m = m
                  /\ p = down(c, m) => p.up = FALSE /\ p.m = m
    BY DEF up, down
  <2>2. CASE Coming
    <3>1. CASE LoginSent
      BY <2>1, <3>1, ClientPasses DEF LoginSent
    <3>2. CASE LoginRefused
      BY <2>1, <3>2, ServerPasses DEF LoginRefused
    <3>3. CASE Listing
      BY <1>1, <2>1, <3>3, ClientPasses, ServerPasses, LongPasses DEF Listing, WireInv
    <3>4. CASE LogoutSent
      BY <2>1, <3>4, ClientPasses DEF LogoutSent
    <3> QED BY <2>2, <3>1, <3>2, <3>3, <3>4 DEF Coming
  <2>3. CASE Chatting
    <3>1. CASE ChatSent
      BY <2>1, <3>1, ClientPasses DEF ChatSent, chatUp
    <3>2. CASE ChatSpread
      BY <2>1, <3>2, ServerPasses DEF ChatSpread, chatDown
    <3> QED BY <2>3, <3>1, <3>2 DEF Chatting
  <2>4. CASE Offering
    <3>1. CASE OfferSent
      BY <2>1, <3>1, ClientPasses DEF OfferSent
    <3>2. CASE OfferRefused
      BY <2>1, <3>2, ServerPasses DEF OfferRefused
    <3>3. CASE OfferRelayed
      BY <2>1, <3>3, ServerPasses DEF OfferRelayed
    <3>4. CASE OfferShown
      BY <3>4 DEF OfferShown
    <3> QED BY <2>4, <3>1, <3>2, <3>3, <3>4 DEF Offering
  <2>5. CASE Answering
    BY <1>1, <2>1, <2>5, ClientPasses, ServerPasses, LongPasses
       DEF Answering, AnswerSent, AnswerDropped, AnswerRelayed, ChunkOnItsWay, Answered, WireInv
  <2> QED BY <1>1, <2>2, <2>3, <2>4, <2>5 DEF WireInv
<1>2. WireInv => Parsed
  BY <1>1 DEF Parsed
<1> QED BY <1>2, WireInvariant, PTL

\* When a private message or an offer goes to somebody, by the list or by an id that is typed, the
\* server finds just that client, unless the list shows an id that is damaged.
LEMMA Found ==
  ASSUME Tables, Settled, asked.by \in online, asked.target \in Target(asked.by)
  PROVE  \/ meant = {}
         \/ asked.target.item # None /\ damaged(identity[asked.target.item.of].id)
         \/ addressees = meant
<1> DEFINE target == asked.target
<1>1. CASE isGroup(target)
  BY <1>1 DEF meant, addressees
<1>2. \A d \in online : identity[d].id \in Ids /\ table[d].clientId = strncpy(identity[d].id)
  BY DEF Tables, Shapes, Registered, Settled, SettledBut, online, There
<1>3. ASSUME NEW d \in online, toId(target) = strncpy(identity[d].id) \/ toId(target) = identity[d].id, ~isGroup(target)
      PROVE  addressees = {d}
  <2>1. strncpy(toId(target)) = table[d].clientId
    BY <1>2, <1>3, Typed, Copies
  <2>2. d \in holders(strncpy(toId(target)))
    BY <2>1 DEF holders
  <2> QED BY <1>3, <2>2, Holders DEF addressees, Tables
<1>4. CASE ~isGroup(target) /\ target.item # None /\ ~damaged(identity[target.item.of].id)
  <2>1. PICK d \in online : target.item = Entry(d)
    BY <1>4, Targets
  <2>2. target.item.of = d /\ target.item.id = fromUtf8(strncpy(identity[d].id))
    BY <1>2, <2>1 DEF Entry
  <2>3. toId(target) = strncpy(identity[d].id)
    BY <1>2, <1>4, <2>2, IdsComeBack DEF toId
  <2> QED BY <1>3, <1>4, <2>2, <2>3 DEF meant
<1>5. CASE ~isGroup(target) /\ target.item = None
  <2>1. meant = {d \in online : identity[d].id = target.edited}
    BY <1>5 DEF meant
  <2>2. ASSUME NEW d \in meant PROVE addressees = {d}
    <3>1. toId(target) = trimmed(target.edited) /\ d \in online /\ identity[d].id = target.edited
      BY <1>5, <2>1 DEF toId
    <3>2. toId(target) = identity[d].id
      BY <1>2, <3>1, IdsComeBack
    <3> QED BY <1>3, <1>5, <3>1, <3>2
  <2> QED BY <2>2
<1> QED BY <1>1, <1>4, <1>5

\* onSendClicked, onSelectFile, getFdByClientId: what is sent to one user reaches this one alone, with
\* the exception that AddresseeReached names; what is sent to the group reaches everybody else.
THEOREM OnlyTheAddressee == Spec => []AddresseeReached
<1>1. ASSUME WireInv, wire = {}, asked # None, asked.what \in {"chat", "offer"}
      PROVE  \/ meant = {}
             \/ asked.target.item # None /\ damaged(identity[asked.target.item.of].id)
             \/ {s.at : s \in {s \in shown : s.what = asked.what}} = meant
  <2>1. CASE Chatting
    <3>1. PICK T \in SUBSET addressees :
            wire = {chatDown(d) : d \in T} /\ shown = {chatShown(d) : d \in addressees \ T}
      BY <1>1, <2>1 DEF Chatting, ChatSent, ChatSpread
    <3>2. shown = {chatShown(d) : d \in addressees}
      BY <1>1, <3>1
    <3>3. \A d : chatShown(d).at = d /\ chatShown(d).what = asked.what
      BY <2>1 DEF chatShown, Chatting
    <3>4. {s.at : s \in {s \in shown : s.what = asked.what}} = addressees
      BY <3>2, <3>3
    <3> QED BY <1>1, <2>1, <3>4, Found DEF WireInv, Chatting
  <2>2. CASE Offering
    <3>1. {s.at : s \in {s \in shown : s.what = "offer"}} = addressees
      <4>1. CASE OfferRefused
        BY <1>1, <4>1 DEF OfferRefused
      <4>2. CASE OfferShown
        <5>1. PICK d \in addressees, o \in shown : shown = {o} /\ o.what = "offer" /\ o.at = d
          BY <4>2 DEF OfferShown
        <5>2. addressees = {d}
          <6>1. addressees = holders(strncpy(toId(asked.target)))
            BY <2>2 DEF addressees, Offering
          <6> QED BY <1>1, <5>1, <6>1, Holders DEF WireInv, Tables
        <5>3. {t \in shown : t.what = "offer"} = {o}
          BY <5>1
        <5> QED BY <5>1, <5>2, <5>3
      <4> QED BY <1>1, <2>2, <4>1, <4>2 DEF Offering, OfferSent, OfferRelayed
    <3> QED BY <1>1, <2>2, <3>1, Found DEF WireInv, Offering
  <2>3. ~Coming /\ ~Answering
    BY <1>1 DEF Coming, Idle, Answering
  <2> QED BY <1>1, <2>1, <2>2, <2>3 DEF WireInv
<1>2. WireInv => AddresseeReached
  BY <1>1 DEF AddresseeReached
<1> QED BY <1>2, WireInvariant, PTL

\* Server::handleChatMessage and handleFileOffer, TcpClient::processMessage: a message carries the name
\* its sender is listed under; a text that fits is whole, and a size is the one the sender gave.
THEOREM EverythingIsSigned == Spec => []Signed
<1>1. ASSUME WireInv, wire = {}, NEW s \in shown, s.what \in {"chat", "offer"}
      PROVE  /\ \E u \in userList[s.at] : u.of = asked.by /\ u.id = s.id /\ u.nick = s.nick
             /\ s.what = "chat" /\ fits(asked.text) => s.text = asked.text
             /\ s.what = "offer" => s.file = asked.file /\ s.size = FileSize
  <2>1. ASSUME NEW d \in online, asked.by \in online, Settled,
               s.at = d, s.id = fromUtf8(table[asked.by].clientId), s.nick = fromUtf8(table[asked.by].nickname)
        PROVE  \E u \in userList[s.at] : u.of = asked.by /\ u.id = s.id /\ u.nick = s.nick
    <3>1. Entry(asked.by) \in userList[d]
      BY <2>1 DEF Settled, SettledBut, View, online
    <3>2. Entry(asked.by).of = asked.by /\ Entry(asked.by).id = s.id /\ Entry(asked.by).nick = s.nick
      BY <2>1 DEF Entry
    <3> QED BY <2>1, <3>1, <3>2
  <2>2. addressees \subseteq online
    BY <1>1, Holders DEF addressees, WireInv, Tables
  <2>3. CASE Chatting
    <3>1. PICK d \in addressees : s = chatShown(d)
      BY <1>1, <2>3 DEF Chatting, ChatSent, ChatSpread
    <3>2. /\ s.what = "chat" /\ s.at = d /\ s.id = fromUtf8(table[asked.by].clientId)
          /\ s.nick = fromUtf8(table[asked.by].nickname) /\ s.text = fromUtf8(strncpy(asked.text))
      BY <3>1 DEF chatShown
    <3>3. fits(asked.text) => fromUtf8(strncpy(asked.text)) = asked.text
      BY <2>3 DEF Chatting, Texts, fits, strncpy, fromUtf8, Wide, firstByte
    <3> QED BY <2>1, <2>2, <2>3, <3>2, <3>3 DEF Chatting
  <2>4. CASE Offering
    <3>1. PICK d \in addressees :
            s = [what |-> "offer", at |-> d, id |-> fromUtf8(table[asked.by].clientId),
                 nick |-> fromUtf8(table[asked.by].nickname), file |-> asked.file, size |-> FileSize]
      <4>1. ~OfferSent /\ ~OfferRelayed
        BY <1>1 DEF OfferSent, OfferRelayed
      <4>2. ~OfferRefused
        BY <1>1 DEF OfferRefused
      <4>3. OfferShown
        BY <2>4, <4>1, <4>2 DEF Offering
      <4> QED BY <4>3 DEF OfferShown
    <3> QED BY <2>1, <2>2, <2>4, <3>1 DEF Offering
  <2>5. ~Coming
    BY <1>1 DEF Coming, Idle
  <2>6. CASE Answering
    <3>1. Answered
      BY <1>1, <2>6 DEF Answering, AnswerSent, AnswerDropped, AnswerRelayed, ChunkOnItsWay
    <3>2. s = answerShown \/ s = chunkShown
      BY <3>1 DEF Answered
    <3> QED BY <1>1, <3>2 DEF answerShown, chunkShown
  <2> QED BY <1>1, <2>3, <2>4, <2>5, <2>6 DEF WireInv
<1>2. WireInv => Signed
  BY <1>1 DEF Signed
<1> QED BY <1>2, WireInvariant, PTL

\* handleFileOfferResponse, handleFileData, sendFile: while there is a session, its sender sees the
\* answer, and who accepts gets the chunk, at its place.
THEOREM FilesArrive == Spec => []FileArrives
<1>1. ASSUME WireInv, wire = {}, asked # None, asked.what = "answer", asked.session # None
      PROVE  shown = IF accepting THEN {answerShown, chunkShown} ELSE {answerShown}
  <2>1. Answering
    BY <1>1 DEF WireInv, Coming, Idle, Chatting, Offering
  <2>2. Answered
    BY <1>1, <2>1 DEF Answering, AnswerSent, AnswerDropped, AnswerRelayed, ChunkOnItsWay
  <2> QED BY <2>2 DEF Answered
<1>2. WireInv => FileArrives
  BY <1>1 DEF FileArrives, accepting, answerShown, chunkShown
<1> QED BY <1>2, WireInvariant, PTL

=============================================================================
