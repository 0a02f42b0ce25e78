--------------------------- MODULE ServerProtocol --------------------------
(***************************************************************************)
(* The packing and reading half of server/src/protocol.cpp, written apart  *)
(* from the client's. Its strings are the bytes of the fields: the server  *)
(* never looks at characters.                                              *)
(***************************************************************************)
EXTENDS MessageLayout, FiniteSets

hostToNetwork64(v) == swap64(v)
networkToHost64(v) == swap64(v)

packLoginResponse(result) ==
  [type |-> "loginResponse", len |-> SizeOf.loginResponse, result |-> htonl(result)]

packChatMessage(private, fromId, fromNick, toId, message) ==
  [type |-> "chat", len |-> SizeOf.chat, private |-> private,
   fromId |-> strncpy(fromId), fromNick |-> strncpy(fromNick),
   toId |-> strncpy(toId), message |-> strncpy(message)]

\* A slip: the length of the count is forgotten. Breaks Parsed.
packUserListResponse_noCount(users, count) ==
  [type |-> "userList", len |-> count * UserInfoSize, count |-> count, users |-> users]

\* The entries of some users, out of count.
packUserListResponse(users, count) ==
  [type |-> "userList", len |-> 4 + count * UserInfoSize, count |-> count, users |-> users]

\* A slip: a size of 36 leaves no room for the zero. Breaks TypeOK.
packFileOffer_noZero(fileId, fileSize, fromId, fromNick, toId) ==
  [type |-> "offer", len |-> SizeOf.offer,
   fileId |-> fileIdIn(FileIdSize - 1, fileId), fileSize |-> hostToNetwork64(fileSize),
   fromId |-> strncpy(fromId), fromNick |-> strncpy(fromNick), toId |-> strncpy(toId)]

packFileOffer(fileId, fileSize, fromId, fromNick, toId) ==
  [type |-> "offer", len |-> SizeOf.offer,
   fileId |-> fileIdIn(FileIdSize, fileId), fileSize |-> hostToNetwork64(fileSize),
   fromId |-> strncpy(fromId), fromNick |-> strncpy(fromNick), toId |-> strncpy(toId)]

packFileOfferResponse(fileId, result) ==
  [type |-> "offerResponse", len |-> SizeOf.offerResponse,
   fileId |-> fileIdIn(FileIdSize, fileId), result |-> htonl(result)]

\* The body goes on as it came, the header is made anew with its length.
packRawMessage(m) == m

----------------------------------------------------------------------------
parseLoginRequest(m) == [clientId |-> strncpy(m.clientId), nickname |-> strncpy(m.nickname)]

parseChatMessage(m) ==
  [private |-> m.private, toId |-> strncpy(m.toId), message |-> strncpy(m.message)]

\* A slip: the size stays in network order and is swapped again when it is sent on. Breaks
\* Signed.
parseFileOffer_networkOrder(m) ==
  [fileId |-> fileIdIn(FileIdSize, m.fileId), fileSize |-> m.fileSize, toId |-> strncpy(m.toId)]

parseFileOffer(m) ==
  [fileId |-> fileIdIn(FileIdSize, m.fileId), fileSize |-> networkToHost64(m.fileSize),
   toId |-> strncpy(m.toId)]

parseFileOfferResponse(m) ==
  [fileId |-> fileIdIn(FileIdSize, m.fileId), result |-> htonl(m.result)]

validateHeader(m) == m.len <= MaxBodyLength

\* The header and length checks let the message pass.
parses(m) == validateHeader(m) /\ (m.type # "data" => m.len >= SizeOf[m.type])

=============================================================================
