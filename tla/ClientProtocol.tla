--------------------------- MODULE ClientProtocol --------------------------
(***************************************************************************)
(* client/network/protocol.cpp: how the client packs what it sends and     *)
(* reads what it gets. A body is the record of its fields; len is its      *)
(* length, which goes into the header.                                     *)
(***************************************************************************)
EXTENDS MessageLayout

\* A 64-bit number in a structure, and back.
hostToNetwork64(v) == swap64(v)
networkToHost64(v) == swap64(v)

packLoginRequest(clientId, nickname) ==
  [type |-> "login", len |-> SizeOf.login,
   clientId |-> strncpy(clientId), nickname |-> strncpy(nickname)]

packLogoutRequest == [type |-> "logout", len |-> SizeOf.logout]

packUserListRequest == [type |-> "userListRequest", len |-> SizeOf.userListRequest]

packChatMessage(private, fromId, fromNick, toId, message) ==
  [type |-> "chat", len |-> SizeOf.chat, private |-> private,
   fromId |-> strncpy(fromId), fromNick |-> strncpy(fromNick),
   toId |-> strncpy(toId), message |-> strncpy(message)]

packFileOffer(fileId, fileSize, fromId, fromNick, toId) ==
  [type |-> "offer", len |-> SizeOf.offer,
   fileId |-> fileIdIn(FileIdSize, fileId), fileSize |-> hostToNetwork64(fileSize),
   fromId |-> strncpy(fromId), fromNick |-> strncpy(fromNick), toId |-> strncpy(toId)]

packFileOfferResponse(fileId, result) ==
  [type |-> "offerResponse", len |-> SizeOf.offerResponse,
   fileId |-> fileIdIn(FileIdSize, fileId), result |-> htonl(result)]

packFileData(fileId, offset, dataLen) ==
  [type |-> "data", len |-> FileDataHeaderSize + dataLen,
   fileId |-> fileIdIn(FileIdSize, fileId), offset |-> hostToNetwork64(offset),
   chunkSize |-> dataLen]

----------------------------------------------------------------------------
(* What the client accepts, and what it reads then. *)

validateHeader(m) == m.len <= MaxBodyLength

parseChatMessage(m) ==
  [private |-> m.private,
   fromId |-> fromUtf8(strncpy(m.fromId)), fromNick |-> fromUtf8(strncpy(m.fromNick)),
   message |-> fromUtf8(strncpy(m.message))]

\* The entries are as many as count says.
userListFits(m) == m.len >= 4 + m.count * UserInfoSize

parseUserListResponse(m) ==
  {[id |-> fromUtf8(strncpy(u.clientId)), nick |-> fromUtf8(strncpy(u.nickname)), of |-> u.of] :
     u \in m.users}

parseFileOffer(m) ==
  [fileId |-> fileIdIn(FileIdSize, m.fileId), fileSize |-> networkToHost64(m.fileSize),
   fromId |-> fromUtf8(strncpy(m.fromId)), fromNick |-> fromUtf8(strncpy(m.fromNick))]

parseFileOfferResponse(m) ==
  [fileId |-> fileIdIn(FileIdSize, m.fileId), result |-> htonl(m.result)]

\* The chunk is all there.
fileDataFits(m) == m.len >= FileDataHeaderSize + m.chunkSize

parseFileData(m) ==
  [fileId |-> fileIdIn(FileIdSize, m.fileId), offset |-> networkToHost64(m.offset),
   payloadLen |-> m.chunkSize]

\* The length and header checks let the message pass.
parses(m) ==
  /\ validateHeader(m)
  /\ m.type = "userList" => userListFits(m)
  /\ m.type = "data" => fileDataFits(m)
  /\ m.type \in DOMAIN SizeOf => m.len >= SizeOf[m.type]

=============================================================================
