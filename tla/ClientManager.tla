--------------------------- MODULE ClientManager ---------------------------
(***************************************************************************)
(* The table of connections of the server: the class ClientManager of      *)
(* server/src/client_manager.cpp.  clients_ is a std::map from file        *)
(* descriptors to ClientInfo; every method holds mutex_ for its whole      *)
(* body, so each is one operator on the table.                             *)
(*                                                                         *)
(* The clock is abstracted to what checkTimeout tells apart: "silent" says *)
(* that more than the heartbeat timeout has passed since lastHeartbeat.    *)
(* Heartbeat.tla models the clock itself.                                  *)
(***************************************************************************)
EXTENDS Integers, FiniteSets

CONSTANTS
  Fds,          \* descriptors accept() may return: finitely many, and it takes the lowest
  ClientIds,    \* non-empty clientId strings
  Nicknames,    \* non-empty nickname strings
  Empty,        \* the empty string
  None          \* no entry

ASSUME FdsAssumption == Fds \subseteq Nat /\ IsFiniteSet(Fds)

ClientInfo ==
  [clientId: ClientIds \cup {Empty}, nickname: Nicknames \cup {Empty},
   isOnline: BOOLEAN, silent: BOOLEAN]

ASSUME NoneAssumption == None \notin ClientInfo /\ Empty \notin ClientIds \cup Nicknames

ClientTable == [Fds -> ClientInfo \cup {None}]

----------------------------------------------------------------------------
(* Who is in the table. *)

getAllFds(t) == {fd \in Fds : t[fd] # None}

getOnlineClients(t) == {fd \in getAllFds(t) : t[fd].isOnline}

getOnlineCount(t) == Cardinality(getOnlineClients(t))

\* The descriptors getFdByClientId may return; {} stands for -1.
getFdByClientId(t, id) ==
  {fd \in getOnlineClients(t) : id # Empty /\ t[fd].clientId = id}

isClientIdOnline(t, id, excludeFd) ==
  \E fd \in getOnlineClients(t) \ {excludeFd} : t[fd].clientId = id

isNicknameOnline(t, nick, excludeFd) ==
  \E fd \in getOnlineClients(t) \ {excludeFd} : t[fd].nickname = nick

\* The connections whose last heartbeat is older than the timeout, logged in or not.
checkTimeout(t) == {fd \in getAllFds(t) : t[fd].silent}

----------------------------------------------------------------------------
(* Updates. *)

FreshInfo == [clientId |-> Empty, nickname |-> Empty, isOnline |-> FALSE, silent |-> FALSE]

addClient(t, fd) == [t EXCEPT ![fd] = FreshInfo]

\* A slip: the entry stays until its descriptor is used again. Breaks RoomKept.
removeClient_forgotten(t, fd) == t
removeClient(t, fd) == [t EXCEPT ![fd] = None]

updateHeartbeat(t, fd) ==
  IF t[fd] = None THEN t ELSE [t EXCEPT ![fd].silent = FALSE]

\* The caller has checked that the entry is there: the C++ method returns false otherwise.
setClientIdentity(t, fd, id, nick) ==
  [t EXCEPT ![fd].clientId = id, ![fd].nickname = nick, ![fd].isOnline = TRUE]

=============================================================================
