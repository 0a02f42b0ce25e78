SPECIFICATION Spec
CONSTANTS
  Fds <- MCFds2
  ListenFd <- MCListenFd
  Peers = {p1, p2, p3}
  ClientIds = {a, b}
  Nicknames = {m, n}
  FileIds = {f}
  Empty = Empty
  None = None
  kMaxOnlineClients = 2
  Traffic = {"login", "logout", "reset", "file", "chat", "userlist"}
SYMMETRY FullSymmetry
INVARIANTS TypeOK SessionEndpoints UniqueIdentity UserListConverged
PROPERTIES NoFreeWhileDispatching RoomKept
