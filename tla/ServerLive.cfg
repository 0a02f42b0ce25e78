SPECIFICATION FairSpec
CONSTANTS
  Fds <- MCFds2
  ListenFd <- MCListenFd
  Peers = {p1, p2}
  ClientIds = {a}
  Nicknames = {m}
  FileIds = {}
  Empty = Empty
  None = None
  kMaxOnlineClients = 1
  Traffic = {"login", "logout", "reset", "partial"}
INVARIANT BufferOwner
PROPERTIES GoneReaped BacklogServed StopReturns
