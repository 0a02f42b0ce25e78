SPECIFICATION Spec
CONSTANTS
  Fds <- MCFds2
  ListenFd <- MCListenFd
  Peers = {p1, p2}
  ClientIds = {a}
  Nicknames = {m}
  FileIds = {}
  Empty = Empty
  None = None
  kMaxOnlineClients = 1
  Traffic = {"heartbeat", "silence"}
SYMMETRY PeerSymmetry
PROPERTY NoInnocentClosed
