SPECIFICATION Spec
CONSTANTS
  Fds <- MCFds2
  ListenFd <- MCListenFd
  Peers = {p1, p2, p3}
  ClientIds = {a}
  Nicknames = {m}
  FileIds = {}
  Empty = Empty
  None = None
  kMaxOnlineClients = 1
  Traffic = {"login", "reset", "heartbeat", "silence"}
SYMMETRY PeerSymmetry
VIEW TablesView
INVARIANTS TablesAgree NoLostDisconnect
PROPERTY EstablishedKept
