------------------------------ MODULE MCServer ------------------------------
(* Instances of Server for TLC. *)
EXTENDS Server, TLC

MCFds2 == {4, 5}
MCListenFd == 3

PeerSymmetry == Permutations(Peers)

\* Client ids and nicknames are only ever compared for equality.
FullSymmetry == Permutations(Peers) \cup Permutations(ClientIds) \cup Permutations(Nicknames)

\* A state without the history that ServerTables asks nothing of: userLists and stranded, which no
\* action reads, and what a connection that gave a cause itself took over with its descriptor.
TablesView ==
  <<sock, remote, backlog, listenEdge, handlers, clientHandlers, closing, clients, recvBufs,
    fileSessions, pendingDisconnects, running, mainPc, victims, events, cur, hbPc, hbList,
    justified, queuedBefore \ justified, listedBefore \ justified>>
=============================================================================
