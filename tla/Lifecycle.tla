----------------------------- MODULE Lifecycle -----------------------------
(***************************************************************************)
(* The life of the server process: main() of server/src/main.cpp with      *)
(* Server::start, run, stop and the destructor, the heartbeat thread, and  *)
(* a signal handler that calls stop() at any moment.  What the main loop   *)
(* does with its connections is Server.tla; here it is one step.           *)
(***************************************************************************)
VARIABLES
  pc,        \* where the main thread is
  running,   \* Server::running_
  hb,        \* the heartbeat thread
  joinable,  \* heartbeatThread_.joinable()
  listenFd,  \* Server::listenFd_ holds a descriptor (is not -1)
  reactor,   \* Server::reactor_ and clientMgr_ are set
  kernelFd,  \* the listening socket in the kernel
  misclosed, \* history: close() was called on a socket that was not open
  asked,     \* history: SIGINT or SIGTERM arrived after main installed the handler
  heard      \* history: one arrived after run() had set running_

vars == <<pc, running, hb, joinable, listenFd, reactor, kernelFd, misclosed, asked, heard>>

objectVars == <<running, hb, joinable, listenFd, reactor, kernelFd, misclosed>>

\* Server::start, the calls of initListenSocket first: what follows each one that succeeds.
AfterCall == [socket |-> "setsockopt", setsockopt |-> "inet_pton", inet_pton |-> "bind",
              bind |-> "listen", listen |-> "fcntl", fcntl |-> "epoll_create",
              epoll_create |-> "epoll_ctl", epoll_ctl |-> "run"]

StartCalls == {"socket", "setsockopt", "inet_pton", "bind", "listen", "fcntl", "epoll_create",
               "epoll_ctl"}

MainSteps == {"signal", "construct", "publish", "run", "spawn", "loop", "poll", "leave", "join",
              "cleanup", "stop", "destroyJoin", "destroyClose", "exit"}

Init ==
  /\ pc = "signal"
  /\ running = FALSE
  /\ hb = "none"
  /\ joinable = FALSE
  /\ listenFd = FALSE
  /\ reactor = FALSE
  /\ kernelFd = "unopened"
  /\ misclosed = FALSE
  /\ asked = FALSE
  /\ heard = FALSE

----------------------------------------------------------------------------
(* main() up to start(). *)

From(here, there) == pc = here /\ pc' = there

\* signal(SIGINT, ...) and signal(SIGTERM, ...)
InstallHandlers == From("signal", "construct") /\ UNCHANGED <<objectVars, asked, heard>>

\* Server server(ip, port)
Construct == From("construct", "publish") /\ UNCHANGED <<objectVars, asked, heard>>

\* g_server = &server
Publish == From("publish", "socket") /\ UNCHANGED <<objectVars, asked, heard>>

----------------------------------------------------------------------------
(* Server::start. *)

\* What the successful call at pc leaves behind.
StartStep ==
  /\ pc \in StartCalls
  /\ pc' = AfterCall[pc]
  /\ IF pc = "socket" THEN listenFd' = TRUE /\ kernelFd' = "open"
                      ELSE UNCHANGED <<listenFd, kernelFd>>
  /\ reactor' = (reactor \/ pc = "epoll_create")
  /\ UNCHANGED <<running, hb, joinable, misclosed, asked, heard>>

\* Breaks ClosedOnce: listenFd_ is not reset to -1.
closeListen_notReset ==
  /\ misclosed' = (misclosed \/ kernelFd # "open")
  /\ kernelFd' = "closed"
  /\ UNCHANGED listenFd

\* close(listenFd_); listenFd_ = -1
closeListen ==
  /\ misclosed' = (misclosed \/ kernelFd # "open")
  /\ kernelFd' = "closed"
  /\ listenFd' = FALSE

\* A call of start() fails: the socket, if there is one, is closed, and main returns 1.
StartFails ==
  /\ pc \in StartCalls
  /\ pc' = "stop"
  /\ IF pc = "socket" THEN UNCHANGED <<listenFd, kernelFd, misclosed>> ELSE closeListen
  /\ UNCHANGED <<running, hb, joinable, reactor, asked, heard>>

----------------------------------------------------------------------------
(* Server::run. *)

\* run() sets running_, whatever it was.
EnterRun ==
  /\ From("run", "spawn")
  /\ running' = TRUE
  /\ UNCHANGED <<hb, joinable, listenFd, reactor, kernelFd, misclosed, asked, heard>>

Spawn ==
  /\ From("spawn", "loop")
  /\ hb' = "test"
  /\ joinable' = TRUE
  /\ UNCHANGED <<running, listenFd, reactor, kernelFd, misclosed, asked, heard>>

\* while (running_), round the loop once: poll and what it dispatches, a second at most.
TestRunning ==
  /\ pc = "loop"
  /\ pc' = IF running THEN "poll" ELSE "leave"
  /\ UNCHANGED <<objectVars, asked, heard>>

Poll == From("poll", "loop") /\ UNCHANGED <<objectVars, asked, heard>>

\* poll fails, the loop breaks.
PollFails == From("poll", "leave") /\ UNCHANGED <<objectVars, asked, heard>>

\* Breaks RunReturns: running_ is left TRUE when poll fails.
ClearRunning_forgotten(here, there) ==
  /\ From(here, there)
  /\ UNCHANGED <<objectVars, asked, heard>>

\* running_ = false after the loop, and stop() in the destructor.
ClearRunning(here, there) ==
  /\ From(here, there)
  /\ running' = FALSE
  /\ UNCHANGED <<hb, joinable, listenFd, reactor, kernelFd, misclosed, asked, heard>>

\* Breaks ThreadOutlived: the thread is detached instead of joined.
Join_detaches(here, there) ==
  /\ From(here, there)
  /\ joinable' = FALSE
  /\ UNCHANGED <<running, hb, listenFd, reactor, kernelFd, misclosed, asked, heard>>

\* if (joinable()) join()
Join(here, there) ==
  /\ From(here, there)
  /\ joinable => hb = "exited"
  /\ joinable' = FALSE
  /\ UNCHANGED <<running, hb, listenFd, reactor, kernelFd, misclosed, asked, heard>>

closeIfOpen == IF listenFd THEN closeListen ELSE UNCHANGED <<listenFd, kernelFd, misclosed>>

\* cleanupAllClients, the listening socket, the reactor.
Cleanup ==
  /\ From("cleanup", "stop")
  /\ closeIfOpen
  /\ reactor' = FALSE
  /\ UNCHANGED <<running, hb, joinable, asked, heard>>

\* The end of ~Server: the members go, whichever are left.
DestroyClose ==
  /\ From("destroyClose", "exit")
  /\ closeIfOpen
  /\ reactor' = FALSE
  /\ UNCHANGED <<running, hb, joinable, asked, heard>>

----------------------------------------------------------------------------
(* The heartbeat thread: heartbeatLoop. *)

Heartbeat(here, there) ==
  /\ hb = here
  /\ hb' = there
  /\ UNCHANGED <<pc, running, joinable, listenFd, reactor, kernelFd, misclosed, asked, heard>>

HbTest    == Heartbeat("test", IF running THEN "sleep" ELSE "exited")
HbWake    == Heartbeat("sleep", IF running THEN "check" ELSE "exited")
HbChecked == Heartbeat("check", "test")

----------------------------------------------------------------------------
(* signalHandler: stop() through g_server, which is null until main sets it. *)
Signal ==
  /\ pc \notin {"signal", "exit"}
  /\ running' = IF pc \in {"construct", "publish"} THEN running ELSE FALSE
  /\ asked' = TRUE
  /\ heard' = (heard \/ pc \in {"spawn", "loop", "poll"})
  /\ UNCHANGED <<pc, hb, joinable, listenFd, reactor, kernelFd, misclosed>>

----------------------------------------------------------------------------
Main ==
  \/ InstallHandlers \/ Construct \/ Publish \/ StartStep \/ EnterRun \/ Spawn
  \/ TestRunning \/ Poll \/ ClearRunning("leave", "join") \/ Join("join", "cleanup") \/ Cleanup
  \/ ClearRunning("stop", "destroyJoin") \/ Join("destroyJoin", "destroyClose") \/ DestroyClose

HeartbeatThread == HbTest \/ HbWake \/ HbChecked

Exited == pc = "exit" /\ UNCHANGED vars

Next == Main \/ HeartbeatThread \/ Signal \/ StartFails \/ PollFails \/ Exited

Spec == Init /\ [][Next]_vars

\* Both threads are scheduled; a poll returns within a second and a sleep within five.
FairSpec == Spec /\ WF_vars(Main) /\ WF_vars(HeartbeatThread)

----------------------------------------------------------------------------
(* Properties. *)

\* Every variable stays in its range.
TypeOK ==
  /\ pc \in MainSteps \cup StartCalls
  /\ running \in BOOLEAN /\ joinable \in BOOLEAN /\ listenFd \in BOOLEAN
  /\ reactor \in BOOLEAN /\ misclosed \in BOOLEAN
  /\ asked \in BOOLEAN /\ heard \in BOOLEAN
  /\ hb \in {"none", "test", "sleep", "check", "exited"}
  /\ kernelFd \in {"unopened", "open", "closed"}

\* Whichever call of start() fails and whenever a signal comes, the listening socket is closed
\* exactly once: start(), run() and the destructor all close it, and each must know of the others.
ClosedOnce ==
  /\ ~misclosed
  /\ pc = "exit" => kernelFd # "open"

\* run() and the destructor outlive the heartbeat thread: it never looks at the client table or
\* the queue of a server being taken down, and no joinable std::thread is ever destroyed.
ThreadOutlived ==
  /\ hb = "check" => reactor /\ pc \in {"loop", "poll", "leave", "join"}
  /\ pc = "exit" => ~joinable /\ hb \in {"none", "exited"}

\* A stop() that finds run() under way, or a failing poll, leads to the end of the process:
\* the join cannot wait for a thread that was never told.
RunReturns == (heard \/ pc = "leave") ~> (pc = "exit")

\* What main prints before it starts ("Press Ctrl+C to stop"): a signal handled by signalHandler
\* stops the process. It does not when it comes while start() is working, since run()
\* overwrites running_, or before g_server is set.
StopHonoured == asked ~> (pc = "exit")

=============================================================================
