-------------------------- MODULE LifecycleProofs --------------------------
(***************************************************************************)
(* The safety properties of Lifecycle.tla, proved of every behaviour: one  *)
(* invariant strong enough to be inductive, and what follows from it.      *)
(***************************************************************************)
EXTENDS Lifecycle, TLAPS

Looping == {"loop", "poll", "leave", "join"}

\* What ties the main thread's place to the resources it holds.
IInv ==
  /\ TypeOK
  /\ ~misclosed
  /\ listenFd <=> kernelFd = "open"
  /\ pc \in StartCalls \ {"socket"} => listenFd
  /\ pc = "exit" => ~listenFd
  /\ pc \in Looping \cup {"epoll_ctl", "run", "spawn"} => reactor
  /\ joinable => pc \in Looping
  /\ hb \in {"test", "sleep", "check"} => joinable

\* start() opens the socket first and registers with epoll last; the calls between keep their order.
LEMMA StartOrder ==
  ASSUME NEW c \in StartCalls
  PROVE  /\ AfterCall[c] \in (StartCalls \ {"socket"}) \cup {"run"}
         /\ AfterCall[c] = "epoll_ctl" => c = "epoll_create"
         /\ AfterCall[c] = "run" => c = "epoll_ctl"
BY DEF StartCalls, AfterCall

\* A server that is not started.
LEMMA InitIInv == Init => IInv
BY DEF Init, StartCalls, IInv, TypeOK, MainSteps, Looping

\* One step of either thread, of a signal or of a failing call keeps the invariant.
LEMMA NextIInv == IInv /\ [Next]_vars => IInv'
<1> SUFFICES ASSUME IInv, [Next]_vars PROVE IInv'
  OBVIOUS
<1> USE DEF StartCalls, IInv, TypeOK, MainSteps, Looping, From, objectVars
<1>1. CASE InstallHandlers \/ Construct \/ Publish
  BY <1>1 DEF InstallHandlers, Construct, Publish
<1>2. CASE StartStep
  BY <1>2, StartOrder DEF StartStep
<1>3. CASE StartFails
  BY <1>3 DEF StartFails, closeListen
<1>4. CASE EnterRun
  BY <1>4 DEF EnterRun
<1>5. CASE Spawn
  BY <1>5 DEF Spawn
<1>6. CASE TestRunning
  BY <1>6 DEF TestRunning
<1>7. CASE Poll \/ PollFails
  BY <1>7 DEF Poll, PollFails
<1>8. CASE ClearRunning("leave", "join")
  BY <1>8 DEF ClearRunning
<1>9. CASE ClearRunning("stop", "destroyJoin")
  BY <1>9 DEF ClearRunning
<1>10. CASE Join("join", "cleanup")
  BY <1>10 DEF Join
<1>11. CASE Join("destroyJoin", "destroyClose")
  BY <1>11 DEF Join
<1>12. CASE Cleanup
  BY <1>12 DEF Cleanup, closeIfOpen, closeListen
<1>13. CASE DestroyClose
  BY <1>13 DEF DestroyClose, closeIfOpen, closeListen
<1>14. CASE HbTest
  BY <1>14 DEF HbTest, Heartbeat
<1>15. CASE HbWake
  BY <1>15 DEF HbWake, Heartbeat
<1>16. CASE HbChecked
  BY <1>16 DEF HbChecked, Heartbeat
<1>17. CASE Signal
  BY <1>17 DEF Signal
<1>18. CASE UNCHANGED vars
  BY <1>18 DEF vars
<1> QED
  BY <1>1, <1>2, <1>3, <1>4, <1>5, <1>6, <1>7, <1>8, <1>9, <1>10, <1>11, <1>12, <1>13, <1>14,
     <1>15, <1>16, <1>17, <1>18
  DEF Next, Main, HeartbeatThread, Exited

\* The inductive invariant holds of every state of every behaviour.
THEOREM LifecycleInvariant == Spec => []IInv
BY InitIInv, NextIInv, PTL DEF Spec

\* The listening socket is closed exactly once on every path through start(), run() and ~Server.
THEOREM SocketClosedOnce == Spec => []ClosedOnce
<1>1. IInv => ClosedOnce
  BY DEF IInv, ClosedOnce
<1> QED
  BY <1>1, LifecycleInvariant, PTL

\* The heartbeat thread is joined before anything it uses is taken down.
THEOREM HeartbeatJoined == Spec => []ThreadOutlived
<1>1. IInv => ThreadOutlived
  BY DEF IInv, ThreadOutlived, TypeOK, Looping
<1> QED
  BY <1>1, LifecycleInvariant, PTL

=============================================================================
