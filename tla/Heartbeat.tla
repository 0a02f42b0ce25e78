----------------------------- MODULE Heartbeat -----------------------------
(***************************************************************************)
(* The timing of the heartbeat protocol between one client and the server: *)
(* the client's QTimer, the network, the heartbeat thread that wakes every *)
(* kHeartbeatIntervalSec and lists the connections that have been silent,  *)
(* and the event loop that closes them when its poll next returns. Time    *)
(* passes in ticks; what is due at a tick happens before the next tick,    *)
(* that is, no thread is kept from running for as long as a tick.          *)
(***************************************************************************)
EXTENDS Naturals

CONSTANTS
  Second,                 \* ticks in a second
  kHeartbeatTimeoutSec,
  HeartbeatInterval,      \* kHeartbeatIntervalSec, in ticks
  PollTimeout,            \* the argument of Reactor::poll in Server::run, in ticks
  SendMin, SendMax,       \* the client's timer fires this often (a coarse QTimer), in ticks
  Delay                   \* bound on the time from the client's send to the server's read

ASSUME TimingAssumption ==
  /\ Second \in Nat \ {0} /\ kHeartbeatTimeoutSec \in Nat
  /\ HeartbeatInterval \in Nat \ {0} /\ PollTimeout \in Nat \ {0}
  /\ SendMin \in Nat /\ SendMax \in Nat /\ Delay \in Nat
  /\ Delay < SendMin /\ SendMin <= SendMax

\* ClientManager::checkTimeout compares whole seconds, rounded down, with >.
Limit == (kHeartbeatTimeoutSec + 1) * Second

\* The client's heartbeats are frequent enough: what 5 s and 10 s are chosen for.
ASSUME LimitAssumption == Limit \in Nat /\ SendMax + Delay < Limit

VARIABLES
  connected,   \* the server holds the connection
  age,         \* ticks since ClientInfo.lastHeartbeat
  listed,      \* the connection is in pendingDisconnects_
  hbTimer,     \* ticks until the heartbeat thread wakes
  pollTimer,   \* ticks until poll returns, if nothing happens before
  sendTimer,   \* ticks until the client's timer fires
  flight,      \* 0: nothing on the wire; n + 1: a heartbeat due in n ticks at most
  lapsed       \* history: the client has left out a heartbeat on this connection

vars == <<connected, age, listed, hbTimer, pollTimer, sendTimer, flight, lapsed>>

Init ==
  /\ connected = FALSE
  /\ age = 0
  /\ listed = FALSE
  /\ hbTimer = HeartbeatInterval
  /\ pollTimer = PollTimeout
  /\ sendTimer = 0
  /\ flight = 0
  /\ lapsed = FALSE

----------------------------------------------------------------------------
\* addClient stamps the connection; the client has seen it at that moment or before.
Connect ==
  /\ ~connected
  /\ connected' = TRUE
  /\ sendTimer' \in 0 .. SendMax
  /\ UNCHANGED <<age, listed, hbTimer, pollTimer, flight, lapsed>>

\* onHeartbeatTimeout sends a heartbeat.
SendHeartbeat ==
  /\ connected /\ sendTimer = 0
  /\ sendTimer' \in SendMin .. SendMax
  /\ flight' = Delay + 1
  /\ UNCHANGED <<connected, age, listed, hbTimer, pollTimer, lapsed>>

\* The client is stopped or hung when its timer is due: this heartbeat is not sent.
MissHeartbeat ==
  /\ connected /\ sendTimer = 0
  /\ sendTimer' \in SendMin .. SendMax
  /\ lapsed' = TRUE
  /\ UNCHANGED <<connected, age, listed, hbTimer, pollTimer, flight>>

\* handleClientDisconnect; what is on the wire is lost with the connection.
drop ==
  /\ connected' = FALSE
  /\ age' = 0
  /\ listed' = FALSE
  /\ sendTimer' = 0
  /\ flight' = 0
  /\ lapsed' = FALSE

\* poll returns, after its timeout or for another connection, and what is listed is closed.
PollReturns ==
  /\ pollTimer' = PollTimeout
  /\ IF listed THEN drop ELSE UNCHANGED <<connected, age, listed, sendTimer, flight, lapsed>>
  /\ UNCHANGED hbTimer

\* A slip: the heartbeat is answered and not recorded. Breaks DropsOnlyLapsed.
ReceiveHeartbeat_noUpdate ==
  /\ flight > 0
  /\ pollTimer' = PollTimeout
  /\ IF listed THEN drop ELSE flight' = 0 /\ UNCHANGED <<connected, age, listed, sendTimer, lapsed>>
  /\ UNCHANGED hbTimer

\* poll returns for the heartbeat: lastHeartbeat is now. A connection listed before is closed
\* all the same once the event is handled.
ReceiveHeartbeat ==
  /\ flight > 0
  /\ pollTimer' = PollTimeout
  /\ IF listed THEN drop
     ELSE /\ age' = 0
          /\ flight' = 0
          /\ UNCHANGED <<connected, listed, sendTimer, lapsed>>
  /\ UNCHANGED hbTimer

\* A slip: one tick more is allowed. Breaks SilentDropped.
Expired_offByOne == age > Limit

\* elapsed > timeoutSeconds
Expired == age >= Limit

\* The heartbeat thread wakes, lists the connection if it is silent, and sleeps again.
HeartbeatCheck ==
  /\ hbTimer = 0
  /\ hbTimer' = HeartbeatInterval
  /\ listed' = (listed \/ (connected /\ Expired))
  /\ UNCHANGED <<connected, age, pollTimer, sendTimer, flight, lapsed>>

\* A tick passes when nothing is due.
Tick ==
  /\ hbTimer > 0 /\ pollTimer > 0
  /\ connected => sendTimer > 0 /\ flight # 1
  /\ hbTimer' = hbTimer - 1
  /\ pollTimer' = pollTimer - 1
  /\ IF connected
     THEN /\ age' = age + 1
          /\ sendTimer' = sendTimer - 1
          /\ flight' = IF flight = 0 THEN 0 ELSE flight - 1
     ELSE UNCHANGED <<age, sendTimer, flight>>
  /\ UNCHANGED <<connected, listed, lapsed>>

Next ==
  \/ Connect \/ SendHeartbeat \/ MissHeartbeat
  \/ PollReturns \/ ReceiveHeartbeat \/ HeartbeatCheck
  \/ Tick

Spec == Init /\ [][Next]_vars

----------------------------------------------------------------------------
(* Properties. *)

\* Every timer stays within its period.
TypeOK ==
  /\ connected \in BOOLEAN /\ listed \in BOOLEAN /\ lapsed \in BOOLEAN
  /\ age \in Nat
  /\ hbTimer \in 0 .. HeartbeatInterval
  /\ pollTimer \in 0 .. PollTimeout
  /\ sendTimer \in 0 .. SendMax
  /\ flight \in 0 .. Delay + 1

\* The server never closes, for silence, the connection of a client that has sent every
\* heartbeat its timer called for, wherever the three timers stand to each other.
DropsOnlyLapsed == [][connected /\ ~connected' => lapsed]_vars

\* How late the server may notice: the limit rounded up to whole seconds, a wait for the thread
\* to wake, and a wait for poll to return. With the source's values this is 17 seconds.
SilentDropped == connected => age < Limit + HeartbeatInterval + PollTimeout

\* Test case 4 of docs/module3_protocol_design.md: the client stops sending heartbeats, and
\* after 15 seconds the server has closed the connection.
DroppedWithin15 == connected => age <= 15 * Second

=============================================================================
