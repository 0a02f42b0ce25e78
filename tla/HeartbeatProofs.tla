-------------------------- MODULE HeartbeatProofs --------------------------
(***************************************************************************)
(* The two bounds of Heartbeat.tla for every choice of its periods. Each   *)
(* rests on a sum that a tick leaves alone: what has passed on one clock   *)
(* and what is left on another.                                            *)
(***************************************************************************)
EXTENDS Heartbeat, TLAPS

\* Silence that is not listed yet is noticed when the thread wakes, and a listed connection is
\* closed when poll returns.
NoticedInTime ==
  connected =>
    /\ ~listed => age + hbTimer < Limit + HeartbeatInterval
    /\ listed => age + pollTimer < Limit + HeartbeatInterval + PollTimeout

\* A client that has not lapsed is heard again before the limit.
HeardInTime ==
  connected /\ ~lapsed =>
    /\ ~listed
    /\ flight = 0 => age + sendTimer <= SendMax
    /\ flight > 0 => age + flight <= SendMax + Delay + 1

\* One heartbeat at most is on the wire: it arrives before the next is due.
OneInFlight == connected => (flight > 0 => sendTimer >= flight)

Disconnected == ~connected => age = 0 /\ ~listed /\ ~lapsed /\ flight = 0

IInv == TypeOK /\ NoticedInTime /\ HeardInTime /\ OneInFlight /\ Disconnected

\* Nothing added stays within the bound.
LEMMA SumWithZero == ASSUME NEW a, a = 0, NEW s \in Nat, NEW n \in Nat, s <= n PROVE a + s <= n
OBVIOUS

\* No time has passed.
LEMMA InitIInv == Init => IInv
<1> SUFFICES ASSUME Init PROVE IInv
  OBVIOUS
<1> USE TimingAssumption, LimitAssumption DEF Init
<1>1. connected \in BOOLEAN /\ listed \in BOOLEAN /\ lapsed \in BOOLEAN
  OBVIOUS
<1>2. age \in Nat /\ hbTimer \in 0 .. HeartbeatInterval /\ pollTimer \in 0 .. PollTimeout
  OBVIOUS
<1>3. sendTimer \in 0 .. SendMax /\ flight \in 0 .. Delay + 1
  OBVIOUS
<1>4. NoticedInTime /\ HeardInTime /\ OneInFlight /\ Disconnected
  BY DEF NoticedInTime, HeardInTime, OneInFlight, Disconnected
<1> QED
  BY <1>1, <1>2, <1>3, <1>4 DEF IInv, TypeOK

\* Every step of the clock, the peer and the server keeps it.
LEMMA NextIInv == IInv /\ [Next]_vars => IInv'
<1> SUFFICES ASSUME IInv, [Next]_vars PROVE IInv'
  OBVIOUS
<1> USE TimingAssumption, LimitAssumption
    DEF IInv, TypeOK, NoticedInTime, HeardInTime, OneInFlight, Disconnected
<1>1. CASE Connect
  <2> USE <1>1 DEF Connect
  <2>1. (connected \in BOOLEAN /\ listed \in BOOLEAN /\ lapsed \in BOOLEAN)'
    OBVIOUS
  <2>2. (/\ age \in Nat /\ hbTimer \in 0 .. HeartbeatInterval
         /\ pollTimer \in 0 .. PollTimeout)'
    OBVIOUS
  <2>3. (sendTimer \in 0 .. SendMax /\ flight \in 0 .. Delay + 1)'
    OBVIOUS
  <2>4. NoticedInTime'
    OBVIOUS
  <2>5. HeardInTime'
    <3>1. ~listed'
      OBVIOUS
    <3>2. age' + sendTimer' <= SendMax
      <4>1. age' = 0
        OBVIOUS
      <4>2. SendMax \in Nat /\ sendTimer' \in Nat /\ sendTimer' <= SendMax
        BY ONLY <2>3, TimingAssumption
      <4> QED
        BY ONLY <4>1, <4>2, SumWithZero, Zenon
    <3>3. ~(flight' > 0)
      OBVIOUS
    <3> QED
      BY ONLY <3>1, <3>2, <3>3, Zenon DEF HeardInTime
  <2>6. (OneInFlight /\ Disconnected)'
    OBVIOUS
  <2> QED
    BY <2>1, <2>2, <2>3, <2>4, <2>5, <2>6
<1>2. CASE SendHeartbeat
  <2> USE <1>2 DEF SendHeartbeat
  <2>1. (connected \in BOOLEAN /\ listed \in BOOLEAN /\ lapsed \in BOOLEAN)'
    OBVIOUS
  <2>2. (/\ age \in Nat /\ hbTimer \in 0 .. HeartbeatInterval
         /\ pollTimer \in 0 .. PollTimeout)'
    OBVIOUS
  <2>3. (sendTimer \in 0 .. SendMax /\ flight \in 0 .. Delay + 1)'
    OBVIOUS
  <2>4. NoticedInTime'
    OBVIOUS
  <2>5. HeardInTime'
    <3>1. ~lapsed => ~listed' /\ age' + flight' <= SendMax + Delay + 1 /\ flight' > 0
      OBVIOUS
    <3>2. lapsed' = lapsed
      OBVIOUS
    <3> QED
      BY ONLY <3>1, <3>2, <2>3 DEF HeardInTime
  <2>6. (OneInFlight /\ Disconnected)'
    OBVIOUS
  <2> QED
    BY <2>1, <2>2, <2>3, <2>4, <2>5, <2>6
<1>3. CASE MissHeartbeat
  BY <1>3 DEF MissHeartbeat
<1>4. CASE PollReturns
  <2> USE <1>4 DEF PollReturns, drop
  <2>1. (connected \in BOOLEAN /\ listed \in BOOLEAN /\ lapsed \in BOOLEAN)'
    OBVIOUS
  <2>2. (/\ age \in Nat /\ hbTimer \in 0 .. HeartbeatInterval
         /\ pollTimer \in 0 .. PollTimeout)'
    OBVIOUS
  <2>3. (sendTimer \in 0 .. SendMax /\ flight \in 0 .. Delay + 1)'
    OBVIOUS
  <2>4. NoticedInTime'
    OBVIOUS
  <2>5. HeardInTime'
    OBVIOUS
  <2>6. (OneInFlight /\ Disconnected)'
    OBVIOUS
  <2> QED
    BY <2>1, <2>2, <2>3, <2>4, <2>5, <2>6
<1>5. CASE ReceiveHeartbeat
  <2> USE <1>5 DEF ReceiveHeartbeat, drop
  <2>1. (connected \in BOOLEAN /\ listed \in BOOLEAN /\ lapsed \in BOOLEAN)'
    OBVIOUS
  <2>2. (/\ age \in Nat /\ hbTimer \in 0 .. HeartbeatInterval
         /\ pollTimer \in 0 .. PollTimeout)'
    OBVIOUS
  <2>3. (sendTimer \in 0 .. SendMax /\ flight \in 0 .. Delay + 1)'
    OBVIOUS
  <2>4. ASSUME listed PROVE NoticedInTime' /\ HeardInTime'
    <3>1. ~connected'
      BY <2>4
    <3> QED
      BY ONLY <3>1 DEF NoticedInTime, HeardInTime
  <2>5. ASSUME ~listed PROVE NoticedInTime' /\ HeardInTime'
    <3>1. /\ age' = 0 /\ flight' = 0 /\ ~listed' /\ hbTimer' = hbTimer
          /\ sendTimer' = sendTimer
      BY <2>5
    <3>2. sendTimer <= SendMax /\ hbTimer < Limit + HeartbeatInterval
      OBVIOUS
    <3> QED
      BY ONLY <3>1, <3>2, <2>2, <2>3 DEF NoticedInTime, HeardInTime
  <2>6. NoticedInTime' /\ HeardInTime'
    BY ONLY <2>4, <2>5
  <2>7. (OneInFlight /\ Disconnected)'
    OBVIOUS
  <2> QED
    BY <2>1, <2>2, <2>3, <2>6, <2>7
<1>6. CASE HeartbeatCheck
  BY <1>6 DEF HeartbeatCheck, Expired
<1>7. CASE Tick
  BY <1>7 DEF Tick
<1>8. CASE UNCHANGED vars
  BY <1>8 DEF vars
<1> QED
  BY <1>1, <1>2, <1>3, <1>4, <1>5, <1>6, <1>7, <1>8 DEF Next

\* The inductive invariant holds of every state of every behaviour.
THEOREM HeartbeatInvariant == Spec => []IInv
BY InitIInv, NextIInv, PTL DEF Spec

\* A silent connection is gone within the limit, a wake-up and a poll.
THEOREM SilenceNoticed == Spec => []SilentDropped
<1>1. IInv => SilentDropped
  BY TimingAssumption, LimitAssumption DEF IInv, TypeOK, NoticedInTime, SilentDropped
<1> QED
  BY <1>1, HeartbeatInvariant, PTL

\* A client that sends every heartbeat is never closed for silence.
THEOREM FaithfulClientKept == Spec => DropsOnlyLapsed
<1>1. IInv /\ [Next]_vars => [connected /\ ~connected' => lapsed]_vars
  <2> SUFFICES ASSUME IInv, Next, connected, ~connected' PROVE lapsed
    BY DEF vars
  <2>1. listed
    BY DEF Next, Connect, SendHeartbeat, MissHeartbeat, PollReturns, ReceiveHeartbeat,
           HeartbeatCheck, Tick
  <2> QED
    BY <2>1 DEF IInv, HeardInTime
<1> QED
  BY <1>1, HeartbeatInvariant, PTL DEF Spec, DropsOnlyLapsed

=============================================================================
