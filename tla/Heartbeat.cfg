SPECIFICATION Spec
CONSTANTS
  Second = 2
  kHeartbeatTimeoutSec = 10
  HeartbeatInterval = 10
  PollTimeout = 2
  SendMin = 9
  SendMax = 11
  Delay = 2
INVARIANT SilentDropped
PROPERTY DropsOnlyLapsed
