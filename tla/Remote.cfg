SPECIFICATION Spec
CONSTANTS
  Ids = {a, b, c}
  Details = {r, s}
  HostsMax = 3
  DropPings = 1
  Half = 4
  Connections = 2
  RudpTries = 2
  Size = 2
  ResendTries = 1
  Senders = {t1, t2}
  Lowest = 2
  Limit = 5
  Width = 32
  Servers = 5
  Addrs = {x, y}
  Steps = {1}
  Delay = 1
  Rounds = 2
  Received = {l, p}
  Public = {p}
  Others = {x, y}
  Six = {y}
  Extra = 1
  Retries = 2
  Packets = 3
  Attempts = 2
  Tries = 2
  Repeats = 1
  InFlight = 1
  HostAddrs = 2
  PunchAttempts = 2
INVARIANTS TypeOK PeersSound HolesSound
PROPERTY ConnectEnds
\* Each component comes to its end.
CHECK_DEADLOCK FALSE
