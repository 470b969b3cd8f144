SPECIFICATION SSpec
CONSTANTS
  MinMtu = 2
  MaxMtu = 7
  Retries = 2
  Pings = 2
  Paths = {1, 3, 5, 6, 7}
  Second = 10
  MtuTimeouts = {1, 5}
INVARIANTS STypeOK MtuFound HandshakeSound TeardownOrder
PROPERTIES EndsWhenTold MeasureEnds StreamRunSpec
\* The connection is used once: it ends for good.
CHECK_DEADLOCK FALSE
