SPECIFICATION StreamsSpec
CONSTANTS
  Half = 8
  Size = 4
  Users = {u1, u2, u3, u4, u5}
  NoUser = NoUser
  Start = 13
  MaxNum = 18
  VideoHalf = 4
  VideoSource = 3
  VideoFec = 2
  Refs = 2
  Gap = 4
  SwitchAt = 6
  MaxFrame = 9
  AudioHalf = 8
  Source = 2
  Fec = 2
  LastFrame = 17
  Lag = 3
  Words = 4
  Mtus = {7, 8, 9}
  Totals = {1, 2, 3, 4, 5, 6, 7, 8, 9}
  Overhead = 2
  HeadFirst = 3
  HeadRest = 2
  Motions = {0, 1}
  Strengths = {0, 1}
  Threads = {a, b}
  Block = 2
  Refresh = 4
  SizeMax = 9
  Sizes = {1, 2}
  Numbers = 2
  Room = 4
  CtrlMax = 3
  Features = 1
  Doubles = 1
  Together = 2
  Waiting = 1
  Mixes = {{"beat", "id", "long", "aOff"}, {"aOn", "aOff", "bOn", "bOff"}}
\* the queue is destroyed, and the frames and messages come to their end
CHECK_DEADLOCK FALSE
INVARIANTS TypeOK Ownership Delivery FramesSound UnitsSound
PROPERTY WindowSpec
