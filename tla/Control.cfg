SPECIFICATION ControlSpec
CONSTANTS
  Keys = 1
  Levels = {0, 1}
  Slots = 1
  Sticks = {0, 1}
  Size = 3
  MaxSets = 3
  Controllers = {a, b}
  Loose = {a}
  Capacity = 1
  Starts = 1
  Toggles = 2
  Frames = 1
  Strengths = {0, 9, 10, 11, 12}
  MinLevel = 10
  Effects = {0, 1}
  Rumbles = 4
INVARIANTS TypeOK HistoryWindow ControlSound
PROPERTIES StickArrives UsbStops
\* The sender and the controllers come to their end.
CHECK_DEADLOCK FALSE
