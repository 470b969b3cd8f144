SPECIFICATION MediaSpec
CONSTANTS
  Bang = 1
  QueueSize = 3
  PostponeMax = 2
  EnableCrypt = TRUE
  MaxData = 4
  MaxAV = 4
  Frames = 3
  In = 1
  Out = 3
  Limit = 2
  Calls = 2
  Sounds = 2
  FrameSize = 3
  Heads = 1
  Chunks = 2
  ChunkSize = 2
  Request = 3
  Headers = 2
  Switches = 1
  Pages = 2
  Changes = 2
  Window = 2
  Room = 2
  ResendTries = 1
  Last = 3
INVARIANTS MediaTypeOK PacketsKept OutputSound
PROPERTY MediaEnds
\* Connections, codecs and pages come to their end.
CHECK_DEADLOCK FALSE
