SPECIFICATION FairSpec
CONSTANTS
  Half = 8
  Size = 3
  MaxTries = 1
  Senders = {t1, t2}
  NoSeq = NoSeq
  FirstSeq = 14
  MaxSends = 3
\* the buffer does nothing any more once it is freed
CHECK_DEADLOCK FALSE
INVARIANTS TypeOK BufferKept PushWakes
PROPERTIES ShrinksByAck BufferDrains
