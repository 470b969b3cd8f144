SPECIFICATION FairSpec
CONSTANTS
  ConsoleMsgs = {"sessionId", "invalidId", "pinReq", "pinWrong", "loginOk", "other"}
  MaxQueue = 1
INVARIANTS TypeOK QuitTrue CtrlSound
PROPERTY StopEnds
\* The session ends.
CHECK_DEADLOCK FALSE
