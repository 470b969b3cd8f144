SPECIFICATION FairSpec
CONSTANTS
  ConsoleMsgs = {"sessionId", "pinReq"}
  MaxQueue = 0
PROPERTIES PinForwarded
\* The session ends.
CHECK_DEADLOCK FALSE
