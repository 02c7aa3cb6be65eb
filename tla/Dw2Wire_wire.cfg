\* The buffers and the largest frame scaled down to a few bytes, 512 -> 8, 1024 -> 10,
\* 4096 -> 10 and 12; beside it every message of the protocol in its real size.
SPECIFICATION WireSpec
CONSTANTS
  MaxFrame = 8
  InBuf = 10
  OutBuf = 10
  ClientBuf = 12
  Replies <- ShortReplies
  Requests <- ShortRequests
  Loads <- McLoads
  Wire = 9
  Chunks = {1, 4}
INVARIANTS
  NothingGarbled
  FramesReadBack
PROPERTIES
  AllArrives
CHECK_DEADLOCK FALSE
