CONSTANTS
  p1 = p1
  p2 = p2
  p3 = p3
  p4 = p4
  x = x
  y = y
  Null = Null
  Unbounded = Unbounded
  MaxAlts = 2
  Procs <- TwoProcs
  Channels <- OneChannel
  BuffSize <- XUnbuffered
  SendType <- OneType
  Script <- BothEndsScript
SPECIFICATION FairSpec
PROPERTIES
  SubmissionEnds
CHECK_DEADLOCK FALSE
