CONSTANTS
  p1 = p1
  p2 = p2
  p3 = p3
  p4 = p4
  x = x
  y = y
  Null = Null
  Unbounded = Unbounded
  MaxAlts = 2
  Procs <- ThreeProcs
  Channels <- TwoChannels
  BuffSize <- Unbuffered
  SendType <- OneType
  Script <- CancelledWriteScript
SPECIFICATION Spec
INVARIANTS
  NoDanglingPointer
CHECK_DEADLOCK FALSE
