CONSTANTS
  p1 = p1
  p2 = p2
  p3 = p3
  p4 = p4
  x = x
  y = y
  Null = Null
  Unbounded = Unbounded
  MaxAlts = 3
  Procs <- ThreeProcs
  Channels <- TwoChannels
  BuffSize <- TwoAndUnbounded
  SendType <- OneType
  Script <- BufferScript
SPECIFICATION Spec
INVARIANTS
  TypeOK
  ValuesConserved
  ReadInOrder
  NoMissedMatch
  WaitersReachable
PROPERTIES
  IsAtomic
CHECK_DEADLOCK FALSE
