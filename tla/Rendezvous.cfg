CONSTANTS
  p1 = p1
  p2 = p2
  p3 = p3
  p4 = p4
  x = x
  y = y
  Null = Null
  Unbounded = Unbounded
  MaxAlts = 2
  Procs <- ThreeProcs
  Channels <- TwoChannels
  BuffSize <- Unbuffered
  SendType <- TwoTypes
  Script <- RendezvousScript
SPECIFICATION Spec
INVARIANTS
  OneAlternative
  ValuesConserved
  NoMissedMatch
  NoDanglingPointer
  WaitersReachable
  DequeueAssertions
PROPERTIES
  SetValueOnce
  IsAtomic
CHECK_DEADLOCK FALSE
