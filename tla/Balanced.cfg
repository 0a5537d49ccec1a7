CONSTANTS
  p1 = p1
  p2 = p2
  p3 = p3
  p4 = p4
  x = x
  y = y
  Null = Null
  Unbounded = Unbounded
  MaxAlts = 2
  Procs <- FourProcs
  Channels <- TwoChannels
  BuffSize <- ZeroAndOne
  SendType <- TwoTypes
  Script <- BalancedScript
SPECIFICATION FairSpec
INVARIANTS
  OneAlternative
  IInvWalked
  ValuesConserved
PROPERTIES
  SubmissionEnds
  MatchedReturns
  AllReturn
