CONSTANTS
  x = x
  y = y
  u = u
  v = v
  Void = Void
  Value = Value
  MovedOut = MovedOut
  NoValue = NoValue
  Unbounded = Unbounded
  MaxAlts = 3
  Channels <- FourChannels
  BuffSize <- Sizes
  SendType <- ValueOrVoid
  Offered <- AllSelections
SPECIFICATION Spec
INVARIANTS
  ToldApart
  OneTypeFits
  ValueFound
CHECK_DEADLOCK FALSE
