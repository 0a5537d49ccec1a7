CONSTANTS
  v1 = v1
  v2 = v2
  v3 = v3
  NoValue = NoValue
  Values <- ThreeValues
  Size = 3
SPECIFICATION Spec
INVARIANTS
  TypeOK
  TransferAsserts
PROPERTIES
  RingIsFifo
