CONSTANTS
  h1 = h1
  h2 = h2
  h3 = h3
  a1 = a1
  a2 = a2
  l1 = l1
  l2 = l2
  NoState = NoState
  Threads <- ThreeThreads
  Addresses <- TwoAddresses
  Locations <- TwoLocations
  Handles <- ThreeHandles
  Flags <- OneReads
  MaxBorn = 2
SYMMETRY Symmetry
SPECIFICATION Spec
INVARIANTS
  TypeOK
  UsesExact
  HandlesAlive
  TracerExact
  CountsAgree
  AnswerTrue
PROPERTIES
  NoReallocation
