CONSTANTS
  p1 = p1
  p2 = p2
  p3 = p3
  s1 = s1
  s2 = s2
  Null = Null
  Moved = Moved
  Tasks <- ThreeTasks
  Slots <- TwoSlots
  Erring <- AnyPromise
  MaxSuspends = 2
SYMMETRY Symmetry
SPECIFICATION Spec
CHECK_DEADLOCK FALSE
INVARIANTS
  TypeOK
  OneHandler
  NoLateWrite
