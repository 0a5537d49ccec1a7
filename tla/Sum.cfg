CONSTANTS
  t1 = t1
  t2 = t2
  t3 = t3
  Nullopt = Nullopt
  Subtasks <- ThreeSubtasks
  array <- Numbers
SPECIFICATION Spec
INVARIANTS
  TypeOK
  SumKept
  NobodyLeft
PROPERTIES
  Returns
