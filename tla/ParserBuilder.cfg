SPECIFICATION Spec
CONSTANTS
  p = p
  q = q
  c = c
  o1 = o1
  o2 = o2
  a1 = a1
  a2 = a2
  Object <- MCObject
  ClassOf <- MCClassOf
  CommandName = {n1, n2}
  Default = Default
  Nothing = Nothing
  MaxCommands = 2
  MaxCalls = 3
SYMMETRY MCSymmetry
INVARIANTS
  TypeOK
  HoldsWhatWasGivenLast
CHECK_DEADLOCK FALSE
