\* A System with participants of its own is assigned another one.
SPECIFICATION Spec
CONSTANTS
  Systems = {s1, s2}
  SystemNames = {a}
  Names <- ThreeNames
  Values = {v0}
  Legacy = {2}
  Default = v0
  None = None
  Moved = Moved
  Impls <- TwoImpls
  Generations = {1, 2, 3}
  MaxCalls = 6
  MaxChanges = 0
SYMMETRY Interchangeable
PROPERTIES
  AssignmentCopies
CHECK_DEADLOCK FALSE
