\* One discovery, in a field that does not change.
SPECIFICATION Spec
CONSTANTS
  Systems = {s1, s2}
  SystemNames = {a, b}
  Names <- TwoNames
  Values = {v0, v1}
  Legacy = {2}
  Default = v0
  None = None
  Moved = Moved
  Impls <- ThreeImpls
  Generations = {1, 2, 3}
  MaxCalls = 1
  MaxChanges = 0
PROPERTIES
  StandaloneLeftOut
CHECK_DEADLOCK FALSE
