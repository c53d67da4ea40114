\* Two Systems that are constructed, copied, assigned, moved, discovered and destroyed.
SPECIFICATION Spec
CONSTANTS
  Systems = {s1, s2}
  SystemNames = {a, b}
  Names <- TwoNames
  Values = {v0, v1}
  Legacy = {2}
  Default = v0
  None = None
  Moved = Moved
  Impls <- ThreeImpls
  Generations = {1, 2, 3}
  MaxCalls = 5
  MaxChanges = 1
SYMMETRY Interchangeable
INVARIANTS
  TypeOK
  OwnLogger
PROPERTIES
  KeepsContract
  DiscoveryIsFaithful
\* The client may stop calling, and a crash ends the process.
CHECK_DEADLOCK FALSE
