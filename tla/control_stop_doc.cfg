\* The order of the CE_Stop of one stop.
SPECIFICATION Spec
CONSTANTS
  c1 = c1
  c2 = c2
  Controllers = {c1}
  Participants <- ThreeParticipants
  Members <- AllAndNone
  InitPriority <- NegativePriority
  StartPriority <- MixedPriority
  Standalone <- Nobody
  InitialStates = {"FS_RUNNING"}
  Operations = {"stop"}
  SlowAnswers = FALSE
  MinPolls = 1
  MaxPolls = 2
  MaxCalls = 1
  MaxFaults = 0
INVARIANTS
  StopKeepsPriority
\* The environment may stop making calls.
CHECK_DEADLOCK FALSE
