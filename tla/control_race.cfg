\* Two controllers of the same two participants call at the same time.
SPECIFICATION Spec
CONSTANTS
  c1 = c1
  c2 = c2
  Controllers = {c1, c2}
  Participants <- TwoParticipants
  Members <- AllAndAll
  InitPriority <- NegativePriority
  StartPriority <- TiedPriority
  Standalone <- Nobody
  InitialStates = {"FS_IDLE", "FS_RUNNING", "FS_ERROR"}
  Operations = {"start", "stop", "shutdown"}
  SlowAnswers = FALSE
  MinPolls = 1
  MaxPolls = 2
  MaxCalls = 2
  MaxFaults = 0
SYMMETRY SameControllers
INVARIANTS
  SuccessIsUniform
\* The environment may stop making calls.
CHECK_DEADLOCK FALSE
