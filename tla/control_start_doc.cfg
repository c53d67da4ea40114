\* start against slow or vanishing participants.
SPECIFICATION Spec
CONSTANTS
  c1 = c1
  c2 = c2
  Controllers = {c1}
  Participants <- TwoParticipants
  Members <- AllAndNone
  InitPriority <- NegativePriority
  StartPriority <- TiedPriority
  Standalone <- Nobody
  InitialStates = {"FS_IDLE"}
  Operations = {"start"}
  SlowAnswers = TRUE
  MinPolls = 1
  MaxPolls = 2
  MaxCalls = 1
  MaxFaults = 1
INVARIANTS
  StartReportsRunning
\* The environment may stop making calls.
CHECK_DEADLOCK FALSE
