\* One controller of three participants, one of an empty system; nothing fails and the polls
\* wait for the slow.
SPECIFICATION Spec
CONSTANTS
  c1 = c1
  c2 = c2
  Controllers = {c1, c2}
  Participants <- ThreeParticipants
  Members <- AllAndNone
  InitPriority <- NegativePriority
  StartPriority <- TiedPriority
  Standalone <- Nobody
  InitialStates = {"FS_IDLE", "FS_READY", "FS_ERROR"}
  Operations = {"start", "stop", "shutdown"}
  SlowAnswers = FALSE
  MinPolls = 1
  MaxPolls = 2
  MaxCalls = 2
  MaxFaults = 0
INVARIANTS
  StartBarrier
  SuccessHolds
\* The environment may stop making calls.
CHECK_DEADLOCK FALSE
