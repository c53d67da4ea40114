\* One controller, slow answers, one fault of a participant or of the bus, and a check for
\* standalone participants that finds the last one or misses it.
SPECIFICATION FairSpec
CONSTANTS
  c1 = c1
  c2 = c2
  Controllers = {c1}
  Participants <- TwoParticipants
  Members <- AllAndNone
  InitPriority <- NegativePriority
  StartPriority <- TiedPriority
  Standalone <- Last
  InitialStates = {"FS_IDLE"}
  Operations = {"start", "stop", "shutdown"}
  SlowAnswers = TRUE
  MinPolls = 1
  MaxPolls = 2
  MaxCalls = 2
  MaxFaults = 1
INVARIANTS
  TypeOK
  StopIsFinal
PROPERTIES
  KeepsContract
  CallAdvances
  CallTerminates
  StopTakesEffect
\* The environment may stop making calls.
CHECK_DEADLOCK FALSE
