\* Lookups and calls of the state machine, restarts in other versions and a fault.
SPECIFICATION ClientSpec
CONSTANTS
  Components = {"state", "config"}
  Interfaces <- TwoInterfaces
  Profiles <- AllVersions
  MaxCalls = 2
  MaxRestarts = 2
  MaxFaults = 1
  MaxOperations = 2
  MaxOthers = 1
INVARIANTS
  ClientTypeOK
  AnswerIsJustified
  OutcomeIsTrue
\* The client may stop calling.
CHECK_DEADLOCK FALSE
