\* A participant that starts after it was added.
SPECIFICATION ClientSpec
CONSTANTS
  Components = {"state", "config"}
  Interfaces <- TwoInterfaces
  Profiles <- AllVersions
  MaxCalls = 2
  MaxRestarts = 2
  MaxFaults = 1
  MaxOperations = 2
  MaxOthers = 1
INVARIANTS
  NoNullDereference
\* The client may stop calling.
CHECK_DEADLOCK FALSE
