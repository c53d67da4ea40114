\* Timing configurations of a System of three participants, and copies of a node, while
\* participants go away, come back and are configured by others, and messages get lost.
SPECIFICATION Spec
CONSTANTS
  Participants <- ThreeParticipants
  Kind <- Kinds
  StartTree <- Trees
  Node <- CopiedNode
  OtherPairs <- NumberOrText
  Missing = Missing
  None = None
  MaxCalls = 2
  MaxTroubles = 2
  Timings <- SomeTimings
INVARIANTS
  TypeOK
  SuccessConfiguresAll
  UnnamedHaveIt
  OneMasterClock
  CopiedPairsAreReal
\* The client may stop calling, and a crash ends the process.
CHECK_DEADLOCK FALSE
