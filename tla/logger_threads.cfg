\* Two threads and two callbacks of the AutomationInterface at the same logger, whose monitors
\* may call it again from inside every notification.
SPECIFICATION FairSpec
CONSTANTS
  t1 = t1
  t2 = t2
  a1 = a1
  a2 = a2
  m1 = m1
  m2 = m2
  Null = Null
  Threads = {t1, t2}
  Callbacks = {a1, a2}
  Monitors = {m1}
  Severities = {0, 1}
  Reentrant = {"register", "unregister", "log", "setSeverity"}
  WaitsForCaller = FALSE
  MaxMirrors = 2
  MaxOps = 3
  MaxEvents = 2
  MaxRefusals = 1
INVARIANTS
  TypeOK
  RegisteredIsCurrent
  NoCallIntoFreedMirror
  MonitorCallsAreSerial
  QuietAfterUnregister
  LevelIsCurrent
  OnlyMonitorDeadlocks
PROPERTIES
  CallsReturn
\* The threads may stop calling.
CHECK_DEADLOCK FALSE
