SPECIFICATION Spec
CONSTANTS
  Events = {1, 2, 3}
  Publishers = {p1, p2}
  BatchSize = 2
  MaxRetries = 2
  Faults = {"db", "broker", "reply", "crash"}
  MaxFaults = 2
CHECK_DEADLOCK FALSE
INVARIANTS PublishedWasSent DeadLetterEarned FewStranded NoNeedlessCopy
PROPERTIES SettledIsFinal ImplementsEventRelay
