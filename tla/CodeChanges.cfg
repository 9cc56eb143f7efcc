SPECIFICATION Spec
CONSTANTS
  f1 = f1
  f2 = f2
  Files = {f1, f2}
  MaxVersion = 3
  MaxEdits = 3
  MaxTracked = 1
  Modes = {"watchdog", "polling"}
  StartScans = {TRUE, FALSE}
  FaultSets <- LosslessOrNot
INVARIANTS
  TypeOK
  NoChangeForgotten
PROPERTIES
  PollingFindsEverything
  EventsAreHandled
  FailureEndsWatch
