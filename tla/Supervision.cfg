SPECIFICATION Spec
CONSTANTS
  correlator = correlator
  watcher = watcher
  health = health
  Threads = {correlator, watcher, health}
  Api = Api
  Nobody = Nobody
INVARIANTS
  TypeOK
  CleanExitHadNoFailure
  WakeUpNotLost
PROPERTIES
  FailureEndsMain
  StopEndsProcess
