SPECIFICATION Spec
CONSTANTS
  u1 = u1
  u2 = u2
  Urls = {u1, u2}
  Targets <- Repeated
  Threshold = 2
  MaxCount = 2
INVARIANTS
  TypeOK
  StateAgrees
  NothingSkipped
  RecordedIsQueued
PROPERTIES
  PersistentOnly
  FindingReported
