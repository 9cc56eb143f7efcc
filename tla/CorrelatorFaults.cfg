SPECIFICATION Spec
CONSTANTS
  a1 = a1
  c1 = c1
  c2 = c2
  x1 = x1
  ApiFindings = {a1}
  CodeFindings = {c1, c2}
  OtherFindings = {x1}
  Related <- Forked
  MaxSize = 2
  Window = 2
  MaxAttempts = 2
  Faults <- AllFaults
INVARIANTS
  TypeOK
  NoPairWaiting
  MatchIsBuffered
  BuffersBounded
  OneAlertPerCopy
