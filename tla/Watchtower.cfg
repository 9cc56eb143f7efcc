SPECIFICATION Spec
CONSTANTS
  engine = engine
  t1 = t1
  t2 = t2
  CorrelationWindow = 300
  MinConfidence = 600
  FailureThreshold = 3
  Lower <- LowerCase
  ApiFindings <- AnyApi
  CodeFindings <- AnyCode
  OtherFindings = {}
  Gaps = {0, 200}
  MaxSize = 1
  Window = 1
  Engine = engine
  Tokens = {t1, t2}
  NoToken = NoToken
  MinSeverity = 4
  NumChannels = 1
  MaxAttempts = 1
  LoopFaults <- LoopFailures
  PipeFaults <- PipeFailures
INVARIANTS
  TypeOK
  SuppressedWasTold
PROPERTIES
  QueueDrains
  ImplementsLoop
  ImplementsPipeline
