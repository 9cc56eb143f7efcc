SPECIFICATION Spec
CONSTANTS
  f1 = f1
  f2 = f2
  Files = {f1}
  MaxVersion = 2
  MaxEdits = 1
  MaxTracked = 1
  Modes = {"watchdog"}
  StartScans = {TRUE}
  FaultSets <- NoFault
PROPERTIES
  ContentIsScanned
