SPECIFICATION Spec
CONSTANTS
  CorrelationWindow = 300
  MinConfidence = 600
  FailureThreshold = 3
  Lower <- LowerCase
  Texts <- AllTexts
  Length <- TextLength
  Blank <- BlankTexts
  Garbled <- GarbledTexts
  Configurations <- SettingsLikeGood
  Places <- CodePlaces
  Gaps = {0, 200, 301}
CHECK_DEADLOCK FALSE
INVARIANTS
  KnownPairAlerts
