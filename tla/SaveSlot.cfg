\* The live save path of one note, with one retry before a dialog is raised.
SPECIFICATION FairSpec
CONSTANTS
  Region = {r1, r2}
  NoText = NoText
  NoDialog = NoDialog
  MaxRetries = 1
  Faults = {"lost", "ackLost", "refused"}
  Typing = {r1}
  MaxTyped = 2
  MaxForeign = 1
  MaxFaults = 2
  MaxRefresh = 1
INVARIANTS
  TypeOK
  SingleFlight
  CleanMeansSaved
  HeldOffOnlyForADialog
PROPERTIES
  NoBlindOverwrite
  SavesSettle
\* Every edit, fault and re-read is bounded, so the device comes to rest.
CHECK_DEADLOCK FALSE
