\* One replay at a time, an edit elsewhere, and two faults.
SPECIFICATION FairSpec
CONSTANTS
  NotePath <- Notes
  OnServer <- Vault
  Runs = {r1}
  Dialog = Dialog
  Popover = Popover
  Nothing = Nothing
  Overlap = FALSE
  MaxEdits = 3
  MaxForeign = 1
  MaxFaults = 2
INVARIANTS
  TypeOK
  TextNeverLost
  OfflineIsProbed
  CaughtUp
CHECK_DEADLOCK FALSE
PROPERTIES
  SyncEnds
  QueueDrains
