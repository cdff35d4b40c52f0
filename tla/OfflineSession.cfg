\* Everything two notes and two folders allow in five operations.
SPECIFICATION Spec
CONSTANTS
  NotePath <- Notes
  FolderPath <- Folders
  OnServer <- Vault
  Nothing = Nothing
  MaxOps = 5
INVARIANTS
  QueueReachesView
  UnmovedReplaysClean
  NothingOfOursPruned
CHECK_DEADLOCK FALSE
