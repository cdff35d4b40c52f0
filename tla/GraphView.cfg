\* Three notes, a move, a graph asked for, and a fault.
SPECIFICATION Spec
CONSTANTS
  n1 = n1
  n2 = n2
  n3 = n3
  None = None
  Nothing = Nothing
  NotePath <- Paths3
  FolderPath <- FoldersM
  Rank <- Order
  Vaults <- Ahead
  Namesakes = FALSE
  Suggested <- Near
  MaxDepth = 2
  Steps = {4}
  MaxMoves = 1
  MaxFetches = 1
  MaxFaults = 1
INVARIANTS
  TypeOK
  LinksFollow
  LocalIsNear
CHECK_DEADLOCK FALSE
