\* A folder is moved whose second note links to its first by the whole path.
SPECIFICATION Spec
CONSTANTS
  n1 = n1
  n2 = n2
  n3 = n3
  None = None
  Nothing = Nothing
  NotePath <- Paths3
  FolderPath <- FoldersM
  Rank <- Order
  Vaults <- Back
  Namesakes = FALSE
  Suggested <- Near
  MaxDepth = 2
  Steps = {4}
  MaxMoves = 1
  MaxFetches = 0
  MaxFaults = 1
INVARIANTS
  LinksFollow
CHECK_DEADLOCK FALSE
