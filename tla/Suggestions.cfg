\* Three notes, each near to one other at most; saves one at a time.
SPECIFICATION Spec
CONSTANTS
  Notes = {1, 2, 3}
  Passages = {"x", "y"}
  Contents <- NoteContents
  Similarity <- Alike
  MinScore = 2
  Neighbours = 1
  BatchSize = 2
  MaxWriting = 1
  MaxEdits = 3
  MaxFaults = 1
  MaxRestarts = 1
INVARIANTS
  SuggestedOnce
PROPERTIES
  CatchesUp
CHECK_DEADLOCK FALSE
