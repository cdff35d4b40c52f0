SPECIFICATION Spec
CONSTANTS
  pa = pa
  pb = pb
  pc = pc
  new = new
  None = None
  Paths <- MCPaths
  Birth <- MCBirth
  Fresh <- MCFresh
  Hasty <- Impatience
  MaxEdits = 1
  MaxOps = 0
  MaxRereads = 0
  MaxSaves = 0
  MaxLoads = 2
INVARIANTS
  NotesKeptApart
\* Keystrokes, operations and reads are bounded, so the device comes to rest.
CHECK_DEADLOCK FALSE
