SPECIFICATION Spec
CONSTANTS
  pa = pa
  pb = pb
  pc = pc
  new = new
  None = None
  Paths <- MCPaths
  Birth <- MCBirth
  Fresh <- MCFresh
  Hasty <- Patience
  MaxEdits = 3
  MaxOps = 1
  MaxRereads = 1
  MaxSaves = 1
  MaxLoads = 3
INVARIANTS
  TypeOK
  NotesKeptApart
PROPERTIES
  EditsAreSaved
\* Keystrokes, operations and reads are bounded, so the device comes to rest.
CHECK_DEADLOCK FALSE
