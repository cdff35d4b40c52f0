\* Three requests at a time, on any notes, and a crash.
SPECIFICATION Spec
CONSTANTS
  NotePath <- Notes
  Linked <- Targets
  Start <- AtFirst
  Req = {r1, r2, r3}
  None = None
  Nothing = Nothing
  MaxRequests = 3
  MaxCrashes = 1
SYMMETRY Requests
PROPERTIES
  
  IsAtomic
CHECK_DEADLOCK FALSE
