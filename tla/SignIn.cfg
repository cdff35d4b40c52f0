\* Two browsers, two sign-ins at a time by password or through the provider, lost
\* cookies, and a users file and a process that do not stay as they were.
SPECIFICATION Spec
CONSTANTS
  Browser = {b1, b2}
  Req = {r1, r2}
  Account = {josh}
  Typed = {josh}
  Password = {p1, p2}
  Claims <- Names
  Admitted = {s1}
  Base <- Vault
  FileAtFirst <- OneAccount
  josh = josh
  p1 = p1
  other = other
  s1 = s1
  vault = vault
  Nothing = Nothing
  FreeAttempts = 1
  BaseLockout = 2
  MaxLockout = 3
  ForgetAfter = 4
  FloodForget = 1
  TableLimit = 1
  Ttl = 4
  FlowTtl = 1
  MaxRequests = 3
  MaxEdits = 2
  MaxRestarts = 1
  MaxSuffix = 1
CONSTRAINT FewEvents
SYMMETRY Swaps
INVARIANTS
  TypeOK
  SignedInAsProved
  CopyFollowsFile
  LivesByUse
  SignedInWhereBegun
PROPERTIES
  HeldBack
  OverStaysOver
