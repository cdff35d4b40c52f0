\* Every note of up to three blocks.
SPECIFICATION Spec
CONSTANTS
  Docs <- Notes
  MinChars = 3
  DEFAULT_CHUNK_CHARS = 5
  MAX_RELATION = 2
  MaxBlocks = 3
INVARIANTS
  NoPhantoms
  DeviceAgrees
  PassagesFaithful
  NothingTruncated
CHECK_DEADLOCK FALSE
