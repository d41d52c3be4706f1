CONSTANTS
  MAX_STR_CONST = 3
  MaxLen = 6
SPECIFICATION Spec
INVARIANTS
  TypeOK
  BufferInBounds
  LinesCounted
  StoredAsSaid
