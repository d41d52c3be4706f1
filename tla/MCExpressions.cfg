SPECIFICATION Spec
CONSTANTS
  INT_MAX = 7
  Literals = {2, 3}
  Identifiers <- MCIdentifiers
  PowDepth = 2
  MaxNodes = 5
INVARIANTS TypeOK TypeSound ValuePreserved FoldedOnce OperandsLive
