SPECIFICATION Spec
CONSTANTS
  MaxNodes = 5
  MaxItems = 2
INVARIANTS TypeOK WalkedInOrder GeneratedInOrder
