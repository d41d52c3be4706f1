SPECIFICATION Spec
CONSTANTS
  NUM_SCRATCH = 4
  MaxDepth = 7
INVARIANTS TypeOK OperandsIntact RegistersAccounted
