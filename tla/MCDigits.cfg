SPECIFICATION Spec
CONSTANTS
  NUM_SCRATCH = 4
  MaxDepth = 4
INVARIANT DigitsCounted
