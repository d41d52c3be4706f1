SPECIFICATION Spec
CONSTANTS
  int = int  void = void
  Null = Null  NotSet = NotSet
  NULL = Null
  Uninit = NotSet
  Types <- MCTypes
  NumArgRegs = 2
  MaxParams = 3
  MaxSymbols = 6
  MaxNesting = 3
SYMMETRY Symmetry
INVARIANTS TypeOK SlotsDistinct ReturnsOwnType SavedRegistersSafe
