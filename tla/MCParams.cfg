SPECIFICATION Spec
CONSTANTS
  int = int  void = void
  Null = Null  NotSet = NotSet
  NULL = Null
  Uninit = NotSet
  Types <- MCTypes
  NumArgRegs = 2
  MaxParams = 3
  MaxSymbols = 4
  MaxNesting = 3
INVARIANT ParamsFound
