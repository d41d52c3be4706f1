SPECIFICATION Spec
CONSTANTS
  x = x  y = y
  Null = Null
  NULL = Null
  Names <- MCNames
  MaxSymbols = 3
  MaxLevel = 3
PROPERTY PrototypeThenDefinition
