SPECIFICATION Spec
CONSTANTS
  x = x  y = y
  Null = Null
  NULL = Null
  Names <- MCNames
  MaxSymbols = 4
  MaxLevel = 4
SYMMETRY Symmetry
INVARIANTS TypeOK ScopesBalanced KindsMatchLevels OwnNameBound MissingNoticed
PROPERTY LexicallyScoped
