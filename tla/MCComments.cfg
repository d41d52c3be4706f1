CONSTANTS
  MAX_STR_CONST = 3
  MaxLen = 5
SPECIFICATION Spec
INVARIANT CommentsClosed
