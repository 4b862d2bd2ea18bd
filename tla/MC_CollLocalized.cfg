CONSTANTS
  Bytes = {0, 1, 200}
  MaxLen = 3
SPECIFICATION Spec
INVARIANT CollMatchesBinary
