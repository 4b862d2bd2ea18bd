CONSTANTS
  INT_BITS = 6
  MaxSteps = 31
  StartPositions <- MC_StartPositions
SPECIFICATION Spec
INVARIANT ResultReportsRows
CHECK_DEADLOCK FALSE
