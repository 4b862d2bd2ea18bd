CONSTANTS
  ROW_SLOT_CHUNK_NUM_ROWS = 2
  WINDOW_SIZE = 72
  NumColumns = 1
  ColumnValues <- MC_ColumnValues
  MaxRows = 3
  BUSY_RETRY_LIMIT = 2
SPECIFICATION Spec
CHECK_DEADLOCK FALSE
INVARIANT RequiredRowPresent
