CONSTANTS
  ROW_SLOT_CHUNK_NUM_ROWS = 2
  WINDOW_SIZE = 72
  NumColumns = 1
  ColumnValues <- MC_LivenessColumnValues
  MaxRows = 2
  BUSY_RETRY_LIMIT = 1
SPECIFICATION FairSpec
PROPERTY Terminates
CHECK_DEADLOCK FALSE
