CONSTANTS
  ROW_SLOT_CHUNK_NUM_ROWS = 2
  WINDOW_SIZE = 60
  GrowSizes = {72}
  ColumnCounts = {1, 2}
  Fields <- MC_Fields
SPECIFICATION Spec
INVARIANT TypeOK
INVARIANT ArenaConsistent
