------------------------ MODULE MC_CursorWindowOps ------------------------
(* Model of one window of 60 bytes, chunks of 2 row slots (12 bytes), so  *)
(* that a second chunk, a misaligned BLOB followed by an aligned          *)
(* allocation, and a full window are all reachable.                      *)
EXTENDS CursorWindowOps

MC_Fields ==
  { NullField,
    [type |-> "INTEGER", v |-> 1, size |-> 0],
    [type |-> "STRING",  v |-> 1, size |-> 3],
    [type |-> "BLOB",    v |-> 1, size |-> 1] }
=============================================================================
