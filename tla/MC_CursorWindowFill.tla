----------------------- MODULE MC_CursorWindowFill -----------------------
(* One-column results of up to 3 rows in a 72-byte window with 2-slot     *)
(* chunks: two INTEGER rows fill the first chunk, a third needs a second  *)
(* chunk and no longer fits; a 6-byte TEXT or 3-byte BLOB changes where   *)
(* the page fills; a 40-byte TEXT never fits an empty window.  Distinct   *)
(* INTEGER values make a row shifted by one visible.                      *)
EXTENDS CursorWindowFill

MC_ColumnValues ==
  { [type |-> "INTEGER", v |-> 1, bytes |-> 0],
    [type |-> "INTEGER", v |-> 2, bytes |-> 0],
    [type |-> "TEXT",    v |-> 3, bytes |-> 6],
    [type |-> "BLOB",    v |-> 4, bytes |-> 3],
    [type |-> "TEXT",    v |-> 5, bytes |-> 40] }

(* For termination: a row that fits, one that fills the page sooner and   *)
(* one that never fits are enough to reach every exit of the loop.        *)
MC_LivenessColumnValues ==
  { [type |-> "INTEGER", v |-> 1, bytes |-> 0],
    [type |-> "TEXT",    v |-> 3, bytes |-> 6],
    [type |-> "TEXT",    v |-> 5, bytes |-> 40] }
=============================================================================
