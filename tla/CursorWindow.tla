---------------------------- MODULE CursorWindow ----------------------------
(***************************************************************************)
(* The CursorWindow row buffer (src/.../CursorWindow.h).                   *)
(*                                                                         *)
(* The header declares the layout: a Header (freeOffset, firstChunkOffset, *)
(* numRows, numColumns), RowSlotChunks of ROW_SLOT_CHUNK_NUM_ROWS row      *)
(* slots plus a link, and one packed FieldSlot array per row.  The bodies  *)
(* of the methods (CursorWindow.cpp) are not part of the sources, so the   *)
(* operations below are modelled from the spec (sections 3, 4.1-4.4).     *)
(*                                                                         *)
(* A window is a record value, and every operation is an operator from a  *)
(* window to [ok |-> status = OK, w |-> the window afterwards], so that a  *)
(* caller (copyRow) can chain several of them inside one atomic step.      *)
(*                                                                         *)
(*   size        mSize, the capacity in bytes                              *)
(*   freeOffset  mHeader->freeOffset                                       *)
(*   chunks      number of RowSlotChunks linked from firstChunkOffset      *)
(*   numColumns  mHeader->numColumns                                       *)
(*   rows        the field directories of rows 0..numRows-1, so            *)
(*               mHeader->numRows = Len(rows)                              *)
(***************************************************************************)
EXTENDS Integers, Sequences
LOCAL INSTANCE SequencesExt
LOCAL INSTANCE Functions

CONSTANTS
  ROW_SLOT_CHUNK_NUM_ROWS  \* 100 in CursorWindow.h; smaller in the models

ASSUME ROW_SLOT_CHUNK_NUM_ROWS \in Nat \ {0}

(* Layout sizes, in bytes, of the structs of CursorWindow.h.               *)
HEADER_SIZE == 16
ROW_SLOT_SIZE == 4
ChunkSize == ROW_SLOT_CHUNK_NUM_ROWS * ROW_SLOT_SIZE + 4
FIELD_SLOT_SIZE == 12

FieldTypes == {"NULL", "INTEGER", "FLOAT", "STRING", "BLOB"}

(* A FieldSlot: the type tag and, for the scalar types, the value (an     *)
(* abstract id); for STRING and BLOB the size of the payload stored in    *)
(* the arena and the id of its contents.                                  *)
NullField == [type |-> "NULL", v |-> 0, size |-> 0]
HasPayload(f) == f.type \in {"STRING", "BLOB"}

(***************************************************************************)
(* Arena                                                                   *)
(***************************************************************************)

(* freeSpace(): capacity minus freeOffset.                                *)
FreeSpace(w) == w.size - w.freeOffset

(* Aligned requests first round freeOffset up to a 4-byte boundary; the   *)
(* padding counts against the available space and is never reused.       *)
Padding(w, aligned) == IF aligned THEN (4 - (w.freeOffset % 4)) % 4 ELSE 0

(* Mutant: the padding is not counted against the free space.            *)
AllocFitsNoPad(w, size, aligned) == size <= FreeSpace(w)

AllocFits(w, size, aligned) == Padding(w, aligned) + size <= FreeSpace(w)

(* alloc(size, aligned): bump freeOffset past the padding and the block.  *)
Alloc(w, size, aligned) ==
  [w EXCEPT !.freeOffset = @ + Padding(w, aligned) + size]

(* The state create() leaves and clear() restores: the header, then the   *)
(* first RowSlotChunk, no rows and no columns.                            *)
EmptyWindow(size) ==
  [size |-> size, freeOffset |-> HEADER_SIZE + ChunkSize, chunks |-> 1,
   numColumns |-> 0, rows |-> <<>>]

Clear(w) == EmptyWindow(w.size)

(* Mutant: setNumColumns accepted while rows exist.                       *)
SetNumColumnsUnchecked(w, n) == [ok |-> TRUE, w |-> [w EXCEPT !.numColumns = n]]

(* setNumColumns(n): rejected once rows exist.                            *)
SetNumColumns(w, n) ==
  IF Len(w.rows) > 0
    THEN [ok |-> FALSE, w |-> w]
    ELSE [ok |-> TRUE, w |-> [w EXCEPT !.numColumns = n]]

(***************************************************************************)
(* Row directory and field directories                                     *)
(***************************************************************************)

(* allocRowSlot(): a free slot of the tail chunk, or a newly allocated    *)
(* chunk linked from the tail when every chunk is full.                   *)
AllocRowSlot(w) ==
  IF Len(w.rows) < w.chunks * ROW_SLOT_CHUNK_NUM_ROWS
    THEN [ok |-> TRUE, w |-> w]
  ELSE IF AllocFits(w, ChunkSize, TRUE)
    THEN [ok |-> TRUE,
          w |-> [Alloc(w, ChunkSize, TRUE) EXCEPT !.chunks = @ + 1]]
  ELSE [ok |-> FALSE, w |-> w]

(* allocRow(): take a row slot (numRows + 1), then allocate the row's     *)
(* NULL-initialised field directory.  If the directory does not fit,      *)
(* numRows is rolled back; a chunk allocated for the slot stays linked.   *)
AllocRow(w) ==
  LET rs == AllocRowSlot(w)
      dirSize == w.numColumns * FIELD_SLOT_SIZE
  IN  IF ~rs.ok THEN rs
      ELSE IF ~AllocFits(rs.w, dirSize, TRUE) THEN [ok |-> FALSE, w |-> rs.w]
      ELSE [ok |-> TRUE,
            w |-> [Alloc(rs.w, dirSize, TRUE) EXCEPT
                     !.rows = Append(@, [c \in 1..w.numColumns |-> NullField])]]

(* freeLastRow(): drop the most recent row.  Only the row count is rolled *)
(* back; bytes already allocated for it stay allocated until clear()      *)
(* (the spec's design note 9 leaves reclamation open and the model takes  *)
(* the weaker contract).                                                  *)
FreeLastRow(w) ==
  [ok |-> TRUE, w |-> IF Len(w.rows) > 0 THEN [w EXCEPT !.rows = Front(@)] ELSE w]

(* put{Long,Double,Null,String,Blob}(row, column, ...): row and column    *)
(* are 0-based.  An invalid coordinate fails; STRING payloads are         *)
(* allocated aligned, BLOB payloads unaligned; an allocation failure      *)
(* leaves the slot as it was.                                             *)
PutField(w, row, column, f) ==
  IF row >= Len(w.rows) \/ column >= w.numColumns
    THEN [ok |-> FALSE, w |-> w]
  ELSE IF HasPayload(f) /\ ~AllocFits(w, f.size, f.type = "STRING")
    THEN [ok |-> FALSE, w |-> w]
  ELSE LET w1 == IF HasPayload(f) THEN Alloc(w, f.size, f.type = "STRING") ELSE w
       IN  [ok |-> TRUE, w |-> [w1 EXCEPT !.rows[row + 1][column + 1] = f]]

(* maybeInflate(): grow in place to newSize when the backing storage      *)
(* allows it; otherwise the window is unchanged.                          *)
MaybeInflate(w, newSize) ==
  IF newSize > w.size
    THEN [ok |-> TRUE, w |-> [w EXCEPT !.size = newSize]]
    ELSE [ok |-> FALSE, w |-> w]

(***************************************************************************)
(* Bytes the live structures need: header, chunks, field directories and  *)
(* payloads of live cells.                                                *)
(***************************************************************************)
PayloadBytes(w) ==
  SumFunction([i \in DOMAIN w.rows |->
                 SumFunction([c \in DOMAIN w.rows[i] |-> w.rows[i][c].size])])

LiveBytes(w) ==
  HEADER_SIZE + w.chunks * ChunkSize
    + Len(w.rows) * w.numColumns * FIELD_SLOT_SIZE + PayloadBytes(w)

=============================================================================
