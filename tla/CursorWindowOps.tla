-------------------------- MODULE CursorWindowOps --------------------------
(***************************************************************************)
(* The CursorWindow as a component on its own: one window, driven by any  *)
(* sequence of calls of its public mutators (CursorWindow.h lines 78-93). *)
(* Each call is one action that applies the corresponding operator of     *)
(* CursorWindow to the window and keeps the result, whatever the status.  *)
(***************************************************************************)
EXTENDS CursorWindow, FiniteSets

CONSTANTS
  WINDOW_SIZE,   \* the size passed to create()
  GrowSizes,     \* sizes maybeInflate() may reach
  ColumnCounts,  \* column counts passed to setNumColumns()
  Fields         \* FieldSlots the put* calls may store

ASSUME WINDOW_SIZE >= HEADER_SIZE + ChunkSize

VARIABLE win

Apply(r) == win' = r.w

Create == win = EmptyWindow(WINDOW_SIZE)

DoClear == win' = Clear(win)

DoSetNumColumns == \E n \in ColumnCounts : Apply(SetNumColumns(win, n))

DoAllocRow == Apply(AllocRow(win))

DoFreeLastRow == Apply(FreeLastRow(win))

(* Puts address an existing row or one past the end (an invalid row).     *)
DoPut ==
  \E row \in 0..Len(win.rows), column \in 0..win.numColumns, f \in Fields :
    Apply(PutField(win, row, column, f))

DoMaybeInflate == \E s \in GrowSizes : Apply(MaybeInflate(win, s))

Next ==
  \/ DoClear
  \/ DoSetNumColumns
  \/ DoAllocRow
  \/ DoFreeLastRow
  \/ DoPut
  \/ DoMaybeInflate

Spec == Create /\ [][Next]_win

(***************************************************************************)
(* Properties                                                              *)
(***************************************************************************)

TypeOK ==
  /\ win.size \in Nat /\ win.freeOffset \in Nat /\ win.chunks \in Nat \ {0}
  /\ win.numColumns \in Nat
  /\ \A i \in DOMAIN win.rows :
       /\ DOMAIN win.rows[i] = 1..win.numColumns
       /\ \A c \in DOMAIN win.rows[i] : win.rows[i][c].type \in FieldTypes

(* The arena never overruns and never loses track of a live structure:    *)
(* the header, every linked chunk, the field directory of every row and   *)
(* the payload of every live cell lie below freeOffset, freeOffset lies   *)
(* within the capacity, and every row has a row slot in some chunk.  It   *)
(* is about alloc's padding, allocRowSlot's chunk growth, allocRow's      *)
(* rollback and clear's reset interacting over long call sequences.       *)
ArenaConsistent ==
  /\ LiveBytes(win) <= win.freeOffset
  /\ win.freeOffset <= win.size
  /\ Len(win.rows) <= win.chunks * ROW_SLOT_CHUNK_NUM_ROWS

=============================================================================
