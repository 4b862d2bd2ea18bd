----------------------------- MODULE FillPages -----------------------------
(***************************************************************************)
(* What filling a window promises (spec 4.5), without the window: the      *)
(* result rows are consumed one at a time, in order; the page is a         *)
(* contiguous run of consumed rows that starts at `first`.  A consumed row *)
(* is skipped (before the page, or after the page closed), appended to the *)
(* page, drops out as the page closes, or starts a new page at itself,     *)
(* which moves `first` forward to it.  Capacity is not part of this        *)
(* specification: any page may close or restart.  The call ends with the  *)
(* pair (first, rows consumed).                                            *)
(*                                                                         *)
(* CursorWindowFill implements it (property ImplementsFillPages there).    *)
(***************************************************************************)
EXTENDS Naturals, Sequences

CONSTANT RowValues   \* what a result row is, as the page stores it

VARIABLES
  rows,      \* the result set
  consumed,  \* rows consumed so far
  first,     \* index (0-based) of the first row of the page
  page,      \* the rows of the page
  closed,    \* the page takes no more rows
  failed,    \* an error was reported
  done,      \* the call returned
  result     \* the returned pair

avars == <<rows, consumed, first, page, closed, failed, done, result>>

Init ==
  /\ rows \in Seq(RowValues)
  /\ first \in Nat
  /\ consumed = 0
  /\ page = <<>>
  /\ closed = FALSE /\ failed = FALSE /\ done = FALSE
  /\ result = <<0, 0>>

NextRow == rows[consumed + 1]

(* Consume the next row: the common part of every way of doing it.        *)
Consume ==
  /\ ~done
  /\ consumed < Len(rows)
  /\ consumed' = consumed + 1
  /\ UNCHANGED <<rows, done, result>>

Skip ==
  /\ Consume
  /\ consumed < first \/ closed
  /\ UNCHANGED <<first, page, closed, failed>>

InPage == consumed >= first /\ ~closed /\ first + Len(page) = consumed

AppendRow ==
  /\ Consume
  /\ InPage
  /\ page' = Append(page, NextRow)
  /\ UNCHANGED <<first, closed, failed>>

Close ==
  /\ Consume
  /\ InPage
  /\ closed' = TRUE
  /\ UNCHANGED <<first, page, failed>>

(* A new page starts at the row being consumed; if that row cannot be     *)
(* stored even then, the page stays empty, closes and an error is raised. *)
Restart ==
  /\ Consume
  /\ InPage
  /\ page # <<>>
  /\ first' = consumed
  /\ \/ page' = <<NextRow>> /\ UNCHANGED <<closed, failed>>
     \/ page' = <<>> /\ closed' = TRUE /\ failed' = TRUE

Fail ==
  /\ ~done
  /\ failed' = TRUE
  /\ UNCHANGED <<rows, consumed, first, page, closed, done, result>>

Finish ==
  /\ ~done
  /\ consumed = Len(rows) \/ closed \/ failed
  /\ done' = TRUE
  /\ result' = <<first, consumed>>
  /\ UNCHANGED <<rows, consumed, first, page, closed, failed>>

Next == Skip \/ AppendRow \/ Close \/ Restart \/ Fail \/ Finish

Spec == Init /\ [][Next]_avars

=============================================================================
