-------------------------- MODULE CursorWindowFill --------------------------
(***************************************************************************)
(* nativeExecuteForCursorWindow and copyRow                                *)
(* (src/.../android_database_SQLiteConnection.cpp lines 603-796): one call *)
(* that steps a prepared statement and copies its rows into a             *)
(* CursorWindow, restarting the page at a later row when the window fills *)
(* before requiredPos is reached.                                          *)
(*                                                                         *)
(* One action is one iteration of the while loop, i.e. one sqlite3_step   *)
(* and everything the code does with its result; copyRow and the window   *)
(* calls it makes run inside that step.  The statement is the             *)
(* environment: it returns the rows of `source` in order, then DONE, and  *)
(* may report BUSY/LOCKED or an error at any step, and SQLITE_INTERRUPT   *)
(* once nativeCancel has set the connection's `canceled` flag while the   *)
(* progress handler is installed (sqliteProgressHandlerCallback).         *)
(* nativeCancel runs on another thread at any time.                       *)
(*                                                                         *)
(* copyRow's CPR_ERROR branch (unknown column type) is not modelled:      *)
(* sqlite3_column_type returns only the five types handled above it.      *)
(***************************************************************************)
EXTENDS CursorWindow, FiniteSets
LOCAL INSTANCE SequencesExt

CONSTANTS
  WINDOW_SIZE,        \* capacity of the window passed in windowPtr
  NumColumns,         \* sqlite3_column_count(statement)
  ColumnValues,       \* values a column of a result row may hold
  MaxRows,            \* bound on the number of rows of the result set
  BUSY_RETRY_LIMIT    \* the literal 50 of `retryCount > 50`

ASSUME WINDOW_SIZE >= HEADER_SIZE + ChunkSize
ASSUME NumColumns \in Nat /\ MaxRows \in Nat /\ BUSY_RETRY_LIMIT \in Nat

VARIABLES
  source,        \* rows the statement produces, in order
  stepped,       \* rows sqlite3_step has returned so far (the statement's
                 \* cursor, kept apart from the code's own count)
  requiredPos,   \* argument requiredPos
  countAllRows,  \* argument countAllRows
  startPos,      \* local startPos (first result row held in the window)
  totalRows,     \* local totalRows: the rows the loop has counted
  addedRows,     \* rows copied into the current page
  windowFull,
  gotException,
  retryCount,
  win,           \* the CursorWindow
  thrown,        \* Java exceptions raised through throw_sqlite3_exception
  canceled,      \* connection->canceled
  cancelable,    \* progress handler installed by nativeResetCancel
  pc,            \* "loop", "busy" (BUSY/LOCKED being handled),
                 \* "exit" (after SQLITE_DONE's break), "done"
  result         \* <<startPos, totalRows>> packed into the returned jlong

vars == <<source, stepped, requiredPos, countAllRows, startPos, totalRows, addedRows,
          windowFull, gotException, retryCount, win, thrown, canceled,
          cancelable, pc, result>>

(***************************************************************************)
(* copyRow                                                                 *)
(***************************************************************************)

(* The put* call copyRow makes for a column of the given SQLite type, as  *)
(* the FieldSlot it stores: TEXT is stored with its NUL terminator        *)
(* (sqlite3_column_bytes + 1), BLOB with sqlite3_column_bytes.            *)
ColumnField(x) ==
  CASE x.type = "TEXT"    -> [type |-> "STRING",  v |-> x.v, size |-> x.bytes + 1]
    [] x.type = "BLOB"    -> [type |-> "BLOB",    v |-> x.v, size |-> x.bytes]
    [] x.type = "INTEGER" -> [type |-> "INTEGER", v |-> x.v, size |-> 0]
    [] x.type = "FLOAT"   -> [type |-> "FLOAT",   v |-> x.v, size |-> 0]
    [] x.type = "NULL"    -> NullField

RowFields(row) == [c \in DOMAIN row |-> ColumnField(row[c])]

(* The column loop of copyRow: put columns i..numColumns-1 of row into    *)
(* window row addedRows, stopping at the first failing put.               *)
RECURSIVE PutColumns(_, _, _, _)
PutColumns(w, row, addedRows_, i) ==
  IF i >= NumColumns THEN [ok |-> TRUE, w |-> w]
  ELSE LET r == PutField(w, addedRows_, i, ColumnField(row[i + 1]))
       IN  IF r.ok THEN PutColumns(r.w, row, addedRows_, i + 1) ELSE r

(* Mutant: a failed put returns CPR_FULL without freeLastRow.            *)
CopyRowNoRollback(w, row, addedRows_) ==
  LET a == AllocRow(w)
      p == PutColumns(a.w, row, addedRows_, 0)
  IN  IF ~a.ok THEN [res |-> "CPR_FULL", w |-> a.w]
      ELSE IF p.ok THEN [res |-> "CPR_OK", w |-> p.w]
      ELSE [res |-> "CPR_FULL", w |-> p.w]

(* copyRow: allocRow (CPR_FULL if it fails), the column loop, and         *)
(* freeLastRow when a put failed.                                         *)
CopyRow(w, row, addedRows_) ==
  LET a == AllocRow(w)
      p == PutColumns(a.w, row, addedRows_, 0)
  IN  IF ~a.ok THEN [res |-> "CPR_FULL", w |-> a.w]
      ELSE IF p.ok THEN [res |-> "CPR_OK", w |-> p.w]
      ELSE [res |-> "CPR_FULL", w |-> FreeLastRow(p.w).w]

(***************************************************************************)
(* nativeExecuteForCursorWindow                                            *)
(***************************************************************************)

(* window->clear() followed by window->setNumColumns(numColumns).         *)
ResetWindow(w) == SetNumColumns(Clear(w), NumColumns).w

(* Mutant: the loop stops at a full window even when counting all rows.   *)
LoopCondNoCount == ~gotException /\ ~windowFull

LoopCond == ~gotException /\ (~windowFull \/ countAllRows)

Throw(msg) == thrown' = Append(thrown, msg)

(* Results the statement may produce: sequences of at most MaxRows rows.  *)
ResultSets == BoundedSeq([1..NumColumns -> ColumnValues], MaxRows)

Init ==
  /\ source \in ResultSets
  /\ requiredPos \in 0..MaxRows
  /\ startPos \in 0..requiredPos   \* the Java caller picks startPos <= requiredPos
  /\ countAllRows \in BOOLEAN
  /\ cancelable \in BOOLEAN        \* nativeResetCancel(cancelable) ran before
  /\ canceled = FALSE
  /\ win = ResetWindow(EmptyWindow(WINDOW_SIZE))
  /\ stepped = 0
  /\ totalRows = 0 /\ addedRows = 0 /\ retryCount = 0
  /\ windowFull = FALSE /\ gotException = FALSE
  /\ thrown = <<>>
  /\ pc = "loop"
  /\ result = <<0, 0>>

Stepping == pc = "loop" /\ LoopCond

(* SQLITE_ROW: the statement moves to its next row.                      *)
Row == source[stepped + 1]
RowStep == stepped < Len(source) /\ stepped' = stepped + 1

(* Mutant: the start-position test off by one.                            *)
SkipRowLate == startPos > totalRows + 1 \/ windowFull

(* `startPos >= totalRows || windowFull` after totalRows += 1.             *)
SkipRow == startPos >= totalRows + 1 \/ windowFull

(* Mutant: a skipped row is not counted.                                 *)
StepRowSkipUncounted ==
  /\ Stepping
  /\ RowStep
  /\ SkipRow
  /\ retryCount' = 0
  /\ UNCHANGED <<source, requiredPos, countAllRows, startPos, totalRows,
                 addedRows, windowFull, gotException, win, thrown, canceled,
                 cancelable, pc, result>>

(* SQLITE_ROW for a row before startPos, or while the window is full.     *)
StepRowSkip ==
  /\ Stepping
  /\ RowStep
  /\ SkipRow
  /\ totalRows' = totalRows + 1
  /\ retryCount' = 0
  /\ UNCHANGED <<source, requiredPos, countAllRows, startPos, addedRows,
                 windowFull, gotException, win, thrown, canceled, cancelable,
                 pc, result>>

(* The copy failed with rows already in the page and the failing row at   *)
(* or before requiredPos: the page must be restarted.                     *)
(* Mutant: restart only when the failing row is before requiredPos.       *)
MustRestartStrict(cpr) ==
  cpr.res = "CPR_FULL" /\ addedRows # 0 /\ startPos + addedRows < requiredPos

MustRestart(cpr) ==
  cpr.res = "CPR_FULL" /\ addedRows # 0 /\ startPos + addedRows <= requiredPos

(* SQLITE_ROW, copied into the current page (no restart).                 *)
StepRowCopy ==
  /\ Stepping
  /\ RowStep
  /\ ~SkipRow
  /\ LET cpr == CopyRow(win, Row, addedRows)
     IN  /\ ~MustRestart(cpr)
         /\ win' = cpr.w
         /\ IF cpr.res = "CPR_OK"
              THEN addedRows' = addedRows + 1 /\ UNCHANGED windowFull
              ELSE windowFull' = TRUE /\ UNCHANGED addedRows
  /\ totalRows' = totalRows + 1
  /\ retryCount' = 0
  /\ UNCHANGED <<source, requiredPos, countAllRows, startPos, gotException,
                 thrown, canceled, cancelable, pc, result>>

(* SQLITE_ROW whose copy filled the window before requiredPos: clear the  *)
(* window, start the page at this row and copy it again; if it does not   *)
(* fit the empty window, "Row too big to fit in CursorWindow" is thrown   *)
(* and the window is marked full (gotException stays FALSE).              *)
StepRowRestart ==
  /\ Stepping
  /\ RowStep
  /\ ~SkipRow
  /\ MustRestart(CopyRow(win, Row, addedRows))
  /\ LET cpr == CopyRow(ResetWindow(CopyRow(win, Row, addedRows).w), Row, 0)
     IN  /\ win' = cpr.w
         /\ IF cpr.res = "CPR_OK"
              THEN addedRows' = 1 /\ UNCHANGED <<windowFull, thrown>>
              ELSE /\ addedRows' = 0
                   /\ windowFull' = TRUE
                   /\ Throw("Row too big to fit in CursorWindow")
  /\ startPos' = startPos + addedRows
  /\ totalRows' = totalRows + 1
  /\ retryCount' = 0
  /\ UNCHANGED <<source, requiredPos, countAllRows, gotException, canceled,
                 cancelable, pc, result>>

(* SQLITE_DONE: break out of the loop.                                    *)
StepDone ==
  /\ Stepping
  /\ stepped = Len(source)
  /\ pc' = "exit"
  /\ UNCHANGED <<source, stepped, requiredPos, countAllRows, startPos, totalRows,
                 addedRows, windowFull, gotException, retryCount, win, thrown,
                 canceled, cancelable, result>>

(* sqlite3_step returns SQLITE_BUSY or SQLITE_LOCKED; the code then      *)
(* handles it in StepBusyRetry or StepBusyGiveUp (the usleep in between   *)
(* is where the thread waits).                                            *)
StepBusy ==
  /\ Stepping
  /\ pc' = "busy"
  /\ UNCHANGED <<source, stepped, requiredPos, countAllRows, startPos, totalRows,
                 addedRows, windowFull, gotException, retryCount, win, thrown,
                 canceled, cancelable, result>>

(* Mutant: the retry-budget test is dropped.                              *)
StepBusyRetryUnbounded ==
  /\ pc = "busy"
  /\ retryCount' = retryCount + 1
  /\ pc' = "loop"
  /\ UNCHANGED <<source, stepped, requiredPos, countAllRows, startPos, totalRows,
                 addedRows, windowFull, gotException, win, thrown, canceled,
                 cancelable, result>>

(* Mutant: the retryCount++ after the usleep is lost.                     *)
StepBusyRetryNoCount ==
  /\ pc = "busy"
  /\ ~(retryCount > BUSY_RETRY_LIMIT)
  /\ pc' = "loop"
  /\ UNCHANGED <<source, stepped, requiredPos, countAllRows, startPos, totalRows,
                 addedRows, windowFull, gotException, retryCount, win, thrown,
                 canceled, cancelable, result>>

(* Within the retry budget: usleep(1000), retryCount++, next iteration.   *)
StepBusyRetry ==
  /\ pc = "busy"
  /\ ~(retryCount > BUSY_RETRY_LIMIT)
  /\ retryCount' = retryCount + 1
  /\ pc' = "loop"
  /\ UNCHANGED <<source, stepped, requiredPos, countAllRows, startPos, totalRows,
                 addedRows, windowFull, gotException, win, thrown, canceled,
                 cancelable, result>>

(* Past the budget: "retrycount exceeded", gotException = true.           *)
StepBusyGiveUp ==
  /\ pc = "busy"
  /\ retryCount > BUSY_RETRY_LIMIT
  /\ Throw("retrycount exceeded")
  /\ gotException' = TRUE
  /\ pc' = "loop"
  /\ UNCHANGED <<source, stepped, requiredPos, countAllRows, startPos, totalRows,
                 addedRows, windowFull, retryCount, win, canceled, cancelable,
                 result>>

(* Any other result code: an engine error, or SQLITE_INTERRUPT when the   *)
(* progress handler saw `canceled`.                                       *)
StepError(code) ==
  /\ Stepping
  /\ code = "SQLITE_INTERRUPT" => canceled /\ cancelable
  /\ Throw(code)
  /\ gotException' = TRUE
  /\ UNCHANGED <<source, stepped, requiredPos, countAllRows, startPos, totalRows,
                 addedRows, windowFull, retryCount, win, canceled, cancelable,
                 pc, result>>

(* The loop is left: sqlite3_reset, and return startPos << 32 | totalRows.*)
Return ==
  /\ pc = "exit" \/ (pc = "loop" /\ ~LoopCond)
  /\ pc' = "done"
  /\ result' = <<startPos, totalRows>>
  /\ UNCHANGED <<source, stepped, requiredPos, countAllRows, startPos, totalRows,
                 addedRows, windowFull, gotException, retryCount, win, thrown,
                 canceled, cancelable>>

(* nativeCancel, called from another thread while the query runs.         *)
Cancel ==
  /\ pc # "done"
  /\ ~canceled
  /\ canceled' = TRUE
  /\ UNCHANGED <<source, stepped, requiredPos, countAllRows, startPos, totalRows,
                 addedRows, windowFull, gotException, retryCount, win, thrown,
                 cancelable, pc, result>>

Next ==
  \/ StepRowSkip
  \/ StepRowCopy
  \/ StepRowRestart
  \/ StepDone
  \/ StepBusy
  \/ StepBusyRetry
  \/ StepBusyGiveUp
  \/ \E code \in {"SQLITE_ERROR", "SQLITE_INTERRUPT"} : StepError(code)
  \/ Return
  \/ Cancel

Spec == Init /\ [][Next]_vars

(* The thread running nativeExecuteForCursorWindow: every iteration of  *)
(* the loop and the return.  It never blocks for good (the busy wait is  *)
(* a usleep between StepBusy and StepBusyRetry), so it is weakly fair;   *)
(* which result sqlite3_step gives stays the statement's choice.         *)
(* nativeCancel is another thread and is not assumed to run.             *)
ThreadStep ==
  \/ StepRowSkip \/ StepRowCopy \/ StepRowRestart \/ StepDone
  \/ StepBusy \/ StepBusyRetry \/ StepBusyGiveUp
  \/ \E code \in {"SQLITE_ERROR", "SQLITE_INTERRUPT"} : StepError(code)
  \/ Return

FairSpec == Spec /\ WF_vars(ThreadStep)

(***************************************************************************)
(* Properties                                                              *)
(***************************************************************************)

TypeOK ==
  /\ source \in ResultSets
  /\ requiredPos \in 0..MaxRows /\ startPos \in Nat
  /\ countAllRows \in BOOLEAN /\ windowFull \in BOOLEAN
  /\ gotException \in BOOLEAN /\ canceled \in BOOLEAN /\ cancelable \in BOOLEAN
  /\ stepped \in 0..Len(source) /\ totalRows \in Nat /\ addedRows \in Nat
  /\ retryCount \in 0..(BUSY_RETRY_LIMIT + 1)
  /\ thrown \in Seq(STRING)
  /\ pc \in {"loop", "busy", "exit", "done"}
  /\ result \in Nat \X Nat

(* Window row i always holds result row startPos + i, and only rows       *)
(* already stepped: the skip test, the addedRows index passed to the      *)
(* puts, freeLastRow after a failed put and the startPos advance of a     *)
(* restart must agree on which result row sits where.                     *)
WindowMatchesSource ==
  \A i \in 1..Len(win.rows) :
    /\ startPos + i <= totalRows
    /\ win.rows[i] = RowFields(source[startPos + i])

(* The required row is in the returned window: when the call returns      *)
(* without a Java exception and the result has a row requiredPos, then    *)
(* startPos <= requiredPos < startPos + numRows (spec 4.5).               *)
RequiredRowPresent ==
  (pc = "done" /\ thrown = <<>> /\ requiredPos < Len(source))
    => /\ startPos <= requiredPos
       /\ requiredPos < startPos + Len(win.rows)

(* A row fits alone: copyRow succeeds on a cleared window.                *)
FitsAlone(row) == CopyRow(ResetWindow(EmptyWindow(WINDOW_SIZE)), row, 0).res = "CPR_OK"

(* RequiredRowPresent for every result set none of whose rows is larger   *)
(* than an empty window: the restart guard (addedRows != 0 and            *)
(* startPos + addedRows <= requiredPos) never moves the page past the     *)
(* required row and never leaves it out.                                  *)
RequiredRowPresentWhenRowsFit ==
  (\A i \in DOMAIN source : FitsAlone(source[i])) => RequiredRowPresent

(* The returned row count is exact when the call returns without an       *)
(* exception and either countAllRows was set or the window never filled:  *)
(* totalRows, the code's own count, equals the number of rows the         *)
(* statement delivered before SQLITE_DONE, so every skipped, copied and   *)
(* restarted row was counted once and busy retries not at all, and the   *)
(* caller can tell "exhausted" from "page full".                          *)
CountExact ==
  (pc = "done" /\ thrown = <<>> /\ (countAllRows \/ ~windowFull))
    => totalRows = stepped /\ stepped = Len(source)

(* Every call returns (spec 4.5, "each restart strictly increases        *)
(* startPos, guaranteeing termination"): whatever rows, BUSY results and  *)
(* errors the statement produces, restarts, the busy retry budget that    *)
(* only a row resets, and counting past a full window all end.            *)
Terminates == <>(pc = "done")

(* The fill implements the paging contract of FillPages: the window is   *)
(* the page, startPos its first row, totalRows the rows consumed,          *)
(* windowFull the closed page, and any Java exception the reported error. *)
(* Every step of the loop is a step of the contract or leaves all of that *)
(* unchanged: rows are only appended in order at the end of the page, a   *)
(* page is only restarted at the row being stepped, startPos never moves  *)
(* otherwise, and the result is the pair of the contract.                 *)
Pages == INSTANCE FillPages WITH
  RowValues <- {RowFields(r) : r \in [1..NumColumns -> ColumnValues]},
  rows      <- [i \in DOMAIN source |-> RowFields(source[i])],
  consumed  <- totalRows,
  first     <- startPos,
  page      <- win.rows,
  closed    <- windowFull,
  failed    <- thrown # <<>>,
  done      <- pc = "done"

ImplementsFillPages == Pages!Spec

(* At most one Java exception is raised per call: JNI forbids raising a   *)
(* second one while one is pending.                                       *)
AtMostOneException == Len(thrown) <= 1

=============================================================================
