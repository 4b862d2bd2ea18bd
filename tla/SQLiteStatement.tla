--------------------------- MODULE SQLiteStatement ---------------------------
(***************************************************************************)
(* Prepared statements on one connection                                   *)
(* (src/.../android_database_SQLiteConnection.cpp): nativePrepareStatement,*)
(* nativeFinalizeStatement, nativeBind*, nativeResetStatementAndClear-     *)
(* Bindings, the execute family (executeNonQuery, executeNonQueryRaw,      *)
(* executeOneRowQuery and the natives built on them), nativeClose, and     *)
(* cancellation (nativeCancel from another thread, nativeResetCancel, the  *)
(* progress handler), the trace and profile callbacks nativeOpen installs, *)
(* and the metadata natives.                                               *)
(*                                                                         *)
(* SQLite is the environment, with its documented behaviour:               *)
(*  - sqlite3_step returns ROW, DONE or an error, and SQLITE_INTERRUPT     *)
(*    when the installed progress handler returns non-zero;                *)
(*  - sqlite3_bind_* on a statement that was stepped and not reset fails   *)
(*    with SQLITE_MISUSE;                                                  *)
(*  - sqlite3_reset resets the statement and returns the error of its      *)
(*    last step, if that step failed;                                      *)
(*  - sqlite3_close_v2 with unfinalized statements returns SQLITE_OK and   *)
(*    leaves the handle a zombie that the last sqlite3_finalize frees.     *)
(*                                                                         *)
(*   stmt[s]   "unused" (no handle), "ready" (reset), "row", "done",       *)
(*             "failed" (last step returned an error), "finalized"         *)
(*   exc       Java exceptions raised by the latest call of the thread     *)
(*   freedRead connection->db was read after `delete connection`           *)
(***************************************************************************)
EXTENDS Naturals, FiniteSets

CONSTANTS
  Stmts,        \* statement handles (model values)
  VERBOSE_LOG   \* ALOGV compiled in (evaluates its arguments)

ASSUME VERBOSE_LOG \in BOOLEAN

VARIABLES
  conn,            \* SQLiteConnection object: "live", "deleted"
  db,              \* sqlite3 handle: "open", "zombie", "closed"
  stmt, bound,
  canceled,        \* connection->canceled
  handler,         \* progress handler installed
  exc, freedRead,
  stepResult,      \* sqlite3_step result of the latest call of the
                   \* connection's thread, "none" if it did not step
  tracing          \* sqlite3_trace or sqlite3_profile installed with the
                   \* connection as user data

vars == <<conn, db, stmt, bound, canceled, handler, exc, freedRead, stepResult,
          tracing>>

Live == {"ready", "row", "done", "failed"}
LiveStmts == {s \in Stmts : stmt[s] \in Live}

hookVars == <<canceled, handler, tracing>>

Init ==
  /\ conn = "live" /\ db = "open"
  /\ stmt = [s \in Stmts |-> "unused"]
  /\ bound = [s \in Stmts |-> FALSE]
  /\ canceled = FALSE /\ handler = FALSE
  /\ exc = 0 /\ freedRead = FALSE /\ stepResult = "none"
  /\ tracing \in BOOLEAN

(* nativeOpen: enableTrace / enableProfile install sqliteTraceCallback /   *)
(* sqliteProfileCallback with the connection as user data (the initial   *)
(* value of tracing).  A native reads connection->db (for an error or a  *)
(* log line).                                                             *)
ReadDb == freedRead' = (freedRead \/ conn = "deleted")

(* throw_sqlite3_exception(env, connection->db, ...)                      *)
ThrowWithDb == exc' = 1 /\ ReadDb

(* A call that does not step the statement.                               *)
NoStep == stepResult' = "none"

(***************************************************************************)
(* Statement life cycle                                                    *)
(***************************************************************************)

(* nativePrepareStatement: sqlite3_prepare16_v2 on connection->db; on     *)
(* failure the exception names the query and 0 is returned.              *)
Prepare(s) ==
  /\ conn = "live"
  /\ stmt[s] = "unused"
  /\ \/ stmt' = [stmt EXCEPT ![s] = "ready"] /\ exc' = 0
     \/ UNCHANGED stmt /\ exc' = 1
  /\ bound' = [bound EXCEPT ![s] = FALSE]
  /\ UNCHANGED <<conn, db, freedRead>> /\ NoStep /\ UNCHANGED hookVars

Finalize(s) ==
  /\ stmt[s] \in Live
  /\ stmt' = [stmt EXCEPT ![s] = "finalized"]
  /\ db' = IF db = "zombie" /\ LiveStmts = {s} THEN "closed" ELSE db
  /\ IF VERBOSE_LOG THEN ReadDb ELSE UNCHANGED freedRead
  /\ exc' = 0
  /\ UNCHANGED <<conn, bound>> /\ NoStep /\ UNCHANGED hookVars

(* nativeBind{Null,Long,Double,String,Blob}: sqlite3_bind_*; any error    *)
(* (index out of range, or SQLITE_MISUSE on a stepped statement) throws.  *)
Bind(s) ==
  /\ stmt[s] \in Live
  /\ \/ stmt[s] = "ready" /\ bound' = [bound EXCEPT ![s] = TRUE]
        /\ exc' = 0 /\ UNCHANGED freedRead
     \/ UNCHANGED bound /\ ThrowWithDb
  /\ UNCHANGED <<conn, db, stmt>> /\ NoStep /\ UNCHANGED hookVars

(* nativeResetStatementAndClearBindings: sqlite3_reset, and               *)
(* sqlite3_clear_bindings only when the reset reported no error.          *)
ResetAndClear(s) ==
  /\ stmt[s] \in Live
  /\ stmt' = [stmt EXCEPT ![s] = "ready"]
  /\ IF stmt[s] = "failed"
       THEN UNCHANGED bound /\ ThrowWithDb
       ELSE bound' = [bound EXCEPT ![s] = FALSE] /\ exc' = 0 /\ UNCHANGED freedRead
  /\ UNCHANGED <<conn, db>> /\ NoStep /\ UNCHANGED hookVars

(***************************************************************************)
(* Execution                                                               *)
(***************************************************************************)

(* What sqlite3_step may return now.                                      *)
StepResults == {"ROW", "DONE", "ERROR"} \cup
                 (IF canceled /\ handler THEN {"INTERRUPT"} ELSE {})

(* The statement steps to r.                                               *)
StepTo(s, r) ==
  /\ stmt' = [stmt EXCEPT ![s] = CASE r = "ROW"  -> "row"
                                   [] r = "DONE" -> "done"
                                   [] OTHER      -> "failed"]
  /\ stepResult' = r

(* A step runs the callbacks installed with the connection as user data:  *)
(* sqliteProgressHandlerCallback reads connection->canceled,              *)
(* sqliteTraceCallback and sqliteProfileCallback read connection->label   *)
(* as an argument of ALOGV, so only when it is compiled in.               *)
CallbacksReadConnection == handler \/ (tracing /\ VERBOSE_LOG)

(* The call ends raising n exceptions; dbRead: it read connection->db.    *)
Finish(n, dbRead) ==
  /\ exc' = n
  /\ freedRead' = (freedRead \/ (conn = "deleted" /\ (dbRead \/ CallbacksReadConnection)))
  /\ UNCHANGED <<conn, db, bound>> /\ UNCHANGED hookVars

(* executeNonQuery (nativeExecute, nativeExecuteForChangedRowCount,       *)
(* nativeExecuteForLastInsertedRowId): one step; a row is an error        *)
(* ("Queries can be performed using SQLiteDatabase query or rawQuery      *)
(* methods only."), anything but DONE throws with connection->db.  The    *)
(* two counting natives then read sqlite3_changes(connection->db).       *)
ExecuteNonQuery(s) ==
  /\ stmt[s] \in Live
  /\ \E r \in StepResults :
       /\ StepTo(s, r)
       /\ CASE r = "ROW"  -> Finish(1, FALSE)
            [] r = "DONE" -> \E counting \in BOOLEAN : Finish(0, counting)
            [] OTHER      -> Finish(1, TRUE)

(* executeNonQueryRaw (nativeExecuteRaw): step while ROW; the final       *)
(* result is returned to nativeExecuteRaw, which ignores it.              *)
ExecuteRaw(s) ==
  /\ stmt[s] \in Live
  /\ \E r \in StepResults \ {"ROW"} : StepTo(s, r)
  /\ Finish(0, FALSE)

(* executeOneRowQuery (nativeExecuteForLong, nativeExecuteForString,      *)
(* nativeExecuteForBlobFileDescriptor): one step, anything but a row       *)
(* throws.  On a row with a non-null blob, nativeExecuteForBlobFile-       *)
(* Descriptor calls createAshmemRegionWithData, which throws IOException. *)
ExecuteOneRow(s) ==
  /\ stmt[s] \in Live
  /\ \E r \in StepResults :
       /\ StepTo(s, r)
       /\ IF r = "ROW" THEN \E n \in {0, 1} : Finish(n, FALSE)
                        ELSE Finish(1, TRUE)

(* nativeGetParameterCount, nativeIsReadOnly, nativeGetColumnCount,       *)
(* nativeGetColumnName: they ask the statement and use no connection.     *)
GetStatementInfo(s) ==
  /\ stmt[s] \in Live
  /\ exc' = 0
  /\ UNCHANGED <<conn, db, stmt, bound, freedRead>> /\ NoStep /\ UNCHANGED hookVars

(* nativeGetDbLookaside: sqlite3_db_status(connection->db, ...).          *)
GetDbLookaside ==
  /\ conn = "live"
  /\ exc' = 0
  /\ ReadDb
  /\ UNCHANGED <<conn, db, stmt, bound>> /\ NoStep /\ UNCHANGED hookVars

(***************************************************************************)
(* Connection                                                              *)
(***************************************************************************)

(* nativeClose: sqlite3_close_v2 returns SQLITE_OK (unfinalized           *)
(* statements make the handle a zombie instead of failing), then         *)
(* `delete connection`.                                                   *)
Close ==
  /\ conn = "live"
  /\ conn' = "deleted"
  /\ db' = IF LiveStmts = {} THEN "closed" ELSE "zombie"
  /\ exc' = 0
  /\ UNCHANGED <<stmt, bound, freedRead>> /\ NoStep /\ UNCHANGED hookVars

(* nativeCancel, from another thread: connection->canceled = true.         *)
Cancel ==
  /\ conn = "live"
  /\ canceled' = TRUE
  /\ UNCHANGED <<conn, db, stmt, bound, handler, exc, freedRead, stepResult,
                 tracing>>

(* nativeResetCancel(cancelable): canceled = false, then install the      *)
(* progress handler (every 4 VM instructions) or remove it.  The two      *)
(* writes are one step: only nativeCancel can run between them, and the   *)
(* handler and flag are read only by a step of this same thread.          *)
ResetCancel(c) ==
  /\ conn = "live"
  /\ canceled' = FALSE
  /\ handler' = c
  /\ exc' = 0
  /\ UNCHANGED <<conn, db, stmt, bound, freedRead, tracing>>
  /\ NoStep

Next ==
  \/ \E s \in Stmts :
       \/ Prepare(s) \/ Finalize(s) \/ Bind(s) \/ ResetAndClear(s)
       \/ ExecuteNonQuery(s) \/ ExecuteRaw(s) \/ ExecuteOneRow(s)
       \/ GetStatementInfo(s)
  \/ GetDbLookaside
  \/ Close
  \/ Cancel
  \/ \E c \in BOOLEAN : ResetCancel(c)

Spec == Init /\ [][Next]_vars

(***************************************************************************)
(* Properties                                                              *)
(***************************************************************************)

TypeOK ==
  /\ conn \in {"live", "deleted"}
  /\ db \in {"open", "zombie", "closed"}
  /\ stmt \in [Stmts -> Live \cup {"unused", "finalized"}]
  /\ bound \in [Stmts -> BOOLEAN]
  /\ exc \in Nat
  /\ {canceled, handler, freedRead, tracing} \subseteq BOOLEAN
  /\ stepResult \in {"none", "ROW", "DONE", "ERROR", "INTERRUPT"}

NoUseAfterDelete == ~freedRead

=============================================================================
