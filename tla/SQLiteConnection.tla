------------------------- MODULE SQLiteConnection -------------------------
(***************************************************************************)
(* Connection lifetime and custom-function references of                   *)
(* src/.../android_database_SQLiteConnection.cpp: nativeOpen, nativeClose, *)
(* nativeKey / nativeReKey, nativeRegisterCustomFunction and the two       *)
(* SQLite callbacks it installs (sqliteCustomFunctionCallback,             *)
(* sqliteCustomFunctionDestructor).                                        *)
(*                                                                         *)
(* SQLite is the environment, with the behaviour its documentation gives: *)
(* sqlite3_open_v2 returns a handle that must be closed even when it      *)
(* fails (except when it cannot allocate one); sqlite3_create_function_v2 *)
(* calls the destructor of the user data when it fails, when the function *)
(* is overloaded by a later registration, and when the database closes;  *)
(* overloading an existing function while a statement of the database is *)
(* running fails with SQLITE_BUSY.                                         *)
(*                                                                         *)
(*   db[h]      "free" (never allocated), "open" (allocated), "closed"     *)
(*   conn[h]    the SQLiteConnection wrapper: "none", "live", "deleted"    *)
(*   funcs[h]   name -> global reference registered as user data          *)
(*   ref[r]     JNI global reference: "unused", "live", "deleted"         *)
(*   deletes[r] DeleteGlobalRef calls made on r                            *)
(*   cb         the custom-function callback in progress, if any, and the *)
(*              handle whose statement runs it                             *)
(*   crashed    a null SQLiteConnection* was dereferenced                 *)
(*                                                                         *)
(* The natives are called once JNI_OnLoad has run; it and the SQLite      *)
(* library state come from SQLiteGlobal, and nativeOpen initializes the   *)
(* library through sqlite3_open_v2.                                       *)
(***************************************************************************)
EXTENDS Integers, FiniteSets

CONSTANTS
  Handles,   \* sqlite3* handles (model values)
  Refs,      \* Java SQLiteCustomFunction objects / their global refs
  Names,     \* custom function names
  NoRef      \* no function registered under a name

ASSUME NoRef \notin Refs

VARIABLES db, conn, funcs, ref, deletes, cb, crashed
VARIABLES load, lib, tmpdir, logged

Global == INSTANCE SQLiteGlobal

connVars == <<db, conn, funcs, ref, deletes, cb, crashed>>
vars == <<connVars, <<load, lib, tmpdir, logged>>>>

NoCallback == [active |-> FALSE, h |-> 0]

Init ==
  /\ db = [h \in Handles |-> "free"]
  /\ conn = [h \in Handles |-> "none"]
  /\ funcs = [h \in Handles |-> [n \in Names |-> NoRef]]
  /\ ref = [r \in Refs |-> "unused"]
  /\ deletes = [r \in Refs |-> 0]
  /\ cb = NoCallback
  /\ crashed = FALSE
  /\ Global!Init

(* env->DeleteGlobalRef on each reference of a set.                       *)
DeleteGlobalRefs(S) ==
  /\ ref' = [r \in Refs |-> IF r \in S THEN "deleted" ELSE ref[r]]
  /\ deletes' = [r \in Refs |-> IF r \in S THEN deletes[r] + 1 ELSE deletes[r]]

Registered(h) == {funcs[h][n] : n \in Names} \ {NoRef}

(***************************************************************************)
(* nativeOpen                                                              *)
(***************************************************************************)

(* sqlite3_open_v2 fails: the exception is thrown and 0 returned; a       *)
(* handle it allocated (allocated = TRUE) is never closed.                *)
OpenFailed(h) ==
  /\ db[h] = "free"
  /\ \E allocated \in BOOLEAN : db' = [db EXCEPT ![h] = IF allocated THEN "open" ELSE "free"]
  /\ Global!OpenInitializes
  /\ UNCHANGED <<conn, funcs, ref, deletes, cb, crashed>>

(* The database opened but registering the "localized" collation, the     *)
(* read/write check or sqlite3_busy_timeout failed: sqlite3_close_v2.     *)
OpenSetupFailed(h) ==
  /\ db[h] = "free"
  /\ db' = [db EXCEPT ![h] = "closed"]
  /\ Global!OpenInitializes
  /\ UNCHANGED <<conn, funcs, ref, deletes, cb, crashed>>

(* Every step succeeded: a SQLiteConnection wraps the handle.             *)
OpenSucceeded(h) ==
  /\ db[h] = "free"
  /\ db' = [db EXCEPT ![h] = "open"]
  /\ conn' = [conn EXCEPT ![h] = "live"]
  /\ Global!OpenInitializes
  /\ UNCHANGED <<funcs, ref, deletes, cb, crashed>>

(***************************************************************************)
(* nativeClose                                                             *)
(***************************************************************************)

(* sqlite3_close_v2 succeeds: SQLite destroys every registered function  *)
(* (sqliteCustomFunctionDestructor deletes its global ref), then          *)
(* `delete connection`.  On failure nothing changes (exception thrown).   *)
Close(h) ==
  /\ conn[h] = "live"
  /\ ~cb.active
  /\ db' = [db EXCEPT ![h] = "closed"]
  /\ conn' = [conn EXCEPT ![h] = "deleted"]
  /\ DeleteGlobalRefs(Registered(h))
  /\ funcs' = [funcs EXCEPT ![h] = [n \in Names |-> NoRef]]
  /\ UNCHANGED <<cb, crashed>>

(***************************************************************************)
(* nativeKey / nativeReKey                                                 *)
(***************************************************************************)

(* connectionPtr is a live connection or 0 (the code tests for 0).  With  *)
(* 0, rc stays SQLITE_ERROR and the failure log reads connection->db.     *)
(* With a connection, sqlite3_key / sqlite3_rekey may fail (exception).   *)
Key(ptr) ==
  /\ ptr = 0 \/ (ptr \in Handles /\ conn[ptr] = "live")
  /\ ~cb.active
  /\ crashed' = (crashed \/ ptr = 0)
  /\ UNCHANGED <<db, conn, funcs, ref, deletes, cb>>

(***************************************************************************)
(* nativeRegisterCustomFunction                                            *)
(***************************************************************************)

(* Mutant: registered without a destructor, so an overloaded function's    *)
(* global ref is never deleted.                                           *)
RegisterSucceededNoDestructor(h, n, r) ==
  /\ conn[h] = "live"
  /\ ref[r] = "unused"
  /\ funcs' = [funcs EXCEPT ![h][n] = r]
  /\ ref' = [ref EXCEPT ![r] = "live"]
  /\ UNCHANGED <<db, conn, deletes, cb, crashed>>

(* NewGlobalRef(functionObj), then sqlite3_create_function_v2 succeeds:   *)
(* a function already registered under the name is overloaded and its     *)
(* destructor deletes its global ref.  An overload from inside a running *)
(* callback of the same database is refused (RegisterFailed).             *)
RegisterSucceeded(h, n, r) ==
  LET old == funcs[h][n]
  IN  /\ conn[h] = "live"
      /\ ref[r] = "unused"
      /\ old # NoRef => ~(cb.active /\ cb.h = h)
      /\ funcs' = [funcs EXCEPT ![h][n] = r]
      /\ ref' = [x \in Refs |-> CASE x = r   -> "live"
                                   [] x = old -> "deleted"
                                   [] OTHER   -> ref[x]]
      /\ deletes' = [x \in Refs |-> IF x = old THEN deletes[x] + 1 ELSE deletes[x]]
      /\ UNCHANGED <<db, conn, cb, crashed>>

(* sqlite3_create_function_v2 fails (no memory, SQLITE_BUSY for an        *)
(* overload while a statement runs, ...): SQLite calls the destructor on the *)
(* new reference, then the error branch calls DeleteGlobalRef on it too.  *)
RegisterFailed(h, n, r) ==
  /\ conn[h] = "live"
  /\ ref[r] = "unused"
  /\ ref' = [ref EXCEPT ![r] = "deleted"]
  /\ deletes' = [deletes EXCEPT ![r] = @ + 2]
  /\ UNCHANGED <<db, conn, funcs, cb, crashed>>

(***************************************************************************)
(* sqliteCustomFunctionCallback                                            *)
(***************************************************************************)

(* SQLite evaluates function n while a statement steps: the callback takes *)
(* a local reference to the function object before doing anything else.  *)
CallbackBegin(h, n) ==
  /\ conn[h] = "live"
  /\ funcs[h][n] # NoRef
  /\ ~cb.active
  /\ cb' = [active |-> TRUE, h |-> h]
  /\ UNCHANGED <<db, conn, funcs, ref, deletes, crashed>>

(* The arguments are converted and dispatchCallback is invoked on the     *)
(* local reference (skipped when an argument string cannot be allocated); *)
(* the local ref is deleted and a pending Java exception cleared.         *)
CallbackEnd ==
  /\ cb.active
  /\ cb' = NoCallback
  /\ UNCHANGED <<db, conn, funcs, ref, deletes, crashed>>

(* JNI_OnLoad, before any native of the library can be called.           *)
Load == Global!OnLoad /\ UNCHANGED connVars

Loaded == load = "loaded"

OpenStep == \E h \in Handles :
              OpenFailed(h) \/ OpenSetupFailed(h) \/ OpenSucceeded(h)

ConnectionStep ==
  \/ \E h \in Handles :
       \/ Close(h)
       \/ \E n \in Names :
            \/ CallbackBegin(h, n)
            \/ \E r \in Refs : RegisterSucceeded(h, n, r) \/ RegisterFailed(h, n, r)
  \/ \E ptr \in Handles \cup {0} : Key(ptr)
  \/ CallbackEnd

(* SQLite logs a message from any call on any connection.                 *)
Log == \E err \in Global!LogCodes : Global!SqliteLog(err) /\ UNCHANGED connVars

Next ==
  \/ Load
  \/ Loaded /\ Log
  \/ Loaded /\ OpenStep
  \/ Loaded /\ ConnectionStep /\ UNCHANGED <<load, lib, tmpdir, logged>>

Spec == Init /\ [][Next]_vars

(***************************************************************************)
(* Properties                                                              *)
(***************************************************************************)

TypeOK ==
  /\ db \in [Handles -> {"free", "open", "closed"}]
  /\ conn \in [Handles -> {"none", "live", "deleted"}]
  /\ funcs \in [Handles -> [Names -> Refs \cup {NoRef}]]
  /\ ref \in [Refs -> {"unused", "live", "deleted"}]
  /\ deletes \in [Refs -> Nat]
  /\ cb \in [active : BOOLEAN, h : Handles \cup {0}]
  /\ crashed \in BOOLEAN
  /\ Global!GlobalTypeOK

(* Every live global reference is the user data of a function registered  *)
(* on a live connection: overloading a function and closing the           *)
(* connection release the references, and a failed registration leaves    *)
(* none behind.                                                           *)
NoLeakedGlobalRef ==
  \A r \in Refs :
    ref[r] = "live" => \E h \in Handles, n \in Names : funcs[h][n] = r /\ conn[h] = "live"

(* Each global reference is deleted at most once (JNI: DeleteGlobalRef of *)
(* an already deleted reference is invalid).                              *)
GlobalRefDeletedOnce == \A r \in Refs : deletes[r] <= 1

(* Every sqlite3 handle nativeOpen allocated is closed or owned by a live *)
(* SQLiteConnection (sqlite3_open_v2: "resources associated with the      *)
(* database connection handle should be released ... even if an error     *)
(* occurs").                                                              *)
NoLeakedDbHandle == \A h \in Handles : db[h] = "open" => conn[h] = "live"

(* SQLite runs in the configuration sqliteInitialize sets up, whichever   *)
(* call initializes it first (SQLiteGlobal!ConfiguredBeforeInit).        *)
ConfiguredBeforeInit == Global!ConfiguredBeforeInit

(* sqliteLogCallback ranks an extended result code like its primary code  *)
(* (SQLiteGlobal!LogByPrimaryCode).                                       *)
LogByPrimaryCode == Global!LogByPrimaryCode

=============================================================================
