---------------------------- MODULE SQLiteGlobal ----------------------------
(***************************************************************************)
(* Loading the library: JNI_OnLoad (src/.../android_database_SQLite-       *)
(* Connection.cpp), which sets SQLCIPHER_TMP (setEnvarToCacheDirectory),   *)
(* registers the natives and, through register_android_database_SQLite-   *)
(* Global, runs sqliteInitialize (src/.../android_database_SQLiteGlobal.   *)
(* cpp).                                                                   *)
(*                                                                         *)
(* SQLite is the environment, with its documented behaviour:               *)
(*  - sqlite3_config returns SQLITE_MISUSE, and changes nothing, once the  *)
(*    library is initialized;                                              *)
(*  - the log callback receives extended result codes (primary code in    *)
(*    the low byte) from any SQLite call, on any thread;                   *)
(*  - sqlite3_soft_heap_limit (sqlite3_soft_heap_limit64) and              *)
(*    sqlite3_open_v2 call sqlite3_initialize themselves.                  *)
(*                                                                         *)
(*   load    "unloaded" before JNI_OnLoad, "loaded" after it               *)
(*   lib     the SQLite library: initialized, threading mode, the log      *)
(*           callback installed, the soft heap limit                       *)
(*   logged  the latest message SQLite passed to sqliteLogCallback, with   *)
(*           the priority the callback gave it                             *)
(*   tmpdir  the SQLCIPHER_TMP environment variable: "unset", "empty",     *)
(*           "external" (set by the application), "cache" (the app's      *)
(*           cache directory)                                             *)
(***************************************************************************)
EXTENDS Naturals
LOCAL INSTANCE Bitwise
LOCAL INSTANCE TLC

SOFT_HEAP_LIMIT == 8 * 1024 * 1024

(* Result codes of sqlite3.h.                                             *)
SQLITE_OK == 0
SQLITE_BUSY == 5
SQLITE_IOERR == 10
SQLITE_CORRUPT == 11
SQLITE_SCHEMA == 17
SQLITE_CONSTRAINT == 19
SQLITE_NOTICE == 27
SQLITE_WARNING == 28
ExtendedCode(primary, n) == primary + n * 256
SQLITE_WARNING_AUTOINDEX == ExtendedCode(SQLITE_WARNING, 1)

(* Codes SQLite logs: primary codes of each class the callback tells      *)
(* apart, and extended codes of them (SQLITE_CONSTRAINT_UNIQUE,            *)
(* SQLITE_NOTICE_RECOVER_WAL, SQLITE_WARNING_AUTOINDEX, SQLITE_IOERR_READ, *)
(* SQLITE_BUSY_SNAPSHOT, SQLITE_CORRUPT_VTAB).                             *)
LogCodes ==
  {SQLITE_BUSY, SQLITE_IOERR, SQLITE_SCHEMA, SQLITE_CONSTRAINT, SQLITE_NOTICE,
   SQLITE_WARNING,
   ExtendedCode(SQLITE_CONSTRAINT, 8), ExtendedCode(SQLITE_NOTICE, 1),
   SQLITE_WARNING_AUTOINDEX, ExtendedCode(SQLITE_IOERR, 1),
   ExtendedCode(SQLITE_BUSY, 2), ExtendedCode(SQLITE_CORRUPT, 1)}

NoLog == [err |-> SQLITE_OK, priority |-> "NONE"]

VARIABLES load, lib, tmpdir, logged

globalVars == <<load, lib, tmpdir, logged>>

(* The library as the process starts: not initialized, compiled default   *)
(* threading mode (serialized), no log callback, no heap limit.           *)
Unconfigured ==
  [initialized |-> FALSE, threading |-> "SERIALIZED", logger |-> "none",
   heapLimit |-> 0]

Init ==
  /\ load = "unloaded"
  /\ lib = Unconfigured
  /\ tmpdir \in {"unset", "empty", "external"}
  /\ logged = NoLog

(* sqliteInitialize's verboseLog, passed as the log callback's data.      *)
VERBOSE_LOG == FALSE

(* Mutant: the primary code is not masked out of the extended code.       *)
LogPriorityNoMask(err, verboseLog) ==
  CASE err \in {0, SQLITE_CONSTRAINT, SQLITE_SCHEMA, SQLITE_NOTICE}
         \/ err = SQLITE_WARNING_AUTOINDEX -> IF verboseLog THEN "VERBOSE" ELSE "NONE"
    [] err = SQLITE_WARNING -> "WARN"
    [] OTHER -> "ERROR"

(* sqliteLogCallback(data, err, msg): success, constraint, schema and     *)
(* notice codes, and the automatic-index warning, are logged verbosely    *)
(* and only when data is set; other warnings with ALOGW; the rest with    *)
(* ALOGE.                                                                 *)
LogPriority(err, verboseLog) ==
  LET errType == err & 255
  IN  CASE errType \in {0, SQLITE_CONSTRAINT, SQLITE_SCHEMA, SQLITE_NOTICE}
             \/ err = SQLITE_WARNING_AUTOINDEX -> IF verboseLog THEN "VERBOSE" ELSE "NONE"
        [] errType = SQLITE_WARNING -> "WARN"
        [] OTHER -> "ERROR"

(* sqlite3_initialize(), also run by every call that auto-initializes.    *)
Initialize(l) == [l EXCEPT !.initialized = TRUE]

(* sqlite3_config(op, value): ignored (SQLITE_MISUSE) once initialized.   *)
Config(l, field, value) ==
  IF l.initialized THEN l ELSE [l EXCEPT ![field] = value]

(* sqlite3_soft_heap_limit(n): initializes the library, then sets n.      *)
SoftHeapLimit(l, n) == [Initialize(l) EXCEPT !.heapLimit = n]

(* Mutant: the heap limit is set before the configuration calls.          *)
SqliteInitializeHeapFirst(l) ==
  Initialize(Config(Config(SoftHeapLimit(l, SOFT_HEAP_LIMIT),
                           "threading", "MULTITHREAD"),
                    "logger", "sqliteLogCallback"))

(* sqliteInitialize(): SQLITE_CONFIG_MULTITHREAD, SQLITE_CONFIG_LOG with  *)
(* sqliteLogCallback, the soft heap limit, sqlite3_initialize; the        *)
(* results are not checked.                                               *)
SqliteInitialize(l) ==
  Initialize(SoftHeapLimit(Config(Config(l, "threading", "MULTITHREAD"),
                                  "logger", "sqliteLogCallback"),
                           SOFT_HEAP_LIMIT))

(* setEnvarToCacheDirectory("SQLCIPHER_TMP"): a non-empty value set by    *)
(* the application is kept; otherwise the chain of JNI calls that reads   *)
(* the application's cache directory either succeeds (setenv) or fails    *)
(* at some call (logged, the variable is left as it was).                 *)
SetEnvarToCacheDirectory(t) ==
  IF t = "external" THEN {t} ELSE {t, "cache"}

(* JNI_OnLoad: setEnvarToCacheDirectory, then the register_* calls in     *)
(* their order; register_android_database_SQLiteGlobal runs               *)
(* sqliteInitialize.  The other registrations only bind natives.          *)
OnLoad ==
  /\ load = "unloaded"
  /\ load' = "loaded"
  /\ tmpdir' \in SetEnvarToCacheDirectory(tmpdir)
  /\ lib' = SqliteInitialize(lib)
  /\ UNCHANGED logged

(* A native that opens a database: sqlite3_open_v2 initializes SQLite.    *)
OpenInitializes == lib' = Initialize(lib) /\ UNCHANGED <<load, tmpdir, logged>>

(* SQLite reports err to the log callback installed with                  *)
(* SQLITE_CONFIG_LOG, if any.                                              *)
SqliteLog(err) ==
  /\ lib.logger = "sqliteLogCallback"
  /\ logged' = [err |-> err, priority |-> LogPriority(err, VERBOSE_LOG)]
  /\ UNCHANGED <<load, lib, tmpdir>>

(***************************************************************************)
(* Properties                                                              *)
(***************************************************************************)

GlobalTypeOK ==
  /\ load \in {"unloaded", "loaded"}
  /\ lib \in [initialized : BOOLEAN, threading : {"SERIALIZED", "MULTITHREAD"},
              logger : {"none", "sqliteLogCallback"}, heapLimit : Nat]
  /\ tmpdir \in {"unset", "empty", "external", "cache"}
  /\ logged \in [err : LogCodes \cup {SQLITE_OK},
                 priority : {"NONE", "VERBOSE", "WARN", "ERROR"}]

(* Once SQLite is initialized (by sqliteInitialize, or by a database      *)
(* opened after loading), it runs in the configuration sqliteInitialize   *)
(* asks for: multi-threaded mode, the Android log callback and the soft   *)
(* heap limit.  sqliteInitialize's comment: it "must be called before any *)
(* other SQLite functions are called"; a call that initializes SQLite     *)
(* earlier makes every sqlite3_config fail silently.                      *)
ConfiguredBeforeInit ==
  lib.initialized =>
    /\ lib.threading = "MULTITHREAD"
    /\ lib.logger = "sqliteLogCallback"
    /\ lib.heapLimit = SOFT_HEAP_LIMIT

(* SQLite hands the log callback extended result codes: each is logged   *)
(* at the priority of its primary result code, so that, for instance, a   *)
(* SQLITE_CONSTRAINT_UNIQUE is as quiet as SQLITE_CONSTRAINT and a        *)
(* SQLITE_IOERR_READ is an error; the one deliberate exception is the     *)
(* automatic-index warning, demoted to verbose.                           *)
PrimaryPriority ==
  (SQLITE_OK :> "NONE") @@ (SQLITE_SCHEMA :> "NONE")
    @@ (SQLITE_CONSTRAINT :> "NONE") @@ (SQLITE_NOTICE :> "NONE")
    @@ (SQLITE_WARNING :> "WARN") @@ (SQLITE_BUSY :> "ERROR")
    @@ (SQLITE_IOERR :> "ERROR") @@ (SQLITE_CORRUPT :> "ERROR")

LogByPrimaryCode ==
  logged.priority =
    IF logged.err = SQLITE_WARNING_AUTOINDEX THEN "NONE"
    ELSE PrimaryPriority[logged.err % 256]

=============================================================================
