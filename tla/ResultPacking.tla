--------------------------- MODULE ResultPacking ---------------------------
(***************************************************************************)
(* The result of nativeExecuteForCursorWindow                              *)
(* (src/.../android_database_SQLiteConnection.cpp 724-734, 793-794):       *)
(*                                                                         *)
(*   int totalRows = 0; ... totalRows += 1;        (one per SQLITE_ROW)    *)
(*   jlong result = jlong(startPos) << 32 | jlong(totalRows);              *)
(*                                                                         *)
(* The caller reads the pair (startPos, totalRows) of spec 4.5 back as the *)
(* high and the low 32-bit half of the jlong.                              *)
(*                                                                         *)
(* The arithmetic is that of the code at a width INT_BITS for jint/int and *)
(* 2 * INT_BITS for jlong; the code has INT_BITS = 32, and the models use  *)
(* a smaller width because TLC's integers are 32-bit.  Nothing below       *)
(* depends on the width.  Signed overflow of `totalRows += 1` is undefined *)
(* behaviour; the builds of this library produce the two's-complement     *)
(* wrap, which is what StepRow does.                                       *)
(***************************************************************************)
EXTENDS Integers
LOCAL INSTANCE Bitwise

CONSTANTS
  INT_BITS,        \* width of jint / int (32 in the code)
  MaxSteps,        \* SQLITE_ROW results the statement produces
  StartPositions   \* values of the jint argument startPos

JLONG_BITS == 2 * INT_BITS
INT_MAX == 2^(INT_BITS - 1) - 1

ASSUME INT_BITS \in 2..15 /\ MaxSteps \in Nat
ASSUME StartPositions \subseteq 0..INT_MAX

(* The value of the two's-complement integer of `bits` bits holding x.    *)
Wrap(x, bits) == ((x + 2^(bits - 1)) % 2^bits) - 2^(bits - 1)

(* The bit pattern of x in `bits` bits, read as an unsigned number.       *)
BitPattern(x, bits) == x % 2^bits

(* Mutant: the cast is dropped, `startPos << 32` is an int shift by the   *)
(* full width, which the hardware performs modulo the width (a shift by 0).*)
PackNoWiden(s, t) ==
  Wrap(BitPattern(s, JLONG_BITS) | BitPattern(t, JLONG_BITS), JLONG_BITS)

(* jlong(startPos) << 32 | jlong(totalRows): jlong(totalRows) sign-       *)
(* extends, so a negative count sets every bit of the upper half.         *)
Pack(s, t) ==
  Wrap(BitPattern(Wrap(s * 2^INT_BITS, JLONG_BITS), JLONG_BITS)
         | BitPattern(t, JLONG_BITS),
       JLONG_BITS)

(* The caller's view of the result: (int)(result >> 32), (int)result.     *)
PackedStart(r) == Wrap(r \div 2^INT_BITS, INT_BITS)
PackedCount(r) == Wrap(r, INT_BITS)

VARIABLES
  startPos,   \* the jint argument (not changed unless the page restarts)
  totalRows,  \* the int counter of the code
  rows        \* the rows the statement really produced

vars == <<startPos, totalRows, rows>>

Init ==
  /\ startPos \in StartPositions
  /\ totalRows = 0
  /\ rows = 0

(* SQLITE_ROW: totalRows += 1 on a 32-bit int.                            *)
StepRow ==
  /\ rows < MaxSteps
  /\ rows' = rows + 1
  /\ totalRows' = Wrap(totalRows + 1, INT_BITS)
  /\ UNCHANGED startPos

Next == StepRow

Spec == Init /\ [][Next]_vars

(***************************************************************************)
(* Properties                                                              *)
(***************************************************************************)

(* The packed result returns the pair spec 4.5 promises: its upper half   *)
(* is startPos and its lower half the number of rows the statement         *)
(* produced.  It needs the widening cast before the shift, and a count    *)
(* that the int counter can hold without going negative (a negative count *)
(* would also overwrite startPos through sign extension).                 *)
ResultReportsRows ==
  LET r == Pack(startPos, totalRows)
  IN  PackedStart(r) = startPos /\ PackedCount(r) = rows

=============================================================================
