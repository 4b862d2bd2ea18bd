--------------------------- MODULE CollLocalized ---------------------------
(***************************************************************************)
(* coll_localized (src/.../android_database_SQLiteConnection.cpp 130-142), *)
(* the collation nativeOpen registers as "localized": memcmp over the      *)
(* shorter key, then the length difference.  SQLite requires a collation  *)
(* to be a consistent total order; the reference below is the BINARY      *)
(* order, bytewise unsigned lexicographic with a prefix sorting first.    *)
(*                                                                         *)
(* The checked behaviour enumerates pairs of keys: each state holds one   *)
(* pair, and every step moves to any pair of the bounded key set.         *)
(***************************************************************************)
EXTENDS Integers, Sequences
LOCAL INSTANCE SequencesExt

CONSTANTS
  Bytes,    \* byte values, 0..255
  MaxLen    \* longest key

ASSUME Bytes \subseteq 0..255

Keys == BoundedSeq(Bytes, MaxLen)

(* Mutant: bytes compared as signed char.                                 *)
SignedByte(b) == IF b >= 128 THEN b - 256 ELSE b

(* Mutant: memcmp comparing signed chars.                                  *)
RECURSIVE MemCmpSigned(_, _, _, _)
MemCmpSigned(p1, p2, n, i) ==
  IF i > n THEN 0
  ELSE IF p1[i] # p2[i] THEN SignedByte(p1[i]) - SignedByte(p2[i])
  ELSE MemCmpSigned(p1, p2, n, i + 1)

(* memcmp(p1, p2, n) from byte i on: the difference of the first          *)
(* differing bytes as unsigned char, 0 when the first n bytes agree.      *)
RECURSIVE MemCmp(_, _, _, _)
MemCmp(p1, p2, n, i) ==
  IF i > n THEN 0
  ELSE IF p1[i] # p2[i] THEN p1[i] - p2[i]
  ELSE MemCmp(p1, p2, n, i + 1)

Coll(key1, key2) ==
  LET n == IF Len(key1) < Len(key2) THEN Len(key1) ELSE Len(key2)
      rc == MemCmp(key1, key2, n, 1)
  IN  IF rc = 0 THEN Len(key1) - Len(key2) ELSE rc

(* Reference: unsigned lexicographic order.                               *)
LexBefore(a, b) ==
  \/ Len(a) < Len(b) /\ SubSeq(b, 1, Len(a)) = a
  \/ \E i \in 1..Len(a) :
       /\ i <= Len(b)
       /\ SubSeq(a, 1, i - 1) = SubSeq(b, 1, i - 1)
       /\ a[i] < b[i]

Sign(x) == IF x < 0 THEN -1 ELSE IF x > 0 THEN 1 ELSE 0

RefCompare(a, b) == IF a = b THEN 0 ELSE IF LexBefore(a, b) THEN -1 ELSE 1

VARIABLES key1, key2

Init == key1 \in Keys /\ key2 \in Keys

Next == \E a, b \in Keys : key1' = a /\ key2' = b

Spec == Init /\ [][Next]_<<key1, key2>>

TypeOK == key1 \in Keys /\ key2 \in Keys

(* coll_localized orders every pair of keys exactly as the BINARY order   *)
(* does: the sign of its result agrees with unsigned lexicographic        *)
(* comparison, including bytes >= 0x80 and keys that are prefixes of      *)
(* one another.                                                           *)
CollMatchesBinary == Sign(Coll(key1, key2)) = RefCompare(key1, key2)

=============================================================================
