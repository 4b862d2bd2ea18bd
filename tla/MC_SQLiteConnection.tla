---------------------- MODULE MC_SQLiteConnection ----------------------
(* Two handles, three function objects and one name: enough for a         *)
(* re-registration that overloads a function while it runs, a failed      *)
(* registration, and a close that releases what is registered.           *)
EXTENDS SQLiteConnection, TLC

CONSTANTS d1, d2, r1, r2, r3

MC_Handles == {d1, d2}
MC_Refs == {r1, r2, r3}
MC_Symmetry == Permutations(MC_Handles) \cup Permutations(MC_Refs)
=============================================================================
