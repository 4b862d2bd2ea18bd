------------------------- MODULE MC_SQLiteStatement -------------------------
(* Two statements on one connection: one can be open across nativeClose   *)
(* while the other is finalized, and statements are interchangeable.      *)
EXTENDS SQLiteStatement, TLC

CONSTANTS s1, s2

MC_Stmts == {s1, s2}
MC_Symmetry == Permutations(MC_Stmts)
=============================================================================
