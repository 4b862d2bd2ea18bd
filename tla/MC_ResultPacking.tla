-------------------------- MODULE MC_ResultPacking --------------------------
(* jint of 6 bits (INT_MAX = 31), jlong of 12 bits; every start position. *)
EXTENDS ResultPacking

MC_StartPositions == 0..INT_MAX
=============================================================================
