CONSTANTS
  d1 = d1
  d2 = d2
  r1 = r1
  r2 = r2
  r3 = r3
  Handles <- MC_Handles
  Refs <- MC_Refs
  Names = {f1}
  NoRef = NoRef
SYMMETRY MC_Symmetry
SPECIFICATION Spec
INVARIANT NoLeakedDbHandle
