CONSTANTS
  s1 = s1
  s2 = s2
  Stmts <- MC_Stmts
  VERBOSE_LOG = FALSE
SYMMETRY MC_Symmetry
SPECIFICATION Spec
INVARIANT NoUseAfterDelete
CHECK_DEADLOCK FALSE
