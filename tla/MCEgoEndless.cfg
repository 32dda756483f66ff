SPECIFICATION Spec
CONSTANTS
  x = x
  y = y
  Undef = Undef
  Var <- MCVar
  Kinds = {"set", "call", "zero", "inc", "use", "copy", "comma"}
  LongKinds = {"call", "use"}
  LongLen = 0
  MaxLen = 2
  Procedures <- MCEndless
  regs_available = 2
INVARIANT LivesExact
CHECK_DEADLOCK FALSE
