SPECIFICATION Spec
CONSTANTS
  x = x
  y = y
  Undef = Undef
  Var <- MCVar
  Kinds = {"set", "call", "zero", "inc", "use", "copy", "comma"}
  LongKinds = {"call", "use"}
  LongLen = 3
  MaxLen = 2
  Procedures <- MCProcedures
  regs_available = 2
INVARIANTS FlowExact LivesExact OnePlace SameValues
CHECK_DEADLOCK FALSE
