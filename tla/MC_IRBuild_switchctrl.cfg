\* switch on a controlling expression that has control flow of its own.
CONSTANTS
  StmtKinds = {"expr", "switch", "case"}
  ExprShapes <- AndShapes
  ForForms <- AllForForms
  MaxSize = 4
  MaxCmpd = 2
  K = 4
  VaListByRef = TRUE
  Labels = {}
INIT Init
NEXT Next
INVARIANT CFGWellFormed
