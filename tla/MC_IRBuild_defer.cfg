\* defer statements in nested scopes, left by falling off their end.
CONSTANTS
  StmtKinds = {"expr", "defer", "if", "ifelse", "while"}
  ExprShapes <- AtomShapes
  ForForms <- AllForForms
  MaxSize = 5
  MaxCmpd = 3
  K = 4
  VaListByRef = TRUE
  Labels = {}
INIT Init
NEXT Next
INVARIANTS
  StackDiscipline
  CFGWellFormed
  TraceEquivalence
