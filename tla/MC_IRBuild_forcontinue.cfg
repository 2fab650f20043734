\* continue inside for (; cond; ) loops.
CONSTANTS
  StmtKinds = {"expr", "continue", "if", "for"}
  ExprShapes <- AtomShapes
  ForForms <- CondOnlyForForms
  MaxSize = 4
  MaxCmpd = 2
  K = 4
  VaListByRef = TRUE
  Labels = {}
INIT Init
NEXT Next
INVARIANT TraceEquivalence
