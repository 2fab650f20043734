\* Jumps out of compound statements with defers: break out of a loop, return
\* from a nested compound statement, goto a label outside the compound.
CONSTANTS
  StmtKinds = {"expr", "defer", "break", "while", "ret", "goto", "label"}
  ExprShapes <- AtomShapes
  ForForms <- AllForForms
  MaxSize = 5
  MaxCmpd = 2
  K = 4
  VaListByRef = TRUE
  Labels = {1}
INIT Init
NEXT Next
INVARIANT TraceEquivalence
