\* Loops, selection, switch with case and default labels and fall-through,
\* break, continue, return and goto with labels, forward and backward, into
\* and out of loops and switches, over atom-only expressions.
CONSTANTS
  StmtKinds = {"expr", "null", "goto", "label", "if", "ifelse", "while", "break", "continue", "dowhile", "for", "ret", "retval", "switch", "case", "default"}
  ExprShapes <- AtomShapes
  ForForms <- IterForForms
  MaxSize = 4
  MaxCmpd = 3
  K = 4
  VaListByRef = FALSE
  Labels = {1, 2}
INIT Init
NEXT Next
INVARIANTS
  TypeOK
  StackDiscipline
  CFGWellFormed
  TraceEquivalence
