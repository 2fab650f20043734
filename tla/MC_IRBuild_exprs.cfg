\* Branching expressions (&&, ||, ?:, ?: with two operands, comma) and
\* builtin and intrinsic calls in conditions, expression statements,
\* initialisers and returned values.
CONSTANTS
  StmtKinds = {"expr", "decl", "ret", "retval", "break", "continue", "if", "ifelse", "while", "dowhile"}
  ExprShapes <- BranchingAndBuiltinShapes
  ForForms <- AllForForms
  MaxSize = 2
  MaxCmpd = 2
  K = 4
  VaListByRef = TRUE
  Labels = {}
INIT Init
NEXT Next
INVARIANTS
  CFGWellFormed
  PhiEntriesArePreds
  TraceEquivalence
  DispatchReadsDeclaredParams
