\* Blocks of up to 3 local declarations, spilled or not, each without an
\* initialiser, with an int expression, a braced int, or a MemberInits list.
CONSTANTS
  Values = {"v1", "v2", "v3"}
  Inits <- LocalInits
  MaxDecls = 3
INIT Init
NEXT Next
INVARIANTS
  TypeOK
  LocalValueAsC
