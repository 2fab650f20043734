\* Every translation unit of up to 3 external declarations of one object,
\* one function and one typedef name, the object initialised by an int
\* expression or by one of the braced lists of MemberInits.
CONSTANTS
  ObjNames = {"x"}
  FuncNames = {"f"}
  TypedefNames = {"t"}
  Values = {"v1", "v2", "v3"}
  Inits <- PassInits
  MaxDecls = 3
INIT Init
NEXT Next
INVARIANTS
  TypeOK
  LinkageAsC
  FunctionDefinedAsC
PROPERTY
  InitialiserAsC
