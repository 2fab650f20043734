\* An object initialised by a list in which an item without a designator
\* follows a chain of designators (.a.x = v1, v2).
CONSTANTS
  ObjNames = {"x"}
  FuncNames = {"f"}
  TypedefNames = {"t"}
  Values = {"v1", "v2"}
  Inits <- ChainInits
  MaxDecls = 1
INIT Init
NEXT Next
PROPERTY
  InitialiserAsC
