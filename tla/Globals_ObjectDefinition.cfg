\* Translation units of up to 3 external declarations, checked against
\* what C11 6.9.2 says an object ends up defined as.
CONSTANTS
  ObjNames = {"x"}
  FuncNames = {"f"}
  TypedefNames = {"t"}
  Values = {"v1"}
  Inits <- ScalarInits
  MaxDecls = 3
INIT Init
NEXT Next
INVARIANT
  ObjectDefinitionAsC
