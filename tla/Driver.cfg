\* Every command-line shape the compiler driver routes: one or two sources
\* of each kind of extension, every output mode and -o form, checked
\* against the abstract DriverSpec.
CONSTANTS
  Exts = {"", "a", "i", "h", "c", "txt"}
  Modes = {"E", "S", "c", "fsyntax", "link"}
  MaxSources = 2
  BAD_FILE = BAD_FILE
SPECIFICATION Spec
INVARIANTS
  TypeOK
  LinkInputsDefined
  SuccessMeansAllBuilt
PROPERTY
  DriverImplementsSpec
