SPECIFICATION Spec
CONSTANTS
  INT_MAX = 2
  SIZE_MAX = 5
  MaxReserve = 1
INVARIANTS
  TypeOK
  EmptyLineDecides
  OnlyBodiesTerminate
PROPERTIES
  CompletedAtEmptyLine
