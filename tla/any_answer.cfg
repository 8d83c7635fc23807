SPECIFICATION Spec
CONSTANTS
  MaxSize = 18
  MaxMistaken = 1
  INT_MAX = 18
  SIZE_MAX = 40
  MaxReserve = 18
INVARIANTS
  TypeOK
  CachesOnlyWhole
  CachesEveryWhole
