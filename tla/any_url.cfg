SPECIFICATION Spec
INVARIANTS
  TypeOK
  NeverMisread
  AcceptsItsForm
