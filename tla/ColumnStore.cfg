SPECIFICATION Spec
CONSTANTS
  Values = {a, b}
  NoValue = none
  BodyWords = 5
  WriteWords = 2
  ReadWords = 2
  FilePages = 3
  MaxRows = 7
INVARIANTS
  TypeOK
  PagesAreDense
  ParallelScanCovers
PROPERTY
  ImplementsLog
