SPECIFICATION MCSpec
CONSTANTS
  Threads = {t1, t2}
  Capacity = 2
  MaxPages = 3
  Clearing = TRUE
INVARIANTS
  TypeOK
  ListAndMapAgree
  WithinCapacity
  QuietDirtyCovers
  QuietNoNullPage
PROPERTY
  DirtyLeavesSynced
SYMMETRY ThreadSymmetry
