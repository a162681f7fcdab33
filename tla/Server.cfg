CHECK_DEADLOCK FALSE
SPECIFICATION FairSpec
CONSTANTS
  Clients = {c1, c2, c3}
  Workers = 2
  Backlog = 2
INVARIANTS
  ServedInOrder
PROPERTY
  ServedIfClientsLeave
  ServerUsesPool
