SPECIFICATION DbSpec
CONSTANTS
  c1 = c1
  c2 = c2
  b1 = b1
  b2 = b2
  s1 = s1
  s2 = s2
  None = None
  Clients = {c1, c2}
  Batches = {b1, b2}
  Ssns = {s1, s2}
  Lists <- MCLists
  Ids = {1, 2}
  Gids = {1, 2}
  Statuses = {"sent", "voided"}
  MaxDate = 1
  WriteCap = 2
  MaxFaults = 1
  MaxRequests = 4
SYMMETRY MCSymmetry
INVARIANTS
  TablesConsistent
  EveryoneIsShown
PROPERTIES
  ImplementsStore
