\* Two batches for one person: a second row while events of the first arrive.
SPECIFICATION StatusSpec
CONSTANTS
  h1 = h1
  h2 = h2
  b1 = b1
  b2 = b2
  s1 = s1
  k1 = k1
  None = None
  Ssns = {s1}
  Inputs <- MCInputs
  Concurrency = 1
  WriteCap = 2
  Posts = {h1, h2}
  Batches = {b1, b2}
  MaxDate = 1
  MaxRows = 2
  MaxCopies = 2
  MaxFaults = 1
  Calls = {k1}
  Events = {"delivered", "voided"}
  MaxEvents = 2
SYMMETRY MCSymmetry
INVARIANTS
  StatusTypeOK
  ReportedOnly
  AckedReachesRow
  IdWritesFit
  VoidWorkNotForgotten
PROPERTIES
  NothingReplayed
  GidStays
