\* Is a completed form on the processor's list?
SPECIFICATION StatusSpec
CONSTANTS
  h1 = h1
  h2 = h2
  b1 = b1
  b2 = b2
  s1 = s1
  k1 = k1
  None = None
  Ssns = {s1}
  Inputs <- MCInputs
  Concurrency = 1
  WriteCap = 2
  Posts = {h1}
  Batches = {b1}
  MaxDate = 0
  MaxRows = 1
  MaxCopies = 1
  MaxFaults = 0
  Calls = {k1}
  Events = {"delivered", "completed"}
  MaxEvents = 2
INVARIANTS
  CompletedFormsAreListed
