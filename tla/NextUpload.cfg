\* Two uploads, the second while the processor is busy or after something failed.
SPECIFICATION ShutdownFairSpec
CONSTANTS
  h1 = h1
  h2 = h2
  b1 = b1
  b2 = b2
  s1 = s1
  k1 = k1
  None = None
  Ssns = {s1}
  Inputs <- MCOnePerson
  Concurrency = 1
  WriteCap = 1
  Posts = {h1, h2}
  Batches = {b1, b2}
  MaxDate = 1
  MaxRows = 2
  MaxCopies = 1
  MaxFaults = 1
  Calls = {k1}
  Events = {}
  MaxEvents = 1
PROPERTIES
  EveryRowTried
  NextUploadPostsAll
