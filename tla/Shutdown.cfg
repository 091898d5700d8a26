\* One envelope and one fault, a crash included, and the signal at any time.
SPECIFICATION ShutdownFairSpec
CONSTANTS
  h1 = h1
  h2 = h2
  b1 = b1
  b2 = b2
  s1 = s1
  k1 = k1
  None = None
  Ssns = {s1}
  Inputs <- MCOnePerson
  Concurrency = 1
  WriteCap = 1
  Posts = {h1}
  Batches = {b1}
  MaxDate = 0
  MaxRows = 1
  MaxCopies = 1
  MaxFaults = 1
  Calls = {k1}
  Events = {"delivered", "voided", "purge"}
  MaxEvents = 2
INVARIANTS
  NothingCutShort
  NoWorkLeft
PROPERTIES
  
  EndIsRecorded
  VoidReasonEventually
  EveryPostAnswered
