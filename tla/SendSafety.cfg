\* Two overlapping batches and two faults; a row may be replaced by a newer one.
SPECIFICATION Spec
CONSTANTS
  h1 = h1
  h2 = h2
  b1 = b1
  b2 = b2
  s1 = s1
  s2 = s2
  None = None
  Posts = {h1, h2}
  Batches = {b1, b2}
  Ssns = {s1, s2}
  Inputs <- MCInputs
  MaxDate = 1
  MaxRows = 4
  MaxCopies = 3
  Concurrency = 2
  WriteCap = 2
  MaxFaults = 2
SYMMETRY MCSymmetry
INVARIANTS
  WorkIsFresh
  EveryCopyAccounted
  OneEnvelopePerRow
  NoLostWakeup
  AckedBatchDurable
  BatchesAreWhole
PROPERTIES
  CleanMeansNew
  SettledOnce
