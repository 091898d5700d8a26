\* Every pair of results over four keys and two values.
SPECIFICATION DiffSpec
CONSTANTS
  v1 = v1
  v2 = v2
  Keys = {1, 2, 3, 4}
  Values = {v1, v2}
  Vectors <- MCVectors
INVARIANTS
  DiffIsRight
