\* Two processors and a job, about three lifetimes of a token, one failed renewal.
SPECIFICATION AuthFairSpec
CONSTANTS
  p1 = p1
  p2 = p2
  j1 = j1
  None = None
  Helpers = {p1, p2, j1}
  Life = 3
  ProviderLife = 5
  Delay = 1
  MaxTime = 8
INVARIANTS
  AuthTypeOK
  TokensSpaced
  UsedInTime
PROPERTIES
  EveryGetEnds
