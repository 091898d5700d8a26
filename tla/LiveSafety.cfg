\* Three connections of one resource, a failing read, slow pages.
SPECIFICATION LiveSpec
CONSTANTS
  c1 = c1
  c2 = c2
  c3 = c3
  r1 = r1
  x = x
  y = y
  None = None
  Keys = {1}
  Values = {x, y}
  Clients = {c1, c2, c3}
  Resources = {r1}
  Want <- MCThreeOnOne
  QueueCap = 3
  CloseCap = 1
  NotifyCap = 1
  FeedCap = 1
  MaxCommits = 2
  MaxFails = 1
SYMMETRY MCSymmetry
INVARIANTS
  LiveTypeOK
  OneUpdater
  NoConnectionLost
  PagesShowResults
  NoMissedCommit
PROPERTIES
  NoneTurnedAway
